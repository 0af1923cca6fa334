----------------------------- MODULE Plugin_proofs -----------------------------
(* The start of the plugin, for any builds, settings, profiles and versions of *)
(* the executable, whenever it is replaced, with frames of the game and the    *)
(* clock in between: the layout that is hashed is that of an image with its    *)
(* sections apart, the first frame finds everything wired, the game and the    *)
(* disk are touched only as the settings say, and the log stays in its limits. *)
(* These hold because each step of the start only builds on what the steps     *)
(* before it have left, and nothing takes that back.                           *)
(*                                                                             *)
(* A fingerprint is of one version of the executable when the file is replaced *)
(* at most once while it is collected: with the first version put back behind  *)
(* the second, both readings of the layout and both hashes agree, and what was *)
(* hashed in between is of the other.  The theorems that rest on it say so.    *)
EXTENDS Plugin, SequenceTheorems, FiniteSetTheorems, TLAPS

-----------------------------------------------------------------------------
(* The checks of the PE reader are enough.  Whatever the word and the limits   *)
(* are, an image that is accepted has its sections apart.                      *)

\* Two half-open regions that do not overlap share no byte.
LEMMA ApartRegions ==
  ASSUME NEW a \in Nat, NEW m \in Nat, NEW b \in Nat, NEW n \in Nat,
         m > 0 /\ n > 0 => ~Overlap(a, m, b, n),
         NEW i \in 0 .. m - 1, NEW j \in 0 .. n - 1
  PROVE  a + i # b + j
BY DEF Overlap

LEMMA SpanIsNat ==
  ASSUME NEW s \in Section
  PROVE  /\ VirtualSpan(s) \in Nat /\ s.virtualAddress \in Nat
         /\ s.rawOffset \in Nat /\ s.rawSize \in Nat /\ VirtualSpan(s) >= s.rawSize
<1>1. /\ s.virtualSize \in Nat /\ s.virtualAddress \in Nat
      /\ s.rawOffset \in Nat /\ s.rawSize \in Nat
  BY PeImageAssumption DEF Section
<1> QED BY <1>1 DEF VirtualSpan

\* What the loop has found of the section at n, about all the sections before it.
LEMMA AcceptedSection ==
  ASSUME NEW headers \in Headers, NEW entries \in Seq(Section),
         Accepted(headers, entries), NEW n \in DOMAIN entries
  PROVE  /\ entries[n] \in Section
         /\ VirtualSpan(entries[n]) > 0 =>
              entries[n].virtualAddress + VirtualSpan(entries[n]) <= headers.sizeOfImage
         /\ entries[n].rawSize > 0 =>
              /\ entries[n].rawOffset >= headers.sizeOfHeaders
              /\ entries[n].rawOffset + entries[n].rawSize <= headers.fileSize
         /\ entries[n].name = ".text" => entries[n].rawSize # 0
         /\ \A k \in DOMAIN entries : k < n =>
              /\ VirtualSpan(entries[n]) > 0 /\ VirtualSpan(entries[k]) > 0 =>
                   ~Overlap(entries[n].virtualAddress, VirtualSpan(entries[n]),
                            entries[k].virtualAddress, VirtualSpan(entries[k]))
              /\ entries[n].rawSize > 0 /\ entries[k].rawSize > 0 =>
                   ~Overlap(entries[n].rawOffset, entries[n].rawSize,
                            entries[k].rawOffset, entries[k].rawSize)
              /\ entries[n].name = ".text" => entries[k].name # ".text"
<1> DEFINE s == entries[n]
           before == SubSeq(entries, 1, n - 1)
<1>1. n \in 1 .. Len(entries) /\ s \in Section /\ Len(entries) \in Nat
  OBVIOUS
<1>2. DOMAIN before = 1 .. n - 1 /\ \A k \in 1 .. n - 1 : before[k] = entries[k]
  BY <1>1
<1>3. VirtualFits(headers, before, s) /\ RawFits(headers, before, s) /\ TextOnce(before, s)
  BY DEF Accepted, Acceptable
<1>4. s.rawSize \in Nat
  BY <1>1, SpanIsNat
<1>5. /\ VirtualSpan(s) > 0 => s.virtualAddress + VirtualSpan(s) <= headers.sizeOfImage
      /\ s.rawSize > 0 => /\ s.rawOffset >= headers.sizeOfHeaders
                          /\ s.rawOffset + s.rawSize <= headers.fileSize
      /\ s.name = ".text" => s.rawSize # 0
  BY <1>3, <1>4 DEF VirtualFits, RawFits, TextOnce
<1> HIDE DEF before
<1>6. ASSUME NEW k \in DOMAIN entries, k < n
      PROVE  /\ VirtualSpan(s) > 0 /\ VirtualSpan(entries[k]) > 0 =>
                  ~Overlap(s.virtualAddress, VirtualSpan(s),
                           entries[k].virtualAddress, VirtualSpan(entries[k]))
             /\ s.rawSize > 0 /\ entries[k].rawSize > 0 =>
                  ~Overlap(s.rawOffset, s.rawSize, entries[k].rawOffset, entries[k].rawSize)
             /\ s.name = ".text" => entries[k].name # ".text"
  <2>1. k \in DOMAIN before /\ before[k] = entries[k]
    BY <1>1, <1>2, <1>6
  <2>2. VirtualSpan(s) > 0 /\ VirtualSpan(entries[k]) > 0 =>
          ~Overlap(s.virtualAddress, VirtualSpan(s),
                   entries[k].virtualAddress, VirtualSpan(entries[k]))
    BY <1>3, <2>1 DEF VirtualFits
  <2>3. s.rawSize > 0 /\ entries[k].rawSize > 0 =>
          ~Overlap(s.rawOffset, s.rawSize, entries[k].rawOffset, entries[k].rawSize)
    BY <1>3, <1>4, <2>1 DEF RawFits
  <2>4. s.name = ".text" => entries[k].name # ".text"
    BY <1>3, <2>1 DEF TextOnce, HasText
  <2> QED BY <2>2, <2>3, <2>4
<1> QED BY <1>1, <1>5, <1>6

\* Two different sections, whichever comes first.
LEMMA AcceptedPair ==
  ASSUME NEW headers \in Headers, NEW entries \in Seq(Section),
         Accepted(headers, entries),
         NEW i \in DOMAIN entries, NEW j \in DOMAIN entries, i # j
  PROVE  /\ FileBytes(entries[i]) \cap FileBytes(entries[j]) = {}
         /\ ImageBytes(entries[i]) \cap ImageBytes(entries[j]) = {}
         /\ ~(entries[i].name = ".text" /\ entries[j].name = ".text")
<1>1. ASSUME NEW k \in DOMAIN entries, NEW n \in DOMAIN entries, k < n
      PROVE  /\ FileBytes(entries[n]) \cap FileBytes(entries[k]) = {}
             /\ ImageBytes(entries[n]) \cap ImageBytes(entries[k]) = {}
             /\ ~(entries[n].name = ".text" /\ entries[k].name = ".text")
  <2>1. entries[n] \in Section /\ entries[k] \in Section
    BY AcceptedSection
  <2>2. /\ VirtualSpan(entries[n]) > 0 /\ VirtualSpan(entries[k]) > 0 =>
             ~Overlap(entries[n].virtualAddress, VirtualSpan(entries[n]),
                      entries[k].virtualAddress, VirtualSpan(entries[k]))
        /\ entries[n].rawSize > 0 /\ entries[k].rawSize > 0 =>
             ~Overlap(entries[n].rawOffset, entries[n].rawSize,
                      entries[k].rawOffset, entries[k].rawSize)
        /\ entries[n].name = ".text" => entries[k].name # ".text"
    BY <1>1, AcceptedSection
  <2>3. FileBytes(entries[n]) \cap FileBytes(entries[k]) = {}
    <3>1. \A p \in 0 .. entries[n].rawSize - 1, q \in 0 .. entries[k].rawSize - 1 :
            entries[n].rawOffset + p # entries[k].rawOffset + q
      BY <2>1, <2>2, SpanIsNat, ApartRegions
    <3> QED BY <3>1 DEF FileBytes
  <2>4. ImageBytes(entries[n]) \cap ImageBytes(entries[k]) = {}
    <3>1. \A p \in 0 .. VirtualSpan(entries[n]) - 1, q \in 0 .. VirtualSpan(entries[k]) - 1 :
            entries[n].virtualAddress + p # entries[k].virtualAddress + q
      BY <2>1, <2>2, SpanIsNat, ApartRegions
    <3> QED BY <3>1 DEF ImageBytes
  <2> QED BY <2>2, <2>3, <2>4
<1>2. i \in Nat /\ j \in Nat
  OBVIOUS
<1>3. CASE i < j
  BY <1>1, <1>3
<1>4. CASE j < i
  BY <1>1, <1>4
<1> QED BY <1>2, <1>3, <1>4

\* Every image that read returns, whatever the headers and the sections of the file
\* say: no byte of the file belongs to two sections or lies in the headers or behind the
\* end, no two sections are loaded to the same address, all fit the image, and each can be
\* hashed, .text among them exactly once.
THEOREM AcceptedSectionsApart ==
  \A headers \in Headers : \A entries \in Seq(Section) :
    Accepted(headers, entries) =>
      /\ FileBytesApart(headers, entries)
      /\ ImageBytesApart(headers, entries)
      /\ SectionsCanBeHashed(headers, entries)
<1> SUFFICES ASSUME NEW headers \in Headers, NEW entries \in Seq(Section),
                    Accepted(headers, entries)
             PROVE  /\ FileBytesApart(headers, entries)
                    /\ ImageBytesApart(headers, entries)
                    /\ SectionsCanBeHashed(headers, entries)
  OBVIOUS
<1>1. /\ headers.sizeOfHeaders \in Nat /\ headers.fileSize \in Nat
      /\ headers.sizeOfImage \in Nat /\ SectionTableEnd(headers) \in Nat
      /\ SectionTableEnd(headers) <= headers.sizeOfHeaders
  <2>1. /\ headers.sizeOfHeaders \in Nat /\ headers.fileSize \in Nat /\ headers.peOffset \in Nat
        /\ headers.sizeOfImage \in Nat /\ headers.optionalSize \in Nat
        /\ headers.sectionCount \in Nat
    BY PeImageAssumption DEF Headers
  <2>2. headers.sectionCount * SectionHeader \in Nat
    BY <2>1, PeImageAssumption
  <2>3. SectionTableEnd(headers) \in Nat
    <3> DEFINE table == headers.sectionCount * SectionHeader
    <3>1. table \in Nat /\ CoffEnd \in Nat
      BY <2>2, PeImageAssumption
    <3>2. SectionTableEnd(headers) = headers.peOffset + CoffEnd + headers.optionalSize + table
      BY DEF SectionTableEnd
    <3> HIDE DEF table
    <3> QED BY <2>1, <3>1, <3>2
  <2>4. headers.sizeOfHeaders \in SectionTableEnd(headers) .. headers.fileSize
    BY DEF Accepted, HeadersFit
  <2> QED BY <2>1, <2>3, <2>4
<1>2. ASSUME NEW i \in DOMAIN entries
      PROVE  /\ \A b \in FileBytes(entries[i]) :
                  b >= SectionTableEnd(headers) /\ b < headers.fileSize
             /\ \A b \in ImageBytes(entries[i]) : b < headers.sizeOfImage
             /\ entries[i].rawSize > 0 =>
                  /\ entries[i].rawOffset <= headers.fileSize
                  /\ entries[i].rawSize <= headers.fileSize - entries[i].rawOffset
             /\ entries[i].name = ".text" => entries[i].rawSize > 0
  <2>1. /\ entries[i] \in Section
        /\ VirtualSpan(entries[i]) > 0 =>
             entries[i].virtualAddress + VirtualSpan(entries[i]) <= headers.sizeOfImage
        /\ entries[i].rawSize > 0 =>
             /\ entries[i].rawOffset >= headers.sizeOfHeaders
             /\ entries[i].rawOffset + entries[i].rawSize <= headers.fileSize
        /\ entries[i].name = ".text" => entries[i].rawSize # 0
    BY AcceptedSection
  <2>2. /\ VirtualSpan(entries[i]) \in Nat /\ entries[i].virtualAddress \in Nat
        /\ entries[i].rawOffset \in Nat /\ entries[i].rawSize \in Nat
    BY <2>1, SpanIsNat
  <2>3. \A b \in FileBytes(entries[i]) :
          b >= SectionTableEnd(headers) /\ b < headers.fileSize
    <3> TAKE b \in FileBytes(entries[i])
    <3> DEFINE offset == entries[i].rawOffset
               size == entries[i].rawSize
               end == SectionTableEnd(headers)
    <3>1. PICK k \in 0 .. size - 1 : b = offset + k
      BY DEF FileBytes
    <3>2. /\ offset \in Nat /\ size \in Nat /\ end \in Nat /\ headers.fileSize \in Nat
          /\ headers.sizeOfHeaders \in Nat /\ end <= headers.sizeOfHeaders
      BY <1>1, <2>2
    <3>3. size > 0 => offset >= headers.sizeOfHeaders /\ offset + size <= headers.fileSize
      BY <2>1
    <3> HIDE DEF offset, size, end
    <3>4. b >= end /\ b < headers.fileSize
      BY <3>1, <3>2, <3>3
    <3> QED BY <3>4 DEF end
  <2>4. \A b \in ImageBytes(entries[i]) : b < headers.sizeOfImage
    BY <1>1, <2>1, <2>2 DEF ImageBytes
  <2> QED BY <1>1, <2>1, <2>2, <2>3, <2>4
<1>3. FileBytesApart(headers, entries)
  BY <1>2, AcceptedPair DEF FileBytesApart
<1>4. ImageBytesApart(headers, entries)
  BY <1>2, AcceptedPair DEF ImageBytesApart
<1>5. SectionsCanBeHashed(headers, entries)
  <2>1. PICK i \in DOMAIN entries : entries[i].name = ".text"
    BY DEF Accepted, HasText
  <2>2. \A j \in DOMAIN entries \ {i} : entries[j].name # ".text"
    BY <2>1, AcceptedPair
  <2>3. \A k \in DOMAIN entries : entries[k].rawSize \in Nat /\ entries[k].rawOffset \in Nat
    BY AcceptedSection, SpanIsNat
  <2>4. \A k \in DOMAIN entries :
          entries[k].rawSize > 0 =>
            ~(\/ entries[k].rawOffset > headers.fileSize
              \/ entries[k].rawSize > headers.fileSize - entries[k].rawOffset)
    BY <1>1, <1>2, <2>3
  <2>5. entries[i].rawSize > 0
    BY <1>2, <2>1
  <2> QED BY <2>1, <2>2, <2>4, <2>5 DEF SectionsCanBeHashed
<1> QED BY <1>3, <1>4, <1>5

-----------------------------------------------------------------------------
(* The layout that has been read. *)

\* What has been read comes from versions of the file, and the table was accepted.
LayoutInv ==
  /\ at # "left" => file \in Files
  /\ at \notin {"headers", "failed", "left"} => image.headers \in Headers
  /\ at \notin {"headers", "table", "failed", "left"} =>
       image.table \in Seq(Section) /\ Accepted(image.headers, image.table)
  /\ image \in [headers : Headers \cup {Unset}, table : Seq(Section)]

\* What is read of a table is sections, though the headers may be another version's.
LEMMA TableTyped ==
  ASSUME file \in Files, NEW headers \in Headers
  PROVE  TableRead(headers) \in Seq(Section)
<1> DEFINE n == headers.sectionCount
           table == file.table
<1>1. n \in Nat /\ table \in Seq(Section)
  BY FingerprintAssumption DEF Headers
<1>2. n <= Len(table) => \A i \in 1 .. n : table[i] \in Section
  BY <1>1
<1>3. n <= Len(table) => SubSeq(table, 1, n) \in Seq(Section)
  <2> HIDE DEF n, table
  <2> QED BY <1>1, <1>2, SubSeqProperties
<1> QED BY <1>1, <1>3 DEF TableRead

LEMMA LayoutInit == StartInit => LayoutInv
BY EmptySeq DEF StartInit, FingerprintInit, LayoutInv, Unread

LEMMA LayoutRead ==
  ASSUME LayoutInv, ReadHeaders \/ ReadTable PROVE LayoutInv'
<1>1. CASE ReadHeaders
  <2>1. /\ at = "headers" /\ image' = [image EXCEPT !.headers = file.headers]
        /\ at' \in {"table", "failed"} /\ file' = file /\ file \in Files
    BY <1>1 DEF ReadHeaders, LayoutInv
  <2>2. file.headers \in Headers
    BY <2>1, FingerprintAssumption
  <2> QED BY <2>1, <2>2 DEF LayoutInv
<1>2. CASE ReadTable
  <2>1. /\ at = "table" /\ image' = [image EXCEPT !.table = TableRead(image.headers)]
        /\ at' = IF Accepted(image.headers, image'.table) THEN "file" ELSE "failed"
        /\ file' = file /\ file \in Files /\ image.headers \in Headers
    BY <1>2 DEF ReadTable, LayoutInv
  <2>2. TableRead(image.headers) \in Seq(Section)
    BY <2>1, TableTyped
  <2>3. image'.headers = image.headers /\ image'.table \in Seq(Section)
        /\ image' \in [headers : Headers \cup {Unset}, table : Seq(Section)]
    BY <2>1, <2>2 DEF LayoutInv
  <2> QED BY <2>1, <2>3 DEF LayoutInv
<1> QED BY <1>1, <1>2

LEMMA LayoutCollect == ASSUME LayoutInv, Collect PROVE LayoutInv'
<1>1. CASE ReadHeaders \/ ReadTable
  BY <1>1, LayoutRead
<1>2. CASE HashFile \/ HashSection \/ SectionsHashed \/ ConfirmFile \/ ConfirmHeaders
           \/ ConfirmTable \/ Fail
  <2>1. /\ image' = image /\ file' = file
        /\ at' = "failed" \/ at' = at \/ at \notin {"headers", "table", "failed", "left"}
        /\ at \notin {"left"}
    BY <1>2 DEF HashFile, HashSection, SectionsHashed, ConfirmFile, ConfirmHeaders,
                ConfirmTable, Fail
  <2> QED BY <2>1 DEF LayoutInv
<1>3. CASE Replace
  <2>1. UNCHANGED <<at, image>> /\ file' \in Files
    BY <1>3 DEF Replace
  <2> QED BY <2>1 DEF LayoutInv
<1> QED BY <1>1, <1>2, <1>3 DEF Collect

LEMMA LayoutLeave == ASSUME LayoutInv, Leave PROVE LayoutInv'
BY EmptySeq DEF Leave, Unread, LayoutInv

LEMMA LayoutNext == LayoutInv /\ [Next]_vars => LayoutInv'
<1> SUFFICES ASSUME LayoutInv, [Next]_vars PROVE LayoutInv'
  OBVIOUS
<1>1. CASE Start
  <2>1. CASE Fingerprinting
    BY <2>1, LayoutCollect DEF Fingerprinting
  <2>2. CASE Identified \/ Abandon
    BY <2>2, LayoutLeave DEF Identified, Abandon
  <2>3. CASE UNCHANGED fingerprintVars
    BY <2>3 DEF fingerprintVars, LayoutInv
  <2> QED BY <1>1, <2>1, <2>2, <2>3
        DEF Start, StartSteps, Attach, Load, ConfigureObserver, MakeListener, MakeRuntime,
            Wire, OwnRuntime, Refuse, Install
<1>2. CASE Report \/ Frame \/ QuietFrame \/ Clock \/ UNCHANGED vars
  <2>1. UNCHANGED fingerprintVars
    BY <1>2 DEF Report, Frame, QuietFrame, Captured, Clock, vars, startVars
  <2> QED BY <2>1 DEF fingerprintVars, LayoutInv
<1> QED BY <1>1, <1>2 DEF Next

\* However often the executable is replaced, whatever its versions hold and whatever the
\* word and the limits of the reader are: every section that is hashed is one of an image
\* whose sections are apart, in the file and where they are loaded.
THEOREM HashedSectionsApart == Spec => []SectionsApart
<1>1. LayoutInv => SectionsApart
  BY AcceptedSectionsApart DEF LayoutInv, SectionsApart
<1>2. Init => LayoutInv
  BY LayoutInit DEF Init
<1> QED BY <1>1, <1>2, LayoutNext, PTL DEF Spec

-----------------------------------------------------------------------------
(* The fingerprint of one version.  It is bracketed by the hash of the whole  *)
(* file, taken before the sections and compared after them: where one         *)
(* replacement falls between the two, they differ.  One that falls before     *)
(* leaves a layout that may be of two versions, and is found by the second    *)
(* reading of the layout; one that falls behind them changes nothing.         *)

Hashed == at \in {"sections", "confirmFile", "confirmHeaders", "confirmTable", "done"}

HashedOf(f) == fileHash = f /\ \A i \in DOMAIN sections : sections[i] = Bytes(f, image.table[i])

LayoutOf(f) == image.headers = f.headers /\ image.table = f.table

SectionsInv ==
  /\ confirmed = [headers |-> confirmed.headers, table |-> confirmed.table]
  /\ at \in {"headers", "table", "file"} => sections = <<>>
  /\ Hashed => /\ sections \in Seq(Seq(Nat)) /\ Len(sections) <= Len(image.table)
               /\ at # "sections" => Len(sections) = Len(image.table)

\* Nothing was replaced, and all that has been read is of the file.
Undisturbed ==
  /\ versions = <<file>>
  /\ at # "headers" => image.headers = file.headers
  /\ at \notin {"headers", "table"} => image.table = file.table
  /\ Hashed => HashedOf(file)

\* What is read when another version, old, was at the path before.
Disturbed(old) ==
  Hashed =>
    \/ fileHash = old /\ at \in {"sections", "confirmFile"}
    \/ HashedOf(old) /\ LayoutOf(old) /\ at \in {"confirmHeaders", "confirmTable", "done"}
    \/ /\ HashedOf(file)
       /\ at = "confirmTable" => confirmed.headers = file.headers
       /\ at = "done" => Metadata(image) = Metadata(file) /\ IsImage(file)

VersionInv ==
  at \notin {"failed", "left"} =>
    \/ Undisturbed
    \/ \E old \in Files \ {file} : versions = <<old, file>> /\ Disturbed(old)

Reading == LayoutInv /\ SectionsInv /\ VersionInv

\* A table is read whole with its own headers.
LEMMA TableOfOne ==
  ASSUME file \in Files
  PROVE  TableRead(file.headers) = file.table
<1>1. file.headers.sectionCount = Len(file.table) /\ file.table \in Seq(Section)
  BY FingerprintAssumption
<1> DEFINE table == file.table
<1>2. SubSeq(table, 1, Len(table)) = table
  <2> HIDE DEF table
  <2>1. table \in Seq(Section)
    BY <1>1 DEF table
  <2> QED BY <2>1
<1> QED BY <1>1, <1>2 DEF TableRead

\* What is hashed of a section that lies in the file is a sequence of its bytes.
LEMMA BytesTyped ==
  ASSUME NEW f \in Files, NEW s \in Section, InFile(f, s)
  PROVE  Bytes(f, s) \in Seq(Nat)
<1> DEFINE data == f.data
           offset == s.rawOffset
           size == s.rawSize
<1>1. data \in Seq(Nat) /\ offset \in Nat /\ size \in Nat
  BY FingerprintAssumption, PeImageAssumption DEF Section
<1>2. size > 0 => offset + size <= Len(data)
  BY DEF InFile
<1>3. Bytes(f, s) = SubSeq(data, offset + 1, offset + size)
  BY DEF Bytes
<1> HIDE DEF data, offset, size
<1>4. CASE size > 0
  BY <1>1, <1>2, <1>3, <1>4, SubSeqProperties
<1>5. CASE size = 0
  <2>1. SubSeq(data, offset + 1, offset + size) = <<>>
    BY <1>1, <1>5
  <2> QED BY <1>3, <2>1, EmptySeq
<1> QED BY <1>1, <1>4, <1>5

LEMMA ReadingInit == StartInit => SectionsInv /\ VersionInv
BY DEF StartInit, FingerprintInit, SectionsInv, VersionInv, Undisturbed, Hashed,
      Unread

LEMMA ReadingLayout ==
  ASSUME Reading, ReadHeaders \/ ReadTable
  PROVE  SectionsInv' /\ VersionInv'
<1>1. at \in {"headers", "table"} /\ file \in Files
  BY DEF ReadHeaders, ReadTable, Reading, LayoutInv
<1>2. sections = <<>> /\ UNCHANGED <<file, versions, sections, confirmed>>
      /\ at' \in {"table", "file", "failed"} /\ ~Hashed'
  BY <1>1 DEF Reading, SectionsInv, ReadHeaders, ReadTable, Hashed
<1>3. SectionsInv'
  BY <1>2 DEF Reading, SectionsInv
<1>4. CASE versions = <<file>> /\ Undisturbed
  <2>1. CASE ReadHeaders
    <3>1. at' \in {"table", "failed"} /\ image'.headers = file.headers
      BY <2>1 DEF ReadHeaders, Reading, LayoutInv
    <3> QED BY <1>2, <1>3, <1>4, <3>1 DEF VersionInv, Undisturbed
  <2>2. CASE ReadTable
    <3>1. image.headers = file.headers
      BY <1>4, <2>2 DEF Undisturbed, ReadTable
    <3>2. image' = [image EXCEPT !.table = TableRead(file.headers)]
      BY <2>2, <3>1 DEF ReadTable
    <3>3. image'.headers = file.headers /\ image'.table = file.table
      BY <1>1, <3>1, <3>2, TableOfOne DEF Reading, LayoutInv
    <3> QED BY <1>2, <1>3, <1>4, <3>3 DEF VersionInv, Undisturbed
  <2> QED BY <2>1, <2>2
<1>5. ASSUME NEW old \in Files \ {file}, versions = <<old, file>>
      PROVE  SectionsInv' /\ VersionInv'
  BY <1>2, <1>3, <1>5 DEF VersionInv, Disturbed
<1> QED BY <1>1, <1>4, <1>5 DEF Reading, VersionInv, Undisturbed

LEMMA ReadingHashFile ==
  ASSUME Reading, HashFile
  PROVE  SectionsInv' /\ VersionInv'
<1>1. /\ at = "file" /\ at' = "sections" /\ fileHash' = file /\ sections = <<>> /\ Hashed'
      /\ UNCHANGED <<file, versions, image, sections, confirmed>>
  BY DEF HashFile, Reading, SectionsInv, Hashed
<1>2. image.table \in Seq(Section)
  BY <1>1 DEF Reading, LayoutInv
<1>3. SectionsInv'
  BY <1>1, <1>2, EmptySeq DEF Reading, SectionsInv
<1>4. HashedOf(file)'
  BY <1>1 DEF HashedOf
<1>5. CASE Undisturbed
  BY <1>1, <1>3, <1>4, <1>5 DEF VersionInv, Undisturbed
<1>6. ASSUME NEW old \in Files \ {file}, versions = <<old, file>>
      PROVE  SectionsInv' /\ VersionInv'
  BY <1>1, <1>3, <1>4, <1>6 DEF VersionInv, Disturbed
<1> QED BY <1>1, <1>5, <1>6 DEF Reading, VersionInv

LEMMA ReadingHashSection ==
  ASSUME Reading, HashSection
  PROVE  SectionsInv' /\ VersionInv'
<1> DEFINE table == image.table
           next == NextSection
<1>1. /\ at = "sections" /\ Hashed /\ Hashed' /\ file \in Files
      /\ Len(sections) < Len(table) /\ InFile(file, next)
      /\ sections' = Append(sections, Bytes(file, next))
      /\ UNCHANGED <<file, versions, at, image, fileHash, confirmed>>
  BY DEF HashSection, Hashed, Reading, LayoutInv
<1>2. /\ table \in Seq(Section) /\ sections \in Seq(Seq(Nat))
      /\ next = table[Len(sections) + 1]
  BY <1>1 DEF Reading, LayoutInv, SectionsInv, NextSection
<1>3. next \in Section
  <2> HIDE DEF next, table
  <2> QED BY <1>1, <1>2
<1>4. Bytes(file, next) \in Seq(Nat)
  BY <1>1, <1>3, BytesTyped
<1> DEFINE bytes == Bytes(file, next)
<1>5. /\ sections' \in Seq(Seq(Nat)) /\ Len(sections') = Len(sections) + 1
      /\ \A i \in DOMAIN sections' : sections'[i] = IF i = Len(sections) + 1 THEN bytes ELSE sections[i]
      /\ \A i \in DOMAIN sections' : i # Len(sections) + 1 => i \in DOMAIN sections
  <2> HIDE DEF bytes, next, table
  <2> QED BY <1>1, <1>2, <1>4, AppendProperties DEF bytes
<1>6. SectionsInv'
  <2>1. Len(sections') <= Len(table)
    <3> HIDE DEF table
    <3> QED BY <1>1, <1>2, <1>5
  <2> QED BY <1>1, <1>5, <2>1 DEF Reading, SectionsInv
<1>7. HashedOf(file) => HashedOf(file)'
  <2> SUFFICES ASSUME HashedOf(file), NEW i \in DOMAIN sections'
               PROVE  sections'[i] = Bytes(file, image.table[i])
    BY <1>1 DEF HashedOf
  <2>1. CASE i = Len(sections) + 1
    BY <1>2, <1>5, <2>1
  <2>2. CASE i # Len(sections) + 1
    BY <1>5, <2>2 DEF HashedOf
  <2> QED BY <2>1, <2>2
<1>8. CASE Undisturbed
  BY <1>1, <1>6, <1>7, <1>8 DEF VersionInv, Undisturbed
<1>9. ASSUME NEW old \in Files \ {file}, versions = <<old, file>>, Disturbed(old)
      PROVE  SectionsInv' /\ VersionInv'
  <2>1. Disturbed(old)'
    BY <1>1, <1>7, <1>9 DEF Disturbed
  <2> QED BY <1>1, <1>6, <1>9, <2>1 DEF VersionInv
<1> QED BY <1>1, <1>8, <1>9 DEF Reading, VersionInv

\* The sections are hashed, and the file has still, or no longer, the hash it had.
LEMMA ReadingConfirmFile ==
  ASSUME Reading, SectionsHashed \/ ConfirmFile
  PROVE  SectionsInv' /\ VersionInv'
<1>1. /\ Hashed /\ at \in {"sections", "confirmFile"}
      /\ at' \in {"confirmFile", "confirmHeaders", "failed"}
      /\ UNCHANGED <<file, versions, image, fileHash, sections, confirmed>>
      /\ at' = "confirmFile" => at = "sections"
      /\ at' = "confirmHeaders" => file = fileHash
      /\ Len(sections) = Len(image.table)
  BY DEF SectionsHashed, ConfirmFile, Hashed, Reading, SectionsInv
<1>2. SectionsInv'
  BY <1>1 DEF SectionsInv, Hashed, Reading
<1>3. CASE Undisturbed
  BY <1>1, <1>2, <1>3 DEF VersionInv, Undisturbed, Hashed, HashedOf
<1>4. ASSUME NEW old \in Files \ {file}, versions = <<old, file>>, Disturbed(old)
      PROVE  SectionsInv' /\ VersionInv'
  <2>1. (fileHash = old /\ at' # "confirmHeaders") \/ HashedOf(file)
    BY <1>1, <1>4 DEF Disturbed
  <2>2. HashedOf(file) => HashedOf(file)'
    BY <1>1 DEF HashedOf
  <2>3. at' # "failed" => Disturbed(old)'
    BY <1>1, <2>1, <2>2 DEF Disturbed
  <2> QED BY <1>1, <1>2, <1>4, <2>3 DEF VersionInv
<1> QED BY <1>1, <1>3, <1>4 DEF Reading, VersionInv, Hashed

\* The second reading of the layout.
LEMMA ReadingConfirmLayout ==
  ASSUME Reading, ConfirmHeaders \/ ConfirmTable
  PROVE  SectionsInv' /\ VersionInv'
<1>1. /\ Hashed /\ at \in {"confirmHeaders", "confirmTable"}
      /\ at' \in {"confirmTable", "done", "failed"}
      /\ UNCHANGED <<file, versions, image, fileHash, sections>> /\ file \in Files
  BY DEF ConfirmHeaders, ConfirmTable, Hashed, Reading, LayoutInv
<1>2. SectionsInv'
  <2> DEFINE c == confirmed
  <2>1. c = [headers |-> c.headers, table |-> c.table]
    BY DEF Reading, SectionsInv
  <2>2. PICK h, t : confirmed' = [headers |-> h, table |-> t]
    <3> HIDE DEF c
    <3>1. \A x : /\ [c EXCEPT !.headers = x] = [headers |-> x, table |-> c.table]
                 /\ [c EXCEPT !.table = x] = [headers |-> c.headers, table |-> x]
      BY <2>1
    <3> QED BY <3>1 DEF ConfirmHeaders, ConfirmTable, c
  <2>3. confirmed' = [headers |-> confirmed'.headers, table |-> confirmed'.table]
    BY <2>2
  <2> QED BY <1>1, <2>3 DEF SectionsInv, Hashed, Reading
<1>3. ASSUME NEW f PROVE HashedOf(f) => HashedOf(f)'
  BY <1>1 DEF HashedOf
<1>4. CASE Undisturbed
  BY <1>1, <1>2, <1>3, <1>4 DEF VersionInv, Undisturbed, Hashed
<1>5. ASSUME NEW old \in Files \ {file}, versions = <<old, file>>, Disturbed(old)
      PROVE  SectionsInv' /\ VersionInv'
  <2>1. CASE HashedOf(old) /\ LayoutOf(old)
    <3>1. HashedOf(old)' /\ LayoutOf(old)'
      BY <1>1, <1>3, <2>1 DEF LayoutOf
    <3>2. at' # "failed" => Disturbed(old)'
      BY <1>1, <3>1 DEF Disturbed
    <3> QED BY <1>1, <1>2, <1>5, <3>2 DEF VersionInv
  <2>2. CASE /\ HashedOf(file)
             /\ at = "confirmTable" => confirmed.headers = file.headers
    <3>1. at' = "confirmTable" => confirmed'.headers = file.headers
      BY <1>1 DEF ConfirmHeaders, ConfirmTable, Reading, SectionsInv
    <3>2. at' = "done" => Metadata(image) = Metadata(file) /\ IsImage(file)
      <4> SUFFICES ASSUME at' = "done" PROVE Metadata(image) = Metadata(file) /\ IsImage(file)
        OBVIOUS
      <4>1. /\ confirmed' = [confirmed EXCEPT !.table = TableRead(confirmed.headers)]
            /\ Accepted(confirmed'.headers, confirmed'.table)
            /\ SameImageLayout(image, confirmed') /\ at = "confirmTable"
        BY DEF ConfirmHeaders, ConfirmTable
      <4>2. confirmed'.headers = file.headers /\ confirmed'.table = file.table
        BY <1>1, <2>2, <4>1, TableOfOne DEF Reading, SectionsInv
      <4> QED BY <4>1, <4>2 DEF SameImageLayout, Metadata, IsImage
    <3>3. at' # "failed" => Disturbed(old)'
      BY <1>1, <1>3, <2>2, <3>1, <3>2 DEF Disturbed, IsImage, Metadata
    <3> QED BY <1>1, <1>2, <1>5, <3>3 DEF VersionInv
  <2> QED BY <1>1, <1>5, <2>1, <2>2 DEF Disturbed
<1> QED BY <1>1, <1>4, <1>5 DEF Reading, VersionInv, Hashed

LEMMA AppendToOne ==
  ASSUME NEW S, NEW a \in S, NEW b \in S
  PROVE  Append(<<a>>, b) = <<a, b>>
<1>1. <<a>> \in Seq(S) /\ Len(<<a>>) = 1 /\ <<a, b>> \in Seq(S) /\ Len(<<a, b>>) = 2
  OBVIOUS
<1>2. /\ Append(<<a>>, b) \in Seq(S) /\ Len(Append(<<a>>, b)) = 2
      /\ Append(<<a>>, b)[1] = a /\ Append(<<a>>, b)[2] = b
  BY <1>1, AppendProperties
<1>3. \A i \in 1 .. 2 : Append(<<a>>, b)[i] = <<a, b>>[i]
  BY <1>2
<1> QED BY <1>1, <1>2, <1>3, SeqEqual

LEMMA ReadingReplace ==
  ASSUME MaxChanges <= 1, Reading, Replace
  PROVE  SectionsInv' /\ VersionInv'
<1>1. PICK f \in Files \ {file} : file' = f /\ versions' = Append(versions, f)
  BY DEF Replace
<1>2. /\ at \notin {"done", "failed", "left"} /\ Len(versions) <= MaxChanges /\ file \in Files
      /\ UNCHANGED <<at, image, fileHash, sections, confirmed>>
  BY DEF Replace, Reading, LayoutInv
<1>3. SectionsInv'
  BY <1>2 DEF Reading, SectionsInv, Hashed
<1>4. Undisturbed
  <2>1. ASSUME NEW old \in Files, versions = <<old, file>> PROVE FALSE
    <3>1. Len(<<old, file>>) = 2
      OBVIOUS
    <3> QED BY <1>2, <2>1, <3>1, FingerprintAssumption
  <2> QED BY <1>2, <2>1 DEF Reading, VersionInv
<1>5. PICK old \in Files : old = file
  BY <1>2
<1>6. versions' = <<old, file'>> /\ old \in Files \ {file'}
  <2>1. Append(<<file>>, f) = <<file, f>>
    BY <1>2, AppendToOne
  <2> QED BY <1>1, <1>4, <1>5, <2>1 DEF Undisturbed
<1>7. Disturbed(old)'
  <2>1. Hashed => HashedOf(old) /\ LayoutOf(old)
    BY <1>4, <1>5 DEF Undisturbed, LayoutOf, Hashed
  <2>2. HashedOf(old) /\ LayoutOf(old) => HashedOf(old)' /\ LayoutOf(old)'
    BY <1>2 DEF HashedOf, LayoutOf
  <2> QED BY <1>2, <2>1, <2>2 DEF Disturbed, Hashed, HashedOf
<1> QED BY <1>3, <1>6, <1>7 DEF VersionInv

LEMMA ReadingLeave == ASSUME Reading, Leave PROVE SectionsInv' /\ VersionInv'
BY DEF Leave, Unread, SectionsInv, VersionInv, Hashed

LEMMA ReadingFail == ASSUME Reading, Fail PROVE SectionsInv' /\ VersionInv'
BY DEF Reading, Fail, SectionsInv, VersionInv, Hashed

LEMMA ReadingNext == MaxChanges <= 1 /\ Reading /\ [Next]_vars => Reading'
<1> SUFFICES ASSUME MaxChanges <= 1, Reading, [Next]_vars PROVE SectionsInv' /\ VersionInv'
  BY LayoutNext DEF Reading
<1>1. CASE Start
  <2>1. CASE Fingerprinting
    <3>1. Collect
      BY <2>1 DEF Fingerprinting
    <3> QED BY <3>1, ReadingLayout, ReadingHashFile, ReadingHashSection, ReadingConfirmFile,
               ReadingConfirmLayout, ReadingFail, ReadingReplace DEF Collect
  <2>2. CASE Identified \/ Abandon
    BY <2>2, ReadingLeave DEF Identified, Abandon
  <2>3. CASE UNCHANGED fingerprintVars
    <3> USE <2>3 DEF fingerprintVars
    <3>1. SectionsInv'
      BY DEF Reading, SectionsInv, Hashed
    <3>2. VersionInv'
      BY DEF Reading, VersionInv, Undisturbed, Disturbed, Hashed, HashedOf, LayoutOf
    <3> QED BY <3>1, <3>2
  <2> QED BY <1>1, <2>1, <2>2, <2>3
        DEF Start, StartSteps, Attach, Load, ConfigureObserver, MakeListener, MakeRuntime,
            Wire, OwnRuntime, Refuse, Install
<1>2. CASE Report \/ Frame \/ QuietFrame \/ Clock \/ UNCHANGED vars
  <2>1. UNCHANGED fingerprintVars
    BY <1>2 DEF Report, Frame, QuietFrame, Captured, Clock, vars, startVars
  <2> USE <2>1 DEF fingerprintVars
  <2>2. SectionsInv'
    BY DEF Reading, SectionsInv, Hashed
  <2>3. VersionInv'
    BY DEF Reading, VersionInv, Undisturbed, Disturbed, Hashed, HashedOf, LayoutOf
  <2> QED BY <2>2, <2>3
<1> QED BY <1>1, <1>2 DEF Next

\* What was hashed of a version, with a layout that is the version's, is its fingerprint.
LEMMA WholeFingerprint ==
  ASSUME Reading, at = "done", NEW f \in Files, HashedOf(f), image.table = f.table,
         Metadata(image) = Metadata(f), IsImage(f)
  PROVE  Result = FingerprintOf(f)
<1> DEFINE table == f.table
           Named(i) == table[i].name = ".text"
           text == CHOOSE i \in DOMAIN table : Named(i)
<1>1. /\ sections \in Seq(Seq(Nat)) /\ Len(sections) = Len(image.table)
      /\ table \in Seq(Section)
  BY FingerprintAssumption DEF Reading, SectionsInv, Hashed
<1>2. DOMAIN sections = DOMAIN table
  <2> HIDE DEF table
  <2> QED BY <1>1 DEF table
<1>3. \A i \in DOMAIN table : sections[i] = Bytes(f, table[i])
  BY <1>2 DEF HashedOf
<1>4. sections = [i \in DOMAIN table |-> Bytes(f, table[i])]
  <2> HIDE DEF table
  <2> QED BY <1>1, <1>2, <1>3
<1>5. text \in DOMAIN table
  BY DEF IsImage, Accepted, HasText
<1>6. (CHOOSE i \in DOMAIN sections : image.table[i].name = ".text") = text
  BY <1>2
<1>7. sections[text] = Bytes(f, table[text])
  BY <1>3, <1>5
<1>8. Result = [file |-> f, text |-> Bytes(f, table[text]), metadata |-> Metadata(f),
                sections |-> sections]
  BY <1>6, <1>7 DEF Result, HashedOf
<1>9. FingerprintOf(f) = [file |-> f, text |-> Bytes(f, table[text]), metadata |-> Metadata(f),
                          sections |-> [i \in DOMAIN table |-> Bytes(f, table[i])]]
  BY DEF FingerprintOf
<1> HIDE DEF table, text
<1> QED BY <1>4, <1>8, <1>9

LEMMA OneVersion ==
  ASSUME Reading PROVE FingerprintOfOneVersion
<1> SUFFICES ASSUME at = "done"
             PROVE  \E i \in DOMAIN versions :
                      IsImage(versions[i]) /\ Result = FingerprintOf(versions[i])
  BY DEF FingerprintOfOneVersion
<1>1. file \in Files /\ Accepted(image.headers, image.table) /\ Hashed
  BY DEF Reading, LayoutInv, Hashed
<1>2. CASE Undisturbed
  <2>1. HashedOf(file) /\ LayoutOf(file) /\ versions = <<file>>
    BY <1>1, <1>2 DEF Undisturbed, LayoutOf
  <2>2. IsImage(file) /\ Metadata(image) = Metadata(file) /\ image.table = file.table
    BY <1>1, <2>1 DEF LayoutOf, IsImage, Metadata
  <2>3. Result = FingerprintOf(file)
    BY <1>1, <2>1, <2>2, WholeFingerprint
  <2>4. 1 \in DOMAIN versions /\ versions[1] = file
    BY <2>1
  <2> QED BY <2>2, <2>3, <2>4
<1>3. ASSUME NEW old \in Files \ {file}, versions = <<old, file>>, Disturbed(old)
      PROVE  \E i \in DOMAIN versions :
               IsImage(versions[i]) /\ Result = FingerprintOf(versions[i])
  <2>1. /\ 1 \in DOMAIN versions /\ versions[1] = old
        /\ 2 \in DOMAIN versions /\ versions[2] = file
    BY <1>3
  <2>2. CASE HashedOf(old) /\ LayoutOf(old)
    <3>1. IsImage(old) /\ Metadata(image) = Metadata(old) /\ image.table = old.table
      BY <1>1, <2>2 DEF LayoutOf, IsImage, Metadata
    <3>2. Result = FingerprintOf(old)
      BY <2>2, <3>1, WholeFingerprint
    <3> QED BY <2>1, <3>1, <3>2
  <2>3. CASE HashedOf(file) /\ Metadata(image) = Metadata(file) /\ IsImage(file)
    <3>1. image.table = file.table
      BY <2>3 DEF Metadata
    <3>2. Result = FingerprintOf(file)
      BY <1>1, <2>3, <3>1, WholeFingerprint
    <3> QED BY <2>1, <2>3, <3>2
  <2> QED BY <1>1, <1>3, <2>2, <2>3 DEF Disturbed
<1> QED BY <1>2, <1>3 DEF Reading, VersionInv

\* However the one replacement falls among the steps of the collection, a fingerprint that
\* is returned is that of a version that was at the path, whatever the versions are and
\* however many sections they have.
THEOREM FingerprintIsOfOneVersion ==
  ASSUME MaxChanges <= 1
  PROVE  Spec => []FingerprintOfOneVersion
<1>1. Init => Reading
  BY LayoutInit, ReadingInit DEF Init, Reading
<1>2. Reading /\ [Next]_vars => Reading'
  BY ReadingNext
<1>3. Reading => FingerprintOfOneVersion
  BY OneVersion
<1> QED BY <1>1, <1>2, <1>3, PTL DEF Spec

-----------------------------------------------------------------------------
(* The matching of a fingerprint against any registry.                        *)

\* Every nonempty set of naturals has a least one: n below m makes 0 .. n - 1 a strict subset
\* of 0 .. m - 1.
LEMMA LeastNatural ==
  ASSUME NEW S \in SUBSET Nat, S # {}
  PROVE  \E n \in S : \A m \in S : n <= m
<1> DEFINE Below(n) == 0 .. n - 1
           Belows == {Below(n) : n \in S}
<1>1. Belows \subseteq FiniteSubsetsOf(Nat)
  <2>1. ASSUME NEW n \in S PROVE Below(n) \in SUBSET Nat /\ IsFiniteSet(Below(n))
    <3>1. n - 1 \in Int /\ 0 \in Int
      OBVIOUS
    <3> QED BY <3>1, FS_Interval
  <2> QED BY <2>1 DEF FiniteSubsetsOf
<1>2. PICK low \in Belows : \A other \in Belows : <<other, low>> \notin StrictSubsetOrdering(Nat)
  <2>1. Belows # {}
    OBVIOUS
  <2> QED BY <1>1, <2>1, WFMin, FS_StrictSubsetOrderingWellFounded
<1>3. PICK n \in S : low = Below(n)
  BY <1>2
<1>4. ASSUME NEW m \in S PROVE n <= m
  <2>1. SUFFICES ASSUME m < n PROVE FALSE
    OBVIOUS
  <2>2. Below(m) \subseteq Below(n) /\ m \in Below(n) /\ m \notin Below(m)
    BY <2>1
  <2>3. Below(m) \in SUBSET Nat /\ Below(n) \in SUBSET Nat /\ Below(m) \in Belows
    OBVIOUS
  <2> QED BY <1>2, <1>3, <2>2, <2>3 DEF StrictSubsetOrdering
<1> QED BY <1>4

LEMMA FirstPlace ==
  ASSUME NEW places \in SUBSET Nat, places # {}
  PROVE  FirstOf(places) \in places
<1>1. \E n \in places : \A m \in places : n <= m
  BY LeastNatural
<1> QED BY <1>1 DEF FirstOf

LEMMA ProfileTyped ==
  ASSUME NEW profiles \in Registries, NEW i \in DOMAIN profiles
  PROVE  i \in Nat /\ profiles[i].usable \in BOOLEAN /\ profiles[i].id \in Ids
BY RegistryAssumption

\* What a comparison says, and that an exact one has the highest score.
LEMMA Compared ==
  ASSUME NEW p, NEW fingerprint
  PROVE  /\ Compare(p, fingerprint).kind = "exact" <=> Agrees(p, fingerprint)
         /\ Compare(p, fingerprint).kind = "candidateStructural" <=>
              ~Agrees(p, fingerprint) /\ p.metadata = fingerprint.metadata
         /\ Compare(p, fingerprint).id = p.id
         /\ Compare(p, fingerprint).verification = p.verification
         /\ MatchScore(Compare(p, fingerprint)) \in 0 .. 7
         /\ p.metadata = fingerprint.metadata <=> MatchScore(Compare(p, fingerprint)) >= 4
<1> DEFINE m == Compare(p, fingerprint)
<1>1. /\ m.id = p.id /\ m.verification = p.verification
      /\ m.kind = IF p.file = fingerprint.file /\ p.text = fingerprint.text
                     /\ p.metadata = fingerprint.metadata THEN "exact"
                  ELSE IF p.metadata = fingerprint.metadata THEN "candidateStructural"
                  ELSE "none"
      /\ m.metadata = (p.metadata = fingerprint.metadata)
      /\ m.file = (p.file = fingerprint.file) /\ m.text = (p.text = fingerprint.text)
  BY DEF Compare
<1> HIDE DEF m
<1>2. /\ MatchScore(m) \in 0 .. 7
      /\ p.metadata = fingerprint.metadata <=> MatchScore(m) >= 4
  <2> DEFINE a == IF m.metadata THEN 4 ELSE 0
             b == IF m.file THEN 2 ELSE 0
             c == IF m.text THEN 1 ELSE 0
  <2>1. /\ a = IF p.metadata = fingerprint.metadata THEN 4 ELSE 0
        /\ b \in {0, 2} /\ c \in {0, 1}
    BY <1>1
  <2>2. MatchScore(m) = a + b + c
    BY DEF MatchScore
  <2> HIDE DEF a, b, c
  <2> QED BY <2>1, <2>2
<1>3. /\ m.kind = "exact" <=> Agrees(p, fingerprint)
      /\ m.kind = "candidateStructural" <=>
           ~Agrees(p, fingerprint) /\ p.metadata = fingerprint.metadata
  BY <1>1 DEF Agrees
<1> QED BY <1>1, <1>2, <1>3 DEF m

\* Where any profile agrees in anything there is a best one.
LEMMA BestExists ==
  ASSUME NEW usable \in SUBSET Nat, NEW compared,
         DOMAIN compared = usable, \A i \in usable : MatchScore(compared[i]) \in 0 .. 7,
         NEW some \in usable, MatchScore(compared[some]) > 0
  PROVE  Best(compared) # {} /\ Best(compared) \in SUBSET usable
<1> DEFINE short == {7 - MatchScore(compared[i]) : i \in usable}
<1>1. short \in SUBSET Nat /\ short # {}
  OBVIOUS
<1>2. PICK least \in short : \A n \in short : least <= n
  <2> HIDE DEF short
  <2> QED BY <1>1, LeastNatural
<1>3. PICK i \in usable : least = 7 - MatchScore(compared[i])
  BY <1>2
<1>4. \A j \in usable : MatchScore(compared[j]) <= MatchScore(compared[i])
  <2> TAKE j \in usable
  <2>1. least <= 7 - MatchScore(compared[j])
    BY <1>2
  <2>2. MatchScore(compared[i]) \in 0 .. 7 /\ MatchScore(compared[j]) \in 0 .. 7
    OBVIOUS
  <2> HIDE DEF short
  <2> QED BY <1>3, <2>1, <2>2
<1>5. MatchScore(compared[i]) > 0
  <2>1. MatchScore(compared[some]) <= MatchScore(compared[i])
    BY <1>4
  <2> QED BY <2>1
<1> QED BY <1>4, <1>5 DEF Best

\* An exact match is that of a usable profile that agrees in everything.
LEMMA ExactMatch ==
  ASSUME NEW profiles \in Registries, NEW fingerprint,
         Match(profiles, fingerprint).kind = "exact"
  PROVE  \E i \in DOMAIN profiles :
           /\ profiles[i].usable
           /\ Agrees(profiles[i], fingerprint)
           /\ profiles[i].id = Match(profiles, fingerprint).id
           /\ profiles[i].verification = Match(profiles, fingerprint).verification
<1> DEFINE usable == {i \in DOMAIN profiles : profiles[i].usable}
           compared == [i \in usable |-> Compare(profiles[i], fingerprint)]
           exact == {i \in usable : compared[i].kind = "exact"}
           best == FirstOf(Best(compared))
           found == Match(profiles, fingerprint)
<1>1. usable \in SUBSET Nat /\ exact \in SUBSET Nat
  BY ProfileTyped
<1>2. found = IF exact # {} THEN compared[FirstOf(exact)]
               ELSE IF Best(compared) = {} THEN NoMatch ELSE Reported(compared[best])
  BY DEF Match
<1>3. CASE exact # {}
  <2>1. FirstOf(exact) \in exact
    BY <1>1, <1>3, FirstPlace
  <2>2. found = Compare(profiles[FirstOf(exact)], fingerprint)
    BY <1>2, <1>3, <2>1
  <2> HIDE DEF exact, found
  <2>3. FirstOf(exact) \in usable
    BY <2>1 DEF exact
  <2>4. Agrees(profiles[FirstOf(exact)], fingerprint)
    BY <2>2, Compared DEF found
  <2> QED BY <2>2, <2>3, <2>4, Compared DEF found
<1>4. CASE exact = {} /\ Best(compared) = {}
  <2>1. found.kind = "none"
    <3> HIDE DEF found, exact, compared
    <3> QED BY <1>2, <1>4 DEF NoMatch
  <2> QED BY <2>1
<1>5. CASE exact = {} /\ Best(compared) # {}
  <2>1. Best(compared) \in SUBSET usable
    BY DEF Best
  <2>2. best \in usable
    BY <1>1, <1>5, <2>1, FirstPlace
  <2>3. compared[best].kind # "exact"
    BY <1>5, <2>2
  <2>4. found.kind = compared[best].kind
    <3>1. compared[best] = Compare(profiles[best], fingerprint)
      BY <2>2
    <3>2. Reported(compared[best]).kind = compared[best].kind
      BY <3>1 DEF Reported, Compare
    <3> QED BY <1>2, <1>5, <3>2
  <2> QED BY <2>3, <2>4
<1> QED BY <1>3, <1>4, <1>5

\* For every registry and every fingerprint, exact, structural and no match are told apart
\* by what the registry holds, whatever the order of its profiles and however many agree
\* in part.
THEOREM MatchingAsDocumented ==
  \A profiles \in Registries : \A fingerprint : KindAsDocumented(profiles, fingerprint)
<1> TAKE profiles \in Registries
<1> TAKE fingerprint
<1> DEFINE usable == {i \in DOMAIN profiles : profiles[i].usable}
           compared == [i \in usable |-> Compare(profiles[i], fingerprint)]
           exact == {i \in usable : compared[i].kind = "exact"}
           best == FirstOf(Best(compared))
           kind == Match(profiles, fingerprint).kind
           agrees == \E i \in usable : Agrees(profiles[i], fingerprint)
           structural == \E i \in usable : profiles[i].metadata = fingerprint.metadata
<1>1. usable \in SUBSET Nat /\ exact \in SUBSET Nat
  BY ProfileTyped
<1>2. exact # {} <=> agrees
  <2>1. \A i \in usable : compared[i].kind = "exact" <=> Agrees(profiles[i], fingerprint)
    BY Compared
  <2> QED BY <2>1
<1>3. Match(profiles, fingerprint) =
        IF exact # {} THEN compared[FirstOf(exact)]
        ELSE IF Best(compared) = {} THEN NoMatch ELSE Reported(compared[best])
  BY DEF Match
<1>4. CASE exact # {}
  <2>1. FirstOf(exact) \in exact
    BY <1>1, <1>4, FirstPlace
  <2>2. kind = "exact"
    BY <1>3, <1>4, <2>1
  <2> QED BY <1>2, <1>4, <2>2 DEF KindAsDocumented
<1>5. CASE exact = {}
  <2>1. \A i \in usable : MatchScore(compared[i]) \in 0 .. 7
    BY Compared
  <2>2. CASE Best(compared) = {}
    <3>1. \A i \in usable : ~(MatchScore(compared[i]) > 0)
      <4> SUFFICES ASSUME NEW i \in usable, MatchScore(compared[i]) > 0 PROVE FALSE
        OBVIOUS
      <4>1. DOMAIN compared = usable
        OBVIOUS
      <4> HIDE DEF compared, usable
      <4> QED BY <1>1, <2>1, <2>2, <4>1, BestExists
    <3>2. ~structural
      <4> SUFFICES ASSUME NEW i \in usable, profiles[i].metadata = fingerprint.metadata
                   PROVE  FALSE
        OBVIOUS
      <4>1. MatchScore(compared[i]) >= 4
        BY Compared
      <4>2. MatchScore(compared[i]) \in 0 .. 7 /\ ~(MatchScore(compared[i]) > 0)
        BY <2>1, <3>1
      <4> QED BY <4>1, <4>2
    <3>3. kind = "none"
      BY <1>3, <1>5, <2>2 DEF NoMatch
    <3> QED BY <1>2, <1>5, <3>2, <3>3 DEF KindAsDocumented
  <2>3. CASE Best(compared) # {}
    <3>1. best \in Best(compared) /\ best \in usable
      <4>1. Best(compared) \in SUBSET usable
        BY DEF Best
      <4> QED BY <1>1, <2>3, <4>1, FirstPlace
    <3>2. \A j \in usable : MatchScore(compared[j]) <= MatchScore(compared[best])
      <4>1. DOMAIN compared = usable
        OBVIOUS
      <4> HIDE DEF compared, best, usable
      <4> QED BY <3>1, <4>1 DEF Best
    <3>3. compared[best] = Compare(profiles[best], fingerprint)
      BY <3>1
    <3>4. kind = compared[best].kind
      <4>1. Reported(compared[best]).kind = compared[best].kind
        BY <3>3 DEF Reported, Compare
      <4> QED BY <1>3, <1>5, <2>3, <4>1
    <3>5. kind # "exact"
      BY <1>5, <3>1, <3>4
    <3>6. kind = "candidateStructural" <=> profiles[best].metadata = fingerprint.metadata
      <4>1. ~Agrees(profiles[best], fingerprint)
        BY <1>2, <1>5, <3>1
      <4> QED BY <3>3, <3>4, <4>1, Compared
    <3>7. structural => profiles[best].metadata = fingerprint.metadata
      <4> SUFFICES ASSUME NEW i \in usable, profiles[i].metadata = fingerprint.metadata
                   PROVE  profiles[best].metadata = fingerprint.metadata
        OBVIOUS
      <4>1. MatchScore(compared[i]) >= 4
        BY Compared
      <4>2. MatchScore(compared[i]) <= MatchScore(compared[best])
        BY <3>2
      <4>3. MatchScore(compared[i]) \in 0 .. 7 /\ MatchScore(compared[best]) \in 0 .. 7
        BY <2>1, <3>1
      <4>4. MatchScore(compared[best]) >= 4
        <5> HIDE DEF compared
        <5> QED BY <4>1, <4>2, <4>3
      <4> QED BY <3>3, <4>4, Compared
    <3>8. kind = "candidateStructural" <=> structural
      BY <3>1, <3>6, <3>7
    <3> HIDE DEF kind, best, compared, exact
    <3> QED BY <1>2, <1>5, <3>5, <3>8 DEF KindAsDocumented, kind
  <2> QED BY <2>2, <2>3
<1> QED BY <1>4, <1>5

-----------------------------------------------------------------------------
(* The order of the start. *)

WithController == build.controller /\ settings.enableRadioController

\* The listener is ready, and the process has taken the runtime over.
Wired ==
  /\ integration.listening
  /\ listener.wired <=> WithController
  /\ listener.wired => runtime = "process"
  /\ listener.sink = "gameplay" => settings.enableGameplayAudioExecutor

Early == {"attach", "load", "identify", "configure", "listener"}

\* What each step finds.
StartInv ==
  /\ integration \in [enabled : BOOLEAN, dryRun : BOOLEAN, log : BOOLEAN, listening : BOOLEAN]
  /\ listener \in [recorder : BOOLEAN, sink : Sinks, wired : BOOLEAN, suppress : BOOLEAN]
  /\ settings \in Configurable \cup {Defaults}
  /\ starter \in Early \cup {"controller", "wire"} =>
       ~listener.wired /\ runtime \in {"none", "local"}
  /\ starter \in Early \cup {"controller"} => runtime = "none" /\ listener.sink = "none"
  /\ starter = "controller" => WithController
  /\ starter = "wire" =>
       /\ runtime = "local" <=> WithController
       /\ listener.sink = "gameplay" => settings.enableGameplayAudioExecutor
  /\ starter = "own" =>
       /\ integration.listening /\ listener.wired /\ WithController /\ runtime = "local"
       /\ listener.sink = "gameplay" => settings.enableGameplayAudioExecutor
  /\ starter \in {"install", "report"} => Wired
  /\ observer.status # "unavailable" =>
       Wired /\ observer.listening /\ starter \in {"report", "ended", "abandoned"}

LEMMA StartOrder == Init => StartInv
BY DEF Init, StartInit, StartInv, Early, Sinks

\* The settings, the build and everything that is wired stay what they were.
LEMMA StartQuiet ==
  ASSUME StartInv,
         UNCHANGED <<build, settings, integration, listener, runtime, observer>>,
         \/ starter' \in {"ended", "abandoned"}
         \/ starter' = starter
         \/ starter \in Early /\ starter' \in Early
  PROVE  StartInv'
BY DEF StartInv, Wired, WithController, Early

LEMMA StartBoundary == ASSUME StartInv, Load \/ ConfigureObserver PROVE StartInv'
<1>1. CASE Load
  <2>1. /\ starter = "load" /\ starter' = "identify"
        /\ settings' \in Configurable \cup {Defaults}
        /\ UNCHANGED <<build, integration, listener, runtime, observer>>
    BY <1>1 DEF Load
  <2>2. observer.status = "unavailable"
    BY <2>1 DEF StartInv
  <2> QED BY <2>1, <2>2 DEF StartInv, Early
<1>2. CASE ConfigureObserver
  <2>1. /\ starter = "configure" /\ starter' = "listener"
        /\ UNCHANGED <<build, settings, listener, runtime, observer>>
        /\ integration' = [integration EXCEPT !.enabled = settings.enableGameObserver,
                                              !.dryRun = settings.observerDryRun,
                                              !.log = settings.logStateTransitions]
    BY <1>2 DEF ConfigureObserver
  <2>2. observer.status = "unavailable"
    BY <2>1 DEF StartInv
  <2>3. integration' \in [enabled : BOOLEAN, dryRun : BOOLEAN, log : BOOLEAN,
                          listening : BOOLEAN]
    <3>1. settings \in Settings
      <4>1. Defaults \in Settings
        BY DEF Defaults, Settings
      <4> QED BY <4>1, PluginStartAssumption DEF StartInv
    <3> QED BY <2>1, <3>1 DEF StartInv, Settings
  <2> QED BY <2>1, <2>2, <2>3 DEF StartInv, Early
<1> QED BY <1>1, <1>2

LEMMA StartListener == ASSUME StartInv, MakeListener PROVE StartInv'
<1>1. /\ starter = "listener"
      /\ starter' = IF WithController THEN "controller" ELSE "wire"
      /\ UNCHANGED <<build, settings, integration, runtime, observer>>
  BY DEF MakeListener, WithController
<1>2. /\ observer.status = "unavailable" /\ runtime = "none"
      /\ ~listener.wired /\ listener.sink = "none"
  BY <1>1 DEF StartInv, Early
<1>3. PICK recorder \in BOOLEAN : listener' = [listener EXCEPT !.recorder = recorder]
  <2>1. build \in Build => build.observer \in BOOLEAN
    BY DEF Build
  <2> QED BY DEF MakeListener
<1>4. /\ listener' \in [recorder : BOOLEAN, sink : Sinks, wired : BOOLEAN, suppress : BOOLEAN]
      /\ ~listener'.wired /\ listener'.sink = "none"
  BY <1>2, <1>3 DEF StartInv
<1> QED BY <1>1, <1>2, <1>4 DEF StartInv, Early, WithController

LEMMA StartRuntime == ASSUME StartInv, MakeRuntime PROVE StartInv'
<1>1. /\ starter = "controller" /\ starter' = "wire" /\ runtime' = "local"
      /\ UNCHANGED <<build, settings, integration, observer>>
  BY DEF MakeRuntime
<1>2. observer.status = "unavailable" /\ WithController /\ ~listener.wired
  BY <1>1 DEF StartInv, Early
<1>3. PICK gameplay \in BOOLEAN, suppress \in BOOLEAN :
        /\ gameplay => settings.enableGameplayAudioExecutor
        /\ listener' = [listener EXCEPT !.sink = IF gameplay THEN "gameplay" ELSE "dryRun",
                                        !.suppress = suppress]
  BY DEF MakeRuntime
<1>4. /\ listener' \in [recorder : BOOLEAN, sink : Sinks, wired : BOOLEAN, suppress : BOOLEAN]
      /\ ~listener'.wired
      /\ listener'.sink = "gameplay" => settings.enableGameplayAudioExecutor
  BY <1>2, <1>3 DEF StartInv, Sinks
<1> QED BY <1>1, <1>2, <1>4 DEF StartInv, Early, WithController

LEMMA StartWire == ASSUME StartInv, Wire \/ OwnRuntime PROVE StartInv'
<1>1. CASE Wire
  <2>1. /\ starter = "wire" /\ starter' = IF runtime = "local" THEN "own" ELSE "install"
        /\ listener' = [listener EXCEPT !.wired = (runtime = "local")]
        /\ integration' = [integration EXCEPT !.listening = TRUE]
        /\ UNCHANGED <<build, settings, runtime>>
        /\ observer'.status = observer.status
    BY <1>1 DEF Wire
  <2>2. /\ observer.status = "unavailable" /\ (runtime = "local" <=> WithController)
        /\ listener.sink = "gameplay" => settings.enableGameplayAudioExecutor
    BY <2>1 DEF StartInv, Early
  <2>3. /\ listener' \in [recorder : BOOLEAN, sink : Sinks, wired : BOOLEAN,
                           suppress : BOOLEAN]
        /\ listener'.wired = (runtime = "local") /\ listener'.sink = listener.sink
    BY <2>1 DEF StartInv
  <2>4. /\ integration' \in [enabled : BOOLEAN, dryRun : BOOLEAN, log : BOOLEAN,
                              listening : BOOLEAN]
        /\ integration'.listening
    BY <2>1 DEF StartInv
  <2> QED BY <2>1, <2>2, <2>3, <2>4 DEF StartInv, Early, Wired, WithController
<1>2. CASE OwnRuntime
  <2>1. /\ starter = "own" /\ starter' = "install" /\ runtime' = "process"
        /\ UNCHANGED <<build, settings, integration, listener, observer>>
    BY <1>2 DEF OwnRuntime
  <2> QED BY <2>1 DEF StartInv, Early, Wired, WithController
<1> QED BY <1>1, <1>2

LEMMA StartInstall == ASSUME StartInv, Refuse \/ Install PROVE StartInv'
<1>1. /\ starter = "install" /\ starter' = "report" /\ Wired
      /\ UNCHANGED <<build, settings, integration, listener, runtime>>
  BY DEF Refuse, Install, StartInv
<1>2. observer'.listening \/ observer' = observer
  BY <1>1 DEF Refuse, Install, Started, Wired
<1> QED BY <1>1, <1>2 DEF StartInv, Early, Wired, WithController

LEMMA StartNext == StartInv /\ [Next]_vars => StartInv'
<1> SUFFICES ASSUME StartInv, [Next]_vars PROVE StartInv'
  OBVIOUS
<1>1. CASE Start
  <2>1. CASE Attach \/ Fingerprinting \/ Identified
    <3>1. UNCHANGED <<build, settings, integration, listener, runtime, observer>>
      BY <2>1 DEF Attach, Fingerprinting, Identified
    <3>2. starter' = "ended" \/ starter' = starter \/ (starter \in Early /\ starter' \in Early)
      BY <2>1 DEF Attach, Fingerprinting, Identified, Early
    <3> QED BY <3>1, <3>2, StartQuiet
  <2>2. CASE Abandon
    <3>1. /\ starter' = "abandoned" /\ starter \notin {"attach", "ended", "abandoned"}
          /\ runtime' = IF runtime = "local" THEN "destroyed" ELSE runtime
          /\ UNCHANGED <<build, settings, integration, listener, observer>>
      BY <2>2 DEF Abandon
    <3>2. observer.status # "unavailable" => starter = "report" /\ Wired
      BY <3>1 DEF StartInv
    <3> QED BY <3>1, <3>2 DEF StartInv, Early, Wired, WithController
  <2> QED BY <1>1, <2>1, <2>2, StartBoundary, StartListener, StartRuntime, StartWire,
             StartInstall DEF Start, StartSteps
<1>2. CASE Report
  <2>1. /\ starter' \in {"ended", "report"} /\ starter = "report"
        /\ UNCHANGED <<build, settings, integration, listener, runtime, observer>>
    BY <1>2 DEF Report
  <2> QED BY <2>1, StartQuiet
<1>3. CASE Frame \/ QuietFrame \/ Clock \/ UNCHANGED vars
  <2>1. UNCHANGED <<build, settings, integration, listener, runtime, observer, starter>>
    BY <1>3 DEF Frame, QuietFrame, Captured, Clock, vars, startVars
  <2> QED BY <2>1, StartQuiet
<1> QED BY <1>1, <1>2, <1>3 DEF Next

\* In any build, with any settings and profiles, whichever step of the start fails: from
\* its first frame an installed observer finds the listener, in it the controller that
\* the settings ask for, and the controller alive.
THEOREM FirstFrameFindsEverything == Spec => []FramesFindEverythingWired
<1>1. StartInv => FramesFindEverythingWired
  BY DEF StartInv, FramesFindEverythingWired, Wired, WithController
<1> QED BY <1>1, StartOrder, StartNext, PTL DEF Spec

-----------------------------------------------------------------------------
(* Nothing of the game is touched but as documented.                          *)

\* The settings reach the integration, and nothing is recorded or observed before its step.
TouchInv ==
  /\ observer.created => starter \in {"report", "ended", "abandoned"}
  /\ starter \in {"listener", "controller", "wire", "own", "install"} =>
       /\ integration.enabled = settings.enableGameObserver
       /\ integration.dryRun = settings.observerDryRun
  /\ starter \in Early => listener.recorder = FALSE
  /\ registry \in Registries

LEMMA TouchInit == Init => TouchInv
BY DEF Init, StartInit, TouchInv, Early

LEMMA TouchConfigure == ASSUME StartInv, TouchInv, ConfigureObserver \/ Wire PROVE TouchInv'
<1>1. CASE ConfigureObserver
  <2>1. /\ starter = "configure" /\ starter' = "listener"
        /\ UNCHANGED <<settings, listener, observer, registry>>
        /\ integration' = [integration EXCEPT !.enabled = settings.enableGameObserver,
                                              !.dryRun = settings.observerDryRun,
                                              !.log = settings.logStateTransitions]
    BY <1>1 DEF ConfigureObserver
  <2>2. /\ integration'.enabled = settings.enableGameObserver
        /\ integration'.dryRun = settings.observerDryRun
    BY <2>1 DEF StartInv
  <2> QED BY <2>1, <2>2 DEF TouchInv, Early
<1>2. CASE Wire
  <2>1. /\ starter = "wire" /\ starter' \in {"own", "install"}
        /\ integration' = [integration EXCEPT !.listening = TRUE]
        /\ UNCHANGED <<settings, registry>>
        /\ ~observer.created => observer' = observer
    BY <1>2 DEF Wire
  <2>2. integration'.enabled = integration.enabled /\ integration'.dryRun = integration.dryRun
    BY <2>1 DEF StartInv
  <2> QED BY <2>1, <2>2 DEF TouchInv, Early
<1> QED BY <1>1, <1>2

LEMMA TouchNext == StartInv /\ TouchInv /\ [Next]_vars => TouchInv'
<1> SUFFICES ASSUME StartInv, TouchInv, [Next]_vars PROVE TouchInv'
  OBVIOUS
<1>1. CASE Start
  <2>1. CASE Attach \/ Fingerprinting \/ Identified
    <3>1. /\ UNCHANGED <<settings, registry, integration, listener, observer>>
          /\ starter \in Early /\ starter' \in {"load", "ended", "identify", "configure"}
      BY <2>1 DEF Attach, Fingerprinting, Identified, Early
    <3> QED BY <3>1 DEF TouchInv, Early
  <2>2. CASE Load
    <3>1. /\ UNCHANGED <<registry, integration, listener, observer>>
          /\ starter = "load" /\ starter' = "identify"
      BY <2>2 DEF Load
    <3> QED BY <3>1 DEF TouchInv, Early
  <2>3. CASE MakeListener \/ MakeRuntime \/ OwnRuntime
    <3>1. /\ UNCHANGED <<registry, integration, settings, observer>>
          /\ starter \in {"listener", "controller", "own"}
          /\ starter' \in {"controller", "wire", "install"}
      BY <2>3 DEF MakeListener, MakeRuntime, OwnRuntime
    <3> QED BY <3>1 DEF TouchInv, Early
  <2>4. CASE Refuse \/ Install \/ Abandon
    <3>1. /\ UNCHANGED <<registry, integration, settings, listener>>
          /\ starter' \in {"report", "abandoned"}
      BY <2>4 DEF Refuse, Install, Abandon
    <3> QED BY <3>1 DEF TouchInv, Early
  <2> QED BY <1>1, <2>1, <2>2, <2>3, <2>4, TouchConfigure DEF Start, StartSteps
<1>2. CASE Report
  <2>1. /\ UNCHANGED <<registry, integration, settings, listener, observer>>
        /\ starter' \in {"report", "ended"} /\ starter = "report"
    BY <1>2 DEF Report
  <2> QED BY <2>1 DEF TouchInv, Early
<1>3. CASE Frame \/ QuietFrame \/ Clock \/ UNCHANGED vars
  <2>1. UNCHANGED <<registry, integration, settings, listener, observer, starter>>
    BY <1>3 DEF Frame, QuietFrame, Captured, Clock, vars, startVars
  <2> QED BY <2>1 DEF TouchInv
<1> QED BY <1>1, <1>2, <1>3 DEF Next

\* A match that becomes exact is that of a usable profile with a version of the file.
DetectedAsDocumented ==
  match'.kind = "exact" /\ match.kind # "exact" =>
    \E i \in DOMAIN registry, j \in DOMAIN versions :
      /\ registry[i].usable
      /\ registry[i].id = match'.id
      /\ registry[i].verification = match'.verification
      /\ IsImage(versions[j])
      /\ Agrees(registry[i], FingerprintOf(versions[j]))

LEMMA DetectedSteps ==
  ASSUME Reading, TouchInv, Identified PROVE DetectedAsDocumented
<1> SUFFICES ASSUME match'.kind = "exact"
             PROVE  \E i \in DOMAIN registry, j \in DOMAIN versions :
                      /\ registry[i].usable
                      /\ registry[i].id = match'.id
                      /\ registry[i].verification = match'.verification
                      /\ IsImage(versions[j])
                      /\ Agrees(registry[i], FingerprintOf(versions[j]))
  BY DEF DetectedAsDocumented
<1>1. at = "done" /\ match' = Match(registry, Result) /\ registry \in Registries
  BY DEF Identified, NoMatch, TouchInv
<1>2. PICK i \in DOMAIN registry :
        /\ registry[i].usable /\ Agrees(registry[i], Result)
        /\ registry[i].id = match'.id /\ registry[i].verification = match'.verification
  BY <1>1, ExactMatch
<1>3. PICK j \in DOMAIN versions : IsImage(versions[j]) /\ Result = FingerprintOf(versions[j])
  BY <1>1, OneVersion DEF FingerprintOfOneVersion
<1> QED BY <1>2, <1>3

\* The observer comes with a match that has addresses, and reads the game as it was told.
ObservedAsDocumented ==
  observer' # observer =>
    /\ match.kind = "exact"
    /\ match.id \in AddressIds
    /\ match.verification # "candidate"
    /\ observer'.status = "installed" =>
         settings.enableGameObserver /\ ~settings.observerDryRun

LEMMA ObservedSteps ==
  ASSUME StartInv, TouchInv, Install \/ Wire PROVE ObservedAsDocumented
<1>1. CASE Wire
  <2>1. starter = "wire" /\ (~observer.created => observer' = observer)
    BY <1>1 DEF Wire
  <2> QED BY <2>1 DEF TouchInv, ObservedAsDocumented
<1>2. CASE Install
  <2>1. match.kind = "exact" /\ match.id \in AddressIds /\ match.verification # "candidate"
    BY <1>2 DEF Install, InstallRefused, HasAddresses, MeetsMinimumVerification
  <2>2. observer'.status = "installed" => ~integration.dryRun /\ integration.enabled
    BY <1>2 DEF Install, Started
  <2>3. integration.enabled = settings.enableGameObserver
        /\ integration.dryRun = settings.observerDryRun
    BY <1>2 DEF Install, TouchInv
  <2> QED BY <2>1, <2>2, <2>3 DEF ObservedAsDocumented
<1> QED BY <1>1, <1>2

RecordedAsDocumented ==
  listener'.recorder # listener.recorder =>
    match.kind = "exact" /\ settings.enableRecorder /\ settings.enableGameObserver

LEMMA RecordedSteps ==
  ASSUME StartInv, TouchInv, MakeListener \/ MakeRuntime \/ Wire PROVE RecordedAsDocumented
<1>1. CASE MakeListener
  <2> DEFINE recorder == /\ build.observer
                         /\ settings.enableRecorder
                         /\ settings.enableGameObserver /\ ~settings.observerDryRun
                         /\ DetectedExecutableProfile # "unsupported"
  <2>1. listener' = [listener EXCEPT !.recorder = recorder] /\ starter = "listener"
    BY <1>1 DEF MakeListener
  <2>2. listener.recorder = FALSE
    BY <2>1 DEF TouchInv, Early
  <2>3. listener'.recorder = recorder
    <3> HIDE DEF recorder
    <3> QED BY <2>1 DEF StartInv
  <2>4. recorder => match.kind = "exact"
    BY DEF DetectedExecutableProfile
  <2> QED BY <2>2, <2>3, <2>4 DEF RecordedAsDocumented
<1>2. CASE MakeRuntime
  <2>1. PICK sink, suppress : listener' = [listener EXCEPT !.sink = sink, !.suppress = suppress]
    BY <1>2 DEF MakeRuntime
  <2> QED BY <2>1 DEF StartInv, RecordedAsDocumented
<1>3. CASE Wire
  <2>1. listener' = [listener EXCEPT !.wired = (runtime = "local")]
    BY <1>3 DEF Wire
  <2> QED BY <2>1 DEF StartInv, RecordedAsDocumented
<1> QED BY <1>1, <1>2, <1>3

LEMMA TouchedStep ==
  ASSUME StartInv, TouchInv, Reading, [Next]_vars
  PROVE  DetectedAsDocumented /\ ObservedAsDocumented /\ RecordedAsDocumented
<1>1. Identified \/ match' = match
  BY DEF Next, Start, StartSteps, Attach, Load, Fingerprinting, ConfigureObserver, MakeListener,
         MakeRuntime, Wire, OwnRuntime, Refuse, Install, Abandon, Report, Frame, QuietFrame,
         Captured, Clock, vars, startVars
<1>2. Install \/ Wire \/ observer' = observer
  BY DEF Next, Start, StartSteps, Attach, Load, Fingerprinting, Identified, ConfigureObserver,
         MakeListener, MakeRuntime, OwnRuntime, Refuse, Abandon, Report, Frame, QuietFrame,
         Captured, Clock, vars, startVars
<1>3. MakeListener \/ MakeRuntime \/ Wire \/ listener' = listener
  BY DEF Next, Start, StartSteps, Attach, Load, Fingerprinting, Identified, ConfigureObserver,
         OwnRuntime, Refuse, Install, Abandon, Report, Frame, QuietFrame,
         Captured, Clock, vars, startVars
<1>4. DetectedAsDocumented
  BY <1>1, DetectedSteps DEF DetectedAsDocumented
<1>5. ObservedAsDocumented
  BY <1>2, ObservedSteps DEF ObservedAsDocumented
<1>6. RecordedAsDocumented
  BY <1>3, RecordedSteps DEF RecordedAsDocumented
<1> QED BY <1>4, <1>5, <1>6

\* With any build, any settings, any registry and any versions of the file, one replaced by
\* another whenever it likes: a profile is detected only where a usable one agrees in every
\* field with one version, and the game is observed, or its radio values recorded, only over
\* such a detection, with addresses that have been reproduced, and as the settings ask.
THEOREM TouchedAsDocumented ==
  ASSUME MaxChanges <= 1
  PROVE  Spec => TouchedOnlyAsDocumented
<1> DEFINE All == StartInv /\ TouchInv /\ Reading
<1>1. Init => All
  BY StartOrder, TouchInit, LayoutInit, ReadingInit DEF Init, Reading
<1>2. All /\ [Next]_vars => All'
  BY StartNext, TouchNext, ReadingNext
<1>3. All /\ [Next]_vars =>
        [DetectedAsDocumented /\ ObservedAsDocumented /\ RecordedAsDocumented]_startVars
  BY TouchedStep
<1> HIDE DEF All
<1> QED BY <1>1, <1>2, <1>3, PTL DEF Spec, TouchedOnlyAsDocumented, DetectedAsDocumented,
           ObservedAsDocumented, RecordedAsDocumented

-----------------------------------------------------------------------------
(* What the frames write.                                                     *)

\* The sink between two frames: its age and the time since its last message are one, and
\* what waits is not what was said last.
LogTyped(log) ==
  log = [last |-> log.last, pending |-> log.pending, age |-> log.age, count |-> log.count,
         quiet |-> log.quiet]

LogKept(log) ==
  /\ LogTyped(log)
  /\ log.age \in Nat /\ log.quiet = log.age
  /\ log.count \in Nat
  /\ log.pending # None => log.last # None /\ log.pending # log.last

LogInv == LogKept(decisions) /\ transitions.count \in Nat /\ logFile \in Nat

\* One message, within the budget, unlike the last one and no sooner than it may come.
LogsOnce(log, next) ==
  \/ next.count = log.count
  \/ /\ next.count = log.count + 1
     /\ next.count <= MaximumDecisionLogMessages
     /\ next.last # log.last
     /\ log.last # None => log.quiet >= MinimumLogInterval

LEMMA PlanLogged ==
  ASSUME NEW log, LogKept(log), NEW transition, log.count < MaximumDecisionLogMessages,
         transition # log.last
  PROVE  /\ LogTyped(LogPlan(log, transition)) /\ LogPlan(log, transition).last = transition
         /\ LogPlan(log, transition).pending = log.pending
         /\ LogPlan(log, transition).age = 0 /\ LogPlan(log, transition).quiet = 0
         /\ LogPlan(log, transition).count = log.count + 1
<1>1. ~(log.count >= MaximumDecisionLogMessages)
  BY DecisionLogAssumption DEF LogKept
<1>2. LogPlan(log, transition) =
        [log EXCEPT !.last = transition, !.age = 0, !.count = @ + 1, !.quiet = 0]
  BY <1>1 DEF LogPlan
<1>3. log = [last |-> log.last, pending |-> log.pending, age |-> log.age, count |-> log.count,
             quiet |-> log.quiet]
  BY DEF LogKept, LogTyped
<1>4. LogPlan(log, transition) =
        [last |-> transition, pending |-> log.pending, age |-> 0, count |-> log.count + 1,
         quiet |-> 0]
  BY <1>2, <1>3
<1> QED BY <1>4 DEF LogTyped

\* The pending plan: it is logged where its time has come, or waits on.
LEMMA Flushed ==
  ASSUME NEW log, LogKept(log), log.count < MaximumDecisionLogMessages
  PROVE  /\ LogKept(FlushPending(log))
         /\ \/ FlushPending(log) = log /\ (log.pending = None \/ log.age < MinimumLogInterval)
            \/ /\ FlushPending(log).count = log.count + 1
               /\ FlushPending(log).last # log.last
               /\ FlushPending(log).age = 0 /\ FlushPending(log).last # None
               /\ log.quiet >= MinimumLogInterval
<1>1. log.age \in Nat /\ log.quiet = log.age /\ MinimumLogInterval \in Nat
  BY DecisionLogAssumption DEF LogKept
<1>2. CASE log.pending # None /\ log.age >= MinimumLogInterval
  <2> DEFINE logged == LogPlan(log, log.pending)
  <2>1. log.pending # log.last
    BY <1>2 DEF LogKept
  <2>2. /\ LogTyped(logged) /\ logged.last = log.pending /\ logged.count = log.count + 1
        /\ logged.age = 0 /\ logged.quiet = 0
    BY <2>1, PlanLogged
  <2>3. FlushPending(log) = [logged EXCEPT !.pending = None]
    BY <1>2 DEF FlushPending
  <2> HIDE DEF logged
  <2>4. FlushPending(log) =
          [last |-> log.pending, pending |-> None, age |-> 0, count |-> log.count + 1, quiet |-> 0]
    BY <2>2, <2>3 DEF LogTyped
  <2>5. log.count + 1 \in Nat
    BY DEF LogKept
  <2>6. LogKept(FlushPending(log))
    BY <2>4, <2>5 DEF LogKept, LogTyped
  <2> QED BY <1>1, <1>2, <2>1, <2>4, <2>6
<1>3. CASE ~(log.pending # None /\ log.age >= MinimumLogInterval)
  BY <1>1, <1>3 DEF FlushPending
<1> QED BY <1>2, <1>3

\* Whatever the plan is: the sink stays in order, and says at most one thing.
LEMMA Considered ==
  ASSUME NEW log, LogKept(log), NEW plan
  PROVE  LogKept(ConsiderLogging(log, plan)) /\ LogsOnce(log, ConsiderLogging(log, plan))
<1> DEFINE flushed == FlushPending(log)
           transition == Transition(plan)
           next == ConsiderLogging(log, plan)
<1>1. log.count \in Nat /\ MaximumDecisionLogMessages \in Nat /\ MinimumLogInterval \in Nat \ {0}
  BY DecisionLogAssumption DEF LogKept
<1>2. CASE log.count >= MaximumDecisionLogMessages
  BY <1>2 DEF ConsiderLogging, LogsOnce
<1>3. CASE log.count < MaximumDecisionLogMessages
  <2>1. /\ LogKept(flushed)
        /\ \/ flushed = log /\ (log.pending = None \/ log.age < MinimumLogInterval)
           \/ /\ flushed.count = log.count + 1 /\ flushed.last # log.last /\ flushed.age = 0
              /\ flushed.last # None /\ log.quiet >= MinimumLogInterval
    BY <1>3, Flushed
  <2>2. LogsOnce(log, flushed)
    BY <1>1, <1>3, <2>1 DEF LogsOnce
  <2>3. next = IF plan.action = "none" \/ transition = flushed.last THEN flushed
               ELSE IF flushed.last # None /\ flushed.age < MinimumLogInterval
                 THEN [flushed EXCEPT !.pending = transition]
               ELSE LogPlan(flushed, transition)
    BY <1>1, <1>3 DEF ConsiderLogging
  <2> HIDE DEF flushed, transition, next
  <2>4. CASE plan.action = "none" \/ transition = flushed.last
    BY <2>1, <2>2, <2>3, <2>4 DEF next
  <2>5. CASE /\ transition # flushed.last
             /\ flushed.last # None /\ flushed.age < MinimumLogInterval
             /\ next = [flushed EXCEPT !.pending = transition]
    <3>1. next = [last |-> flushed.last, pending |-> transition, age |-> flushed.age,
                  count |-> flushed.count, quiet |-> flushed.quiet]
      BY <2>1, <2>5 DEF LogKept, LogTyped
    <3>2. LogKept(next)
      BY <2>1, <2>5, <3>1 DEF LogKept, LogTyped
    <3>3. LogsOnce(log, next)
      BY <2>2, <3>1 DEF LogsOnce
    <3> QED BY <3>2, <3>3 DEF next
  <2>6. CASE /\ transition # flushed.last
             /\ ~(flushed.last # None /\ flushed.age < MinimumLogInterval)
             /\ next = LogPlan(flushed, transition)
    <3>1. flushed = log /\ log.age \in Nat
      BY <1>1, <2>1, <2>6 DEF LogKept
    <3>2. log.pending = None
      BY <2>1, <2>6, <3>1, <1>1 DEF LogKept
    <3>3. /\ LogTyped(next) /\ next.last = transition /\ next.pending = log.pending
          /\ next.age = 0 /\ next.quiet = 0 /\ next.count = log.count + 1
      BY <1>3, <2>6, <3>1, PlanLogged
    <3>4. LogKept(next)
      BY <1>1, <3>2, <3>3 DEF LogKept
    <3>5. log.last # None => log.quiet >= MinimumLogInterval
      BY <1>1, <2>6, <3>1 DEF LogKept
    <3>6. LogsOnce(log, next)
      BY <1>1, <1>3, <2>6, <3>1, <3>3, <3>5 DEF LogsOnce
    <3> QED BY <3>4, <3>6 DEF next
  <2> QED BY <2>3, <2>4, <2>5, <2>6
<1> QED BY <1>1, <1>2, <1>3

\* A tracker counts what it says, and says so many things.
LEMMA Tracked ==
  ASSUME NEW tracker, tracker.count \in Nat, NEW snapshot
  PROVE  Track(tracker, snapshot).count \in Nat
         /\ Track(tracker, snapshot).count >= tracker.count
<1> DEFINE messages == Messages(tracker, snapshot)
<1>1. messages \in SUBSET (DOMAIN Fields)
  BY DEF Messages, Cut, ChangedFields
<1>2. DOMAIN Fields = 1 .. 5
  BY DEF Fields
<1>3. Cardinality(messages) \in Nat
  <2> HIDE DEF messages
  <2>1. messages \in SUBSET Nat /\ \A m \in messages : m <= 5
    BY <1>1, <1>2
  <2>2. IsFiniteSet(messages)
    BY <2>1, FS_BoundedSetOfNaturals
  <2> QED BY <2>2, FS_CardinalityType
<1>4. \/ Track(tracker, snapshot) = tracker
      \/ Track(tracker, snapshot).count = tracker.count + Cardinality(messages)
  BY DEF Track
<1> HIDE DEF messages
<1> QED BY <1>3, <1>4

\* Lines leave the file where it is, or grow it no further past the limit than by a prefix.
LEMMA LinesWritten ==
  ASSUME NEW size \in Nat, NEW count \in Nat
  PROVE  /\ AfterLines(size, count) \in Nat
         /\ AfterLines(size, count) > size =>
              AfterLines(size, count) <= MaximumLogBytes + PrefixBytes
<1> DEFINE Stops(n) == n = count \/ Refused(size + n * LineBytes)
           stops == {n \in 0 .. count : Stops(n)}
           written == CHOOSE n \in 0 .. count : Stops(n) /\ \A m \in 0 .. n - 1 : ~Stops(m)
           before == size + (written - 1) * LineBytes
<1>1. stops \in SUBSET Nat /\ stops # {}
  <2>1. count \in stops
    OBVIOUS
  <2> QED BY <2>1
<1>2. PICK first \in stops : \A n \in stops : first <= n
  <2> HIDE DEF stops
  <2> QED BY <1>1, LeastNatural
<1>3. \A m \in 0 .. first - 1 : ~Stops(m)
  <2> SUFFICES ASSUME NEW m \in 0 .. first - 1, Stops(m) PROVE FALSE
    OBVIOUS
  <2>1. m \in stops
    BY <1>2
  <2>2. first <= m /\ first \in Nat
    BY <1>1, <1>2, <2>1
  <2> QED BY <2>2
<1>4. written \in 0 .. count /\ \A m \in 0 .. written - 1 : ~Stops(m)
  <2> HIDE DEF Stops
  <2> QED BY <1>2, <1>3
<1>5. AfterLines(size, count) = size + written * LineBytes
  BY DEF AfterLines
<1>6. LineBytes \in Nat /\ LineBytes = PrefixBytes + MessageBytes
  BY LoggerAssumption DEF LineBytes
<1> HIDE DEF written
<1>7. CASE written = 0
  <2>1. written * LineBytes = 0
    BY <1>6, <1>7
  <2> QED BY <1>5, <2>1
<1>8. CASE written > 0
  <2>1. written - 1 \in 0 .. written - 1 /\ written - 1 \in Nat
    BY <1>4, <1>8
  <2>2. ~Refused(before)
    BY <1>4, <2>1
  <2>3. (written - 1) * LineBytes \in Nat
    BY <1>6, <2>1
  <2>4. before \in Nat
    BY <2>3
  <2>5. written * LineBytes = (written - 1) * LineBytes + LineBytes
    BY <1>4, <1>6
  <2>6. AfterLines(size, count) = before + LineBytes
    BY <1>5, <1>6, <2>3, <2>5
  <2> HIDE DEF before
  <2>7. before < MaximumLogBytes /\ MessageBytes <= MaximumLogBytes - before
    <3> DEFINE rest == MaximumLogBytes - before
    <3>1. ~(before >= MaximumLogBytes) /\ ~(MessageBytes > rest % LogWord)
      BY <2>2 DEF Refused
    <3>2. before < MaximumLogBytes
      BY <2>4, <3>1, LoggerAssumption
    <3>3. rest \in Nat /\ rest < LogWord
      BY <2>4, <3>2, LoggerAssumption
    <3> HIDE DEF rest
    <3>4. rest % LogWord = rest
      BY <3>3, LoggerAssumption
    <3>5. MessageBytes <= rest
      BY <3>1, <3>3, <3>4, LoggerAssumption
    <3> QED BY <3>2, <3>5 DEF rest
  <2> QED BY <1>6, <2>4, <2>6, <2>7, LoggerAssumption
<1> QED BY <1>4, <1>7, <1>8

LEMMA WriteStep ==
  ASSUME logFile \in Nat, NEW lines \in Nat, NEW logging, Write(lines, logging)
  PROVE  logFile' \in Nat /\ (logFile' > logFile => logFile' <= MaximumLogBytes + PrefixBytes)
<1>1. logFile' = logFile \/ logFile' = AfterLines(logFile, lines)
  BY DEF Write
<1>2. CASE logFile' = logFile
  BY <1>2
<1>3. CASE logFile' = AfterLines(logFile, lines)
  BY <1>3, LinesWritten
<1> QED BY <1>1, <1>2, <1>3

LogsStep ==
  /\ LogsOnce(decisions, decisions')
  /\ logFile' > logFile => logFile' <= MaximumLogBytes + PrefixBytes

LEMMA CapturedLogs ==
  ASSUME LogInv, NEW snapshot, Captured(snapshot)
  PROVE  LogInv' /\ LogsStep
<1>1. LogKept(decisions') /\ LogsOnce(decisions, decisions')
  <2>1. decisions' = decisions \/ \E plan : decisions' = ConsiderLogging(decisions, plan)
    BY DEF Captured, Simulate
  <2> QED BY <2>1, Considered DEF LogInv, LogsOnce
<1>2. transitions'.count \in Nat /\ transitions'.count >= transitions.count
  BY Tracked DEF Captured, LogTransitions, LogInv
<1>3. decisions'.count - decisions.count \in Nat
  BY <1>1 DEF LogsOnce, LogInv, LogKept
<1>4. FrameLines \in Nat
  BY <1>2, <1>3 DEF FrameLines, LogInv, LogKept
<1>5. PICK observed \in {0, 1} : Write(observed + FrameLines, logsInfo)
  BY DEF Captured
<1>6. logFile' \in Nat /\ (logFile' > logFile => logFile' <= MaximumLogBytes + PrefixBytes)
  BY <1>4, <1>5, WriteStep DEF LogInv
<1> QED BY <1>1, <1>2, <1>6 DEF LogInv, LogsStep

LEMMA ClockLogs ==
  ASSUME LogInv, Tick
  PROVE  LogInv' /\ LogsStep
<1> DEFINE d == decisions
           Older(age) == IF age < MinimumLogInterval THEN age + 1 ELSE age
<1>1. /\ decisions' = [d EXCEPT !.age = Older(@), !.quiet = Older(@)]
      /\ logFile' = logFile
      /\ transitions' = [transitions EXCEPT
           !.age = IF @ < MinimumTransitionInterval THEN @ + 1 ELSE @]
  BY DEF Tick
<1>2. LogKept(d)
  BY DEF LogInv
<1>3. Older(d.age) \in Nat /\ d.quiet = d.age
  BY <1>2, DecisionLogAssumption DEF LogKept
<1> HIDE DEF d, Older
<1>4. decisions' = [last |-> d.last, pending |-> d.pending, age |-> Older(d.age),
                    count |-> d.count, quiet |-> Older(d.age)]
  <2>1. d = [last |-> d.last, pending |-> d.pending, age |-> d.age, count |-> d.count,
             quiet |-> d.quiet]
    BY <1>2 DEF LogKept, LogTyped
  <2> QED BY <1>1, <1>3, <2>1
<1>5. LogKept(decisions') /\ decisions'.count = d.count
  BY <1>2, <1>3, <1>4 DEF LogKept, LogTyped
<1>6. transitions'.count = transitions.count
  BY <1>1
<1> QED BY <1>1, <1>5, <1>6 DEF LogInv, LogsStep, LogsOnce, d

LEMMA LogNext == LogInv /\ [Next]_vars => LogInv' /\ LogsStep
<1> SUFFICES ASSUME LogInv, [Next]_vars PROVE LogInv' /\ LogsStep
  OBVIOUS
<1>1. CASE Start \/ UNCHANGED vars
  <2>1. UNCHANGED sessionVars
    BY <1>1 DEF Start, vars
  <2> QED BY <2>1 DEF sessionVars, LogInv, LogsStep, LogsOnce
<1>2. CASE Report
  <2>1. UNCHANGED <<decisions, transitions>> /\ Write(1, logsInfo)
    BY <1>2 DEF Report
  <2>2. logFile' \in Nat /\ (logFile' > logFile => logFile' <= MaximumLogBytes + PrefixBytes)
    BY <2>1, WriteStep DEF LogInv
  <2> QED BY <2>1, <2>2 DEF LogInv, LogsStep, LogsOnce
<1>3. CASE Frame \/ QuietFrame
  BY <1>3, CapturedLogs DEF Frame, QuietFrame
<1>4. CASE Clock
  BY <1>4, ClockLogs DEF Clock
<1> QED BY <1>1, <1>2, <1>3, <1>4 DEF Next

\* For every interval, budget and limit, every configuration and every sequence of frames:
\* a decision is logged once, not right after itself, no sooner than the interval after the
\* last one, within the budget; and the file grows past its limit by no more than the time
\* and the level of the line that reaches it, whichever thread writes it.
THEOREM LogsBounded == Spec => LogsAsDocumented
<1>1. Init => LogInv
  <2> SUFFICES ASSUME Init PROVE LogInv
    OBVIOUS
  <2>1. decisions = NewLog /\ transitions = NewTracker /\ logFile \in Nat
    BY DryRunSessionAssumption DEF Init, SessionInit
  <2> QED BY <2>1 DEF LogInv, LogKept, LogTyped, NewLog, NewTracker
<1> DEFINE Documented ==
             /\ decisions'.count > decisions.count =>
                  /\ decisions'.count = decisions.count + 1
                  /\ decisions'.count <= MaximumDecisionLogMessages
                  /\ decisions'.last # decisions.last
                  /\ decisions.last # None => decisions.quiet >= MinimumLogInterval
             /\ logFile' > logFile => logFile' <= MaximumLogBytes + PrefixBytes
<1>2. LogInv /\ LogsStep => Documented
  BY DEF LogInv, LogKept, LogsStep, LogsOnce
<1>3. LogInv /\ [Next]_vars => LogInv' /\ [Documented]_sessionVars
  BY <1>2, LogNext
<1> QED BY <1>1, <1>3, PTL DEF Spec, LogsAsDocumented
=============================================================================
