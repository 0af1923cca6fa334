----------------------------- MODULE Fingerprint ----------------------------
(***************************************************************************)
(* fingerprintExecutable, while another process may replace the file.      *)
(* The layout is read through a stream that locks nothing, in two reads:   *)
(* the headers and the section table.  A hash opens the file without       *)
(* FILE_SHARE_WRITE, so it is of one version; the file may be renamed and  *)
(* another put in its place between two of the steps.                      *)
(*                                                                         *)
(* A file is its headers, its section table and its bytes (those of the    *)
(* headers stand as any); a digest is what was hashed (no two contents     *)
(* collide).  What makes headers and a table an image is PeImage's.        *)
(***************************************************************************)
EXTENDS PeImage, SequencesExt

CONSTANTS
  Files,       \* the contents the path may hold
  MaxChanges,  \* bound: replacements during the collection
  Unset        \* what has not been read yet

ASSUME FingerprintAssumption ==
  /\ MaxChanges \in Nat
  /\ \A f \in Files :
       /\ f.headers \in Headers /\ f.table \in Seq(Section) /\ f.data \in Seq(Nat)
       /\ f.headers.fileSize = Len(f.data) /\ f.headers.sectionCount = Len(f.table)

VARIABLES
  file,      \* the version at the path
  versions,  \* history: the versions that were at the path, in order
  at,        \* the step the collection is at
  image,     \* image: headers and table
  fileHash,  \* fileHash
  sections,  \* the digests of the sections so far
  confirmed  \* confirmedImage, as far as it is read

fingerprintVars == <<file, versions, at, image, fileHash, sections, confirmed>>

Steps == {"headers", "table", "file", "sections", "confirmFile", "confirmHeaders",
          "confirmTable", "done", "failed", "left"}

Unread == [headers |-> Unset, table |-> <<>>]

FingerprintInit ==
  /\ file \in Files
  /\ versions = <<file>>
  /\ at = "headers"
  /\ image = Unread
  /\ fileHash = Unset
  /\ sections = <<>>
  /\ confirmed = Unread

\* fingerprintExecutable returns: what it has read goes out of scope, and nothing looks
\* at the path again.
Leave ==
  /\ at' = "left"
  /\ file' = Unset
  /\ versions' = <<>>
  /\ image' = Unread
  /\ fileHash' = Unset
  /\ sections' = <<>>
  /\ confirmed' = Unread

-----------------------------------------------------------------------------

\* The bytes of a section; sha256Range refuses a range that is not in the file.
InFile(f, s) == s.rawSize > 0 => s.rawOffset + s.rawSize <= Len(f.data)
Bytes(f, s) == SubSeq(f.data, s.rawOffset + 1, s.rawOffset + s.rawSize)

\* What is kept of an image, and compared: not where its headers lie and end.
Metadata(i) ==
  [fileSize |-> i.headers.fileSize, sizeOfImage |-> i.headers.sizeOfImage, sections |-> i.table]

\* sameImageLayout
SameImageLayout(left, right) == Metadata(left) = Metadata(right)

\* As many entries as the headers announce are read, also from another version's table;
\* what lies behind a shorter one is no section.
TableRead(headers) ==
  IF headers.sectionCount > Len(file.table) THEN file.table
  ELSE SubSeq(file.table, 1, headers.sectionCount)

ReadHeaders ==
  /\ at = "headers"
  /\ image' = [image EXCEPT !.headers = file.headers]
  /\ at' = IF HeadersFit(file.headers) THEN "table" ELSE "failed"
  /\ UNCHANGED <<file, versions, fileHash, sections, confirmed>>

ReadTable ==
  /\ at = "table"
  /\ image' = [image EXCEPT !.table = TableRead(image.headers)]
  /\ at' = IF Accepted(image.headers, image'.table) THEN "file" ELSE "failed"
  /\ UNCHANGED <<file, versions, fileHash, sections, confirmed>>

HashFile ==
  /\ at = "file"
  /\ fileHash' = file
  /\ at' = "sections"
  /\ UNCHANGED <<file, versions, image, sections, confirmed>>

NextSection == image.table[Len(sections) + 1]

\* An empty section has no digest.
HashSection ==
  /\ at = "sections"
  /\ Len(sections) < Len(image.table)
  /\ InFile(file, NextSection)
  /\ sections' = Append(sections, Bytes(file, NextSection))
  /\ UNCHANGED <<file, versions, at, image, fileHash, confirmed>>

SectionsHashed ==
  /\ at = "sections"
  /\ Len(sections) = Len(image.table)
  /\ at' = IF \E i \in DOMAIN sections : image.table[i].name = ".text" /\ sections[i] # <<>>
           THEN "confirmFile" ELSE "failed"
  /\ UNCHANGED <<file, versions, image, fileHash, sections, confirmed>>

\* Both confirmations are read before either is compared; the outcome is the same.
ConfirmFile ==
  /\ at = "confirmFile"
  /\ at' = IF file = fileHash THEN "confirmHeaders" ELSE "failed"
  /\ UNCHANGED <<file, versions, image, fileHash, sections, confirmed>>

ConfirmHeaders ==
  /\ at = "confirmHeaders"
  /\ confirmed' = [confirmed EXCEPT !.headers = file.headers]
  /\ at' = IF HeadersFit(file.headers) THEN "confirmTable" ELSE "failed"
  /\ UNCHANGED <<file, versions, image, fileHash, sections>>

\* Mutant: the second layout is not compared with the first one.
ConfirmTableOnly ==
  /\ at = "confirmTable"
  /\ confirmed' = [confirmed EXCEPT !.table = TableRead(confirmed.headers)]
  /\ at' = "done"
  /\ UNCHANGED <<file, versions, image, fileHash, sections>>

ConfirmTable ==
  /\ at = "confirmTable"
  /\ confirmed' = [confirmed EXCEPT !.table = TableRead(confirmed.headers)]
  /\ at' = IF /\ Accepted(confirmed'.headers, confirmed'.table)
              /\ SameImageLayout(image, confirmed')
           THEN "done" ELSE "failed"
  /\ UNCHANGED <<file, versions, image, fileHash, sections>>

\* A read or a hash fails: the file cannot be opened, or ends before the section does.
Fail ==
  /\ at \notin {"sections", "done", "failed", "left"} \/ (at = "sections" /\ Len(sections) < Len(image.table))
  /\ at' = "failed"
  /\ UNCHANGED <<file, versions, image, fileHash, sections, confirmed>>

\* Another process puts another version in the place of the file.
Replace ==
  /\ at \notin {"done", "failed", "left"}
  /\ Len(versions) <= MaxChanges
  /\ \E f \in Files \ {file} : file' = f /\ versions' = Append(versions, f)
  /\ UNCHANGED <<at, image, fileHash, sections, confirmed>>

Collect ==
  \/ ReadHeaders \/ ReadTable \/ HashFile \/ HashSection \/ SectionsHashed
  \/ ConfirmFile \/ ConfirmHeaders \/ ConfirmTable \/ Fail
  \/ Replace

-----------------------------------------------------------------------------

\* The fingerprint that is returned.  A valid image has one .text (PeImage).
Result ==
  [file |-> fileHash,
   text |-> sections[CHOOSE i \in DOMAIN sections : image.table[i].name = ".text"],
   metadata |-> Metadata(image),
   sections |-> sections]

IsImage(f) == Accepted(f.headers, f.table)

\* The fingerprint of version f, an image, collected while nothing changes.
FingerprintOf(f) ==
  LET text == CHOOSE i \in DOMAIN f.table : f.table[i].name = ".text"
  IN  [file |-> f,
       text |-> Bytes(f, f.table[text]),
       metadata |-> Metadata(f),
       sections |-> [i \in DOMAIN f.table |-> Bytes(f, f.table[i])]]

\* A fingerprint that is returned is that of a version that was at the path, never one
\* put together from two of them, however the one replacement falls.
FingerprintOfOneVersion ==
  at = "done" => \E i \in DOMAIN versions :
    IsImage(versions[i]) /\ Result = FingerprintOf(versions[i])

\* Once the layout is read, no byte of the file is hashed for two sections, none of the
\* headers for any, and no two sections share an address they are loaded to; a hash that
\* is refused means that the file has changed since.  The headers and the table need
\* not be of one version for that.
SectionsApart ==
  at \notin {"headers", "table", "failed", "left"} =>
    /\ FileBytesApart(image.headers, image.table)
    /\ ImageBytesApart(image.headers, image.table)
    /\ SectionsCanBeHashed(image.headers, image.table)

=============================================================================
