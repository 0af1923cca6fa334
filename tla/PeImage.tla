------------------------------- MODULE PeImage ------------------------------
(***************************************************************************)
(* PeImageReader::read: the headers of a file are checked once, then each  *)
(* section against those before it.  Offsets and sizes in a section are       *)
(* unsigned numbers of one word (% Word), the size of the file is wider.   *)
(* The constants stand for the sizes in the code, scaled down.  Names of   *)
(* sections are ".text", another name, or one that parseSectionName        *)
(* refuses; time stamp, checksum and alignment carry no check of their own *)
(* beyond those of HeadersFit.                                             *)
(***************************************************************************)
EXTENDS Naturals, Sequences

CONSTANTS
  Word,               \* 2^32
  DosHeader,          \* dosHeaderSize
  CoffEnd,            \* 4 + coffHeaderSize
  SectionHeader,      \* sectionHeaderSize
  MinimumOptional, MaximumOptional,  \* minimumOptionalHeaderSize, 4096
  MaximumSections,    \* maximumSections
  MaximumPeOffset,    \* maximumPeHeaderOffset
  MaximumFile         \* maximumPe32FileSize

Headers ==
  [fileSize : Nat, peOffset : 0 .. Word - 1, sectionCount : Nat, optionalSize : Nat,
   sizeOfImage : 0 .. Word - 1, sizeOfHeaders : 0 .. Word - 1, wellFormed : BOOLEAN]

Names == {".text", "other", "refused"}
Section ==
  [name : Names, virtualAddress : 0 .. Word - 1, virtualSize : 0 .. Word - 1,
   rawOffset : 0 .. Word - 1, rawSize : 0 .. Word - 1]

ASSUME PeImageAssumption ==
  /\ Word \in Nat \ {0}
  /\ DosHeader \in Nat \ {0} /\ CoffEnd \in Nat /\ SectionHeader \in Nat \ {0}

-----------------------------------------------------------------------------

\* checkedAdd: the sum fits the word.
CheckedAdd(left, right) == left + right < Word

SectionTableEnd(h) == h.peOffset + CoffEnd + h.optionalSize + h.sectionCount * SectionHeader

\* The checks before the sections; wellFormed stands for signatures, machine, magic,
\* alignment and entry point.
HeadersFit(h) ==
  /\ h.fileSize >= DosHeader /\ h.fileSize <= MaximumFile
  /\ h.peOffset \in DosHeader .. MaximumPeOffset
  /\ h.peOffset + CoffEnd <= h.fileSize
  /\ h.sectionCount \in 1 .. MaximumSections
  /\ h.optionalSize \in MinimumOptional .. MaximumOptional
  /\ h.sizeOfImage # 0
  /\ SectionTableEnd(h) <= h.fileSize
  /\ h.sizeOfHeaders \in SectionTableEnd(h) .. h.fileSize
  /\ h.wellFormed

\* Mutant: only the beginning of the new region is looked up in the other one.
BeginsInside(begin, size, otherBegin, otherSize) ==
  otherBegin <= begin /\ begin < otherBegin + otherSize

\* regionsOverlap
Overlap(begin, size, otherBegin, otherSize) ==
  begin < otherBegin + otherSize /\ otherBegin < begin + size

VirtualSpan(s) == IF s.virtualSize > s.rawSize THEN s.virtualSize ELSE s.rawSize

VirtualFits(headers, sections, s) ==
  VirtualSpan(s) > 0 =>
    /\ CheckedAdd(s.virtualAddress, VirtualSpan(s))
    /\ s.virtualAddress < headers.sizeOfImage
    /\ s.virtualAddress + VirtualSpan(s) <= headers.sizeOfImage
    /\ \A i \in DOMAIN sections :
         VirtualSpan(sections[i]) > 0 =>
           ~Overlap(s.virtualAddress, VirtualSpan(s),
                    sections[i].virtualAddress, VirtualSpan(sections[i]))

RawFits(headers, sections, s) ==
  IF s.rawSize = 0 THEN s.rawOffset <= headers.fileSize
  ELSE /\ CheckedAdd(s.rawOffset, s.rawSize)
       /\ s.rawOffset >= headers.sizeOfHeaders
       /\ s.rawOffset + s.rawSize <= headers.fileSize
       /\ \A i \in DOMAIN sections :
            sections[i].rawSize > 0 => ~Overlap(s.rawOffset, s.rawSize,
                                                sections[i].rawOffset, sections[i].rawSize)

HasText(sections) == \E i \in DOMAIN sections : sections[i].name = ".text"

TextOnce(sections, s) == s.name = ".text" => ~HasText(sections) /\ s.rawSize # 0

\* The section after those in sections is one more of them.
Acceptable(headers, sections, s) ==
  /\ s.name # "refused"
  /\ VirtualFits(headers, sections, s)
  /\ RawFits(headers, sections, s)
  /\ TextOnce(sections, s)

\* read: the image of these headers and sections is returned.
Accepted(headers, sections) ==
  /\ HeadersFit(headers)
  /\ Len(sections) = headers.sectionCount
  /\ \A n \in DOMAIN sections : Acceptable(headers, SubSeq(sections, 1, n - 1), sections[n])
  /\ HasText(sections)

-----------------------------------------------------------------------------

FileBytes(s) == {s.rawOffset + i : i \in 0 .. s.rawSize - 1}
ImageBytes(s) == {s.virtualAddress + i : i \in 0 .. VirtualSpan(s) - 1}

\* Every byte of an accepted section is in the file, behind the headers and the section
\* table, and belongs to no other section.
FileBytesApart(headers, sections) ==
  \A i \in DOMAIN sections :
    /\ \A b \in FileBytes(sections[i]) : b >= SectionTableEnd(headers) /\ b < headers.fileSize
    /\ \A j \in DOMAIN sections \ {i} :
         FileBytes(sections[i]) \cap FileBytes(sections[j]) = {}

\* The same of the addresses the sections are loaded to, data beyond the virtual size
\* included.
ImageBytesApart(headers, sections) ==
  \A i \in DOMAIN sections :
    /\ \A b \in ImageBytes(sections[i]) : b < headers.sizeOfImage
    /\ \A j \in DOMAIN sections \ {i} :
         ImageBytes(sections[i]) \cap ImageBytes(sections[j]) = {}

\* WindowsFileHasher::sha256Range refuses offset > size or length > size - offset: of an
\* accepted image it hashes each section, and the one .text with at least a byte.
SectionsCanBeHashed(headers, sections) ==
  /\ \A i \in DOMAIN sections :
       sections[i].rawSize > 0 =>
         ~(\/ sections[i].rawOffset > headers.fileSize
           \/ sections[i].rawSize > headers.fileSize - sections[i].rawOffset)
  /\ \E i \in DOMAIN sections :
       /\ sections[i].name = ".text" /\ sections[i].rawSize > 0
       /\ \A j \in DOMAIN sections \ {i} : sections[j].name # ".text"

=============================================================================
