----------------------------- MODULE ImageRange -----------------------------
(* addressRangeWithinImage of MemoryPatch.cpp: may a patch of `size` bytes at *)
(* `address` be read and written?  Addresses are unsigned machine words       *)
(* and the code's sums wrap; the function is the only bounds check before the *)
(* plugin touches the game's code.                                            *)
EXTENDS Integers

CONSTANT Words   \* how many machine words there are: a power of two in a build

ASSUME WordsAssumption == Words \in Nat \ {0}

Word == 0 .. Words - 1
MaxWord == Words - 1
Add(a, b) == (a + b) % Words
Sub(a, b) == (a - b) % Words

\* Mutant: the ends are compared as they come out of the additions.
EndsInside(address, size, imageBase, imageSize) ==
    /\ size # 0 /\ imageSize # 0 /\ address >= imageBase
    /\ Add(address, size) <= Add(imageBase, imageSize)

\* The guards of the function in their order.
AddressRangeWithinImage(address, size, imageBase, imageSize) ==
    /\ size # 0 /\ imageSize # 0 /\ address >= imageBase
    /\ ~(imageBase > Sub(MaxWord, imageSize))
    /\ address < Add(imageBase, imageSize)
    /\ ~(address > Sub(MaxWord, size))
    /\ Add(address, size) <= Add(imageBase, imageSize)

-----------------------------------------------------------------------------
Span == [base : Word, size : Word]
BytesOf(span) == {span.base + k : k \in 0 .. span.size - 1}

\* What the check is for: a non-empty range all of whose bytes belong to an image that
\* ends below the last word.
InsideImage(range, image) ==
    /\ range.size > 0
    /\ BytesOf(range) \subseteq BytesOf(image)
    /\ image.base + image.size <= MaxWord

Accepts(range, image) ==
    AddressRangeWithinImage(range.base, range.size, image.base, image.size)
=============================================================================
