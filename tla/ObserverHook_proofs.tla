-------------------------- MODULE ObserverHook_proofs --------------------------
(* The patches and the hook: proofs about PatchTransaction for any number of   *)
(* patches, and about ObserverHook for any number of frames, both for any      *)
(* image and word size.                                                        *)
(*                                                                             *)
(* The transaction first.  Restoring is possible at any time                   *)
(* (OriginalsRecoverable) because applied_ only ever holds true originals,     *)
(* which in turn holds because a retry reads its originals from sites that     *)
(* matched, and a site that matched has not been written.  Before that: the    *)
(* bounds check on its addresses is exact for every word size (ImageRange).    *)
(*                                                                             *)
(* Then the observer started and stopped under the game thread, with its one   *)
(* call site (OneCallSite, which no result about the transaction uses).  Every *)
(* step of the hook is one of the transaction or leaves it alone, so that what *)
(* holds of a transaction holds of it too.                                     *)
EXTENDS ObserverHook, SequenceTheorems, TLAPS

-----------------------------------------------------------------------------
(* The transaction. *)

\* A number that is a word already is left alone by the wrap-around.
LEMMA WordMod == ASSUME NEW a \in Word PROVE a % Words = a
<1>1. Words \in Int /\ Words > 0 /\ a \in Int /\ 0 <= a /\ a < Words
  BY WordsAssumption DEF Word
<1> QED BY <1>1, Z3

\* The code's sum is the real one where it does not exceed the last word, and
\* its difference where it is not negative.
LEMMA NoWrap ==
  ASSUME NEW a \in Word, NEW b \in Word
  PROVE  /\ a + b <= MaxWord => Add(a, b) = a + b
         /\ b <= a => Sub(a, b) = a - b
<1>1. a + b <= MaxWord => a + b \in Word
  BY WordsAssumption DEF Word, MaxWord
<1>2. b <= a => a - b \in Word
  BY WordsAssumption DEF Word
<1>3. a + b <= MaxWord => Add(a, b) = a + b
  BY <1>1, WordMod DEF Add
<1>4. b <= a => Sub(a, b) = a - b
  BY <1>2, WordMod DEF Sub
<1> QED BY <1>3, <1>4

\* The answer in plain arithmetic.  The code never adds before it knows that
\* the sum fits.
LEMMA Arithmetic ==
  ASSUME NEW address \in Word, NEW size \in Word,
         NEW imageBase \in Word, NEW imageSize \in Word
  PROVE  AddressRangeWithinImage(address, size, imageBase, imageSize)
           <=> /\ size > 0 /\ imageSize > 0 /\ address >= imageBase
               /\ imageBase + imageSize <= MaxWord
               /\ address + size <= imageBase + imageSize
<1>1. /\ MaxWord \in Word
      /\ address \in Int /\ size \in Int /\ imageBase \in Int /\ imageSize \in Int
      /\ 0 <= size /\ size <= MaxWord /\ 0 <= imageSize /\ imageSize <= MaxWord
      /\ MaxWord \in Int
  BY WordsAssumption DEF Word, MaxWord
<1>2. Sub(MaxWord, imageSize) = MaxWord - imageSize /\ Sub(MaxWord, size) = MaxWord - size
  BY <1>1, NoWrap
<1>3. imageBase + imageSize <= MaxWord => Add(imageBase, imageSize) = imageBase + imageSize
  BY NoWrap
<1>4. address + size <= MaxWord => Add(address, size) = address + size
  BY NoWrap
<1>5. ~(imageBase > Sub(MaxWord, imageSize)) <=> imageBase + imageSize <= MaxWord
  BY <1>1, <1>2
<1>6. ~(address > Sub(MaxWord, size)) <=> address + size <= MaxWord
  BY <1>1, <1>2
<1> QED BY <1>1, <1>3, <1>4, <1>5, <1>6 DEF AddressRangeWithinImage

\* The bytes of a non-empty span lie in another one exactly when its ends do.
LEMMA BytesInside ==
  ASSUME NEW inner \in Span, NEW outer \in Span, inner.size > 0
  PROVE  BytesOf(inner) \subseteq BytesOf(outer)
           <=> /\ inner.base >= outer.base
               /\ inner.base + inner.size <= outer.base + outer.size
<1>1. /\ inner.base \in Int /\ inner.size \in Int
      /\ outer.base \in Int /\ outer.size \in Int
  BY WordsAssumption DEF Span, Word
<1>2. \A span \in Span : \A x : x \in BytesOf(span)
        <=> x \in Int /\ span.base <= x /\ x < span.base + span.size
  <2> SUFFICES ASSUME NEW span \in Span, NEW x
               PROVE  x \in BytesOf(span)
                        <=> x \in Int /\ span.base <= x /\ x < span.base + span.size
    OBVIOUS
  <2>1. span.base \in Int /\ span.size \in Int
    BY WordsAssumption DEF Span, Word
  <2>2. ASSUME x \in Int, span.base <= x, x < span.base + span.size
        PROVE  x \in BytesOf(span)
    <3>1. x - span.base \in 0 .. span.size - 1 /\ x = span.base + (x - span.base)
      BY <2>1, <2>2
    <3> QED BY <3>1 DEF BytesOf
  <2>3. ASSUME x \in BytesOf(span)
        PROVE  x \in Int /\ span.base <= x /\ x < span.base + span.size
    BY <2>1, <2>3 DEF BytesOf
  <2> QED BY <2>2, <2>3
<1>3. ASSUME BytesOf(inner) \subseteq BytesOf(outer)
      PROVE  /\ inner.base >= outer.base
             /\ inner.base + inner.size <= outer.base + outer.size
  <2>1. inner.base \in BytesOf(inner) /\ inner.base + inner.size - 1 \in BytesOf(inner)
    BY <1>1, <1>2
  <2> QED BY <1>1, <1>2, <1>3, <2>1
<1>4. ASSUME inner.base >= outer.base, inner.base + inner.size <= outer.base + outer.size
      PROVE  BytesOf(inner) \subseteq BytesOf(outer)
  BY <1>1, <1>2, <1>4
<1> QED BY <1>3, <1>4

\* The bounds check accepts exactly the non-empty ranges inside the image, for
\* machine words of any size: no sum that wraps lets a range outside the image pass,
\* and no range inside such an image is turned down.
THEOREM RangeCheckExact ==
  \A range \in Span : \A image \in Span : Accepts(range, image) <=> InsideImage(range, image)
<1> SUFFICES ASSUME NEW range \in Span, NEW image \in Span
             PROVE  Accepts(range, image) <=> InsideImage(range, image)
  OBVIOUS
<1>1. /\ range.base \in Word /\ range.size \in Word
      /\ image.base \in Word /\ image.size \in Word
  BY DEF Span
<1>2. Accepts(range, image)
        <=> /\ range.size > 0 /\ image.size > 0 /\ range.base >= image.base
            /\ image.base + image.size <= MaxWord
            /\ range.base + range.size <= image.base + image.size
  BY <1>1, Arithmetic DEF Accepts
<1>3. range.size > 0 =>
        (BytesOf(range) \subseteq BytesOf(image)
           <=> /\ range.base >= image.base
               /\ range.base + range.size <= image.base + image.size)
  BY BytesInside
<1>4. range.size > 0 /\ range.base >= image.base
        /\ range.base + range.size <= image.base + image.size => image.size > 0
  BY <1>1, WordsAssumption DEF Word
<1> QED BY <1>2, <1>3, <1>4 DEF InsideImage

-----------------------------------------------------------------------------

Idle == step.at = "idle"

\* Nothing but the game's own bytes, the replacement or the rest of a failed
\* write is ever found at a site.
MemoryInv == \A s \in Sites : memory[s] \in {found[s], "replacement"} \cup Damage

\* What is remembered is what was there.
SavedInv == \A k \in 1 .. Len(applied) : applied[k].original = found[applied[k].site]

\* At most one entry per site.
LengthInv == Len(applied) <= N

\* While an install runs, its sites beyond the current one are untouched.
InstallInv ==
    /\ step.at \in {"write", "verify"} =>
         /\ step.site \in Sites
         /\ step.saved = found
    /\ step.at = "write" => Len(applied) = step.site - 1
    /\ step.at = "write" => \A s \in Sites : s >= step.site => memory[s] = found[s]
    /\ step.at = "verify" => Len(applied) = step.site
    /\ step.at = "verify" => \A s \in Sites : s > step.site => memory[s] = found[s]

\* While a restoration runs without a failure, every changed site is still due.
RestoreInv ==
    step.at = "restore" =>
        /\ step.site <= Len(applied)
        /\ ~step.failed => \A s \in Sites :
              \/ memory[s] = found[s]
              \/ \E k \in 1 .. step.site : applied[k].site = s

IInv ==
    /\ TransactionTypeOK
    /\ MemoryInv
    /\ SavedInv
    /\ LengthInv
    /\ InstallInv
    /\ RestoreInv
    /\ OriginalsRecoverable

\* A step that touches neither memory nor what is remembered.
LEMMA QuietStep ==
  ASSUME IInv, UNCHANGED <<memory, found, applied>>
  PROVE  MemoryInv' /\ SavedInv' /\ LengthInv' /\ OriginalsRecoverable'
BY DEF IInv, MemoryInv, SavedInv, LengthInv, OriginalsRecoverable, Sites

LEMMA InitInv == TransactionInit => IInv
<1> SUFFICES ASSUME TransactionInit PROVE IInv
  OBVIOUS
<1>1. TransactionTypeOK
  <2>0. layout \in Layouts
    BY DEF TransactionInit
  <2>1. step \in Step
    BY TransactionAssumption DEF TransactionInit, Step, Bytes
  <2>2. result \in Result
    BY DEF TransactionInit, NoResult, Result, Calls, Statuses
  <2>3. found \in [Sites -> Bytes] /\ memory \in [Sites -> Bytes]
    BY DEF TransactionInit, Bytes
  <2>4. applied \in Seq(AppliedPatch) /\ installed \in BOOLEAN
    BY EmptySeq DEF TransactionInit
  <2> QED BY <2>0, <2>1, <2>2, <2>3, <2>4 DEF TransactionTypeOK
<1>2. MemoryInv /\ OriginalsRecoverable
  BY DEF TransactionInit, MemoryInv, OriginalsRecoverable
<1>3. SavedInv /\ LengthInv
  BY TransactionAssumption DEF TransactionInit, SavedInv, LengthInv
<1>4. InstallInv /\ RestoreInv
  BY DEF TransactionInit, InstallInv, RestoreInv
<1> QED BY <1>1, <1>2, <1>3, <1>4 DEF IInv

\* The types of a step that leaves memory, saved originals and flag alone.
LEMMA QuietType ==
  ASSUME IInv, UNCHANGED <<layout, memory, found, applied, installed>>,
         step' \in Step, result' \in Result
  PROVE  TransactionTypeOK'
BY DEF IInv, TransactionTypeOK

LEMMA InstallStep ==
  ASSUME IInv, NEW dryRun \in BOOLEAN, Install(dryRun) PROVE IInv'
<1>1. step \in Step /\ result \in Result
  BY DEF IInv, TransactionTypeOK
<1>2. step' \in Step
  BY <1>1 DEF Install, Step
<1>3. result' \in Result
  BY DEF Install, NoResult, Result, Calls, Statuses, IInv, TransactionTypeOK
<1>4. step'.at \in {"idle", "validate"}
  BY <1>1 DEF Install, Step
<1>5. InstallInv' /\ RestoreInv'
  BY <1>4 DEF InstallInv, RestoreInv
<1> QED BY <1>2, <1>3, <1>5, QuietStep, QuietType DEF Install, IInv

LEMMA ReturnTypes ==
  ASSUME step \in Step, result \in Result, NEW status \in Statuses, Return(status)
  PROVE  step' \in Step /\ result' \in Result /\ step'.at = "idle"
<1>1. step' \in Step /\ step'.at = "idle"
  BY DEF Return, Step
<1>2. result' \in Result
  BY DEF Return, Result
<1> QED BY <1>1, <1>2

LEMMA ValidationFailsStep == ASSUME IInv, ValidationFails PROVE IInv'
<1>1. step \in Step /\ result \in Result
  BY DEF IInv, TransactionTypeOK
<1>2. PICK status \in Statuses : Return(status)
  BY DEF ValidationFails, Statuses
<1>3. step' \in Step /\ result' \in Result /\ step'.at = "idle"
  BY <1>1, <1>2, ReturnTypes
<1>4. InstallInv' /\ RestoreInv'
  BY <1>3 DEF InstallInv, RestoreInv
<1> QED BY <1>3, <1>4, QuietStep, QuietType DEF ValidationFails, IInv

\* A site whose bytes match has not been written.
LEMMA MatchedIsFound ==
  ASSUME IInv, NEW s \in Sites, memory[s] \in Matching
  PROVE  memory[s] = found[s]
BY TransactionAssumption DEF IInv, MemoryInv

LEMMA ValidationPassesStep == ASSUME IInv, ValidationPasses PROVE IInv'
<1>0. layout' \in Layouts
  BY DEF IInv, TransactionTypeOK, ValidationPasses
<1>1. step \in Step /\ result \in Result /\ memory \in [Sites -> Bytes]
      /\ found \in [Sites -> Bytes] /\ installed \in BOOLEAN
  BY DEF IInv, TransactionTypeOK
<1>2. result' \in Result
  BY <1>1 DEF ValidationPasses, Result, Statuses
<1>3. memory = found
  <2>1. \A s \in Sites : memory[s] = found[s]
    BY MatchedIsFound DEF ValidationPasses
  <2> QED BY <1>1, <2>1
<1>4. CASE step.dryRun
  <2>1. step' \in Step /\ step'.at = "idle"
    BY <1>1, <1>4 DEF ValidationPasses, Step
  <2>2. UNCHANGED <<layout, memory, found, applied, installed>>
    BY <1>4 DEF ValidationPasses
  <2>3. InstallInv' /\ RestoreInv'
    BY <2>1 DEF InstallInv, RestoreInv
  <2> QED BY <1>2, <2>1, <2>2, <2>3, QuietStep, QuietType DEF IInv
<1>5. CASE ~step.dryRun
  <2>1. /\ step' = [step EXCEPT !.at = "write", !.site = 1, !.saved = memory]
        /\ applied' = <<>>
        /\ memory' = memory /\ found' = found /\ installed' = installed
    BY <1>5 DEF ValidationPasses
  <2>2. step' \in Step /\ step'.at = "write" /\ step'.site = 1 /\ step'.saved = memory
    <3>1. 1 \in 0 .. N
      BY TransactionAssumption
    <3>2. step' = [at |-> "write", site |-> 1, saved |-> memory,
                   dryRun |-> step.dryRun, failed |-> step.failed]
      BY <1>1, <2>1 DEF Step
    <3>3. step.dryRun \in BOOLEAN /\ step.failed \in BOOLEAN
      BY <1>1 DEF Step
    <3> QED BY <1>1, <3>1, <3>2, <3>3 DEF Step
  <2>3. TransactionTypeOK'
    BY <1>0, <1>1, <1>2, <2>1, <2>2, EmptySeq DEF TransactionTypeOK
  <2>4. MemoryInv' /\ OriginalsRecoverable'
    BY <1>3, <2>1 DEF MemoryInv, OriginalsRecoverable
  <2>5. SavedInv' /\ LengthInv'
    BY <2>1, TransactionAssumption DEF SavedInv, LengthInv
  <2>6. InstallInv'
    BY <1>3, <2>1, <2>2, TransactionAssumption DEF InstallInv, Sites
  <2>7. RestoreInv'
    BY <2>2 DEF RestoreInv
  <2> QED BY <2>3, <2>4, <2>5, <2>6, <2>7 DEF IInv
<1> QED BY <1>4, <1>5

\* A rollback may begin wherever every changed site is remembered.
LEMMA RollBackInv ==
  ASSUME TransactionTypeOK, OriginalsRecoverable',
         NEW status \in Statuses, RollBack(status, applied'),
         applied' \in Seq(AppliedPatch), Len(applied') <= N
  PROVE  step' \in Step /\ result' \in Result /\ InstallInv' /\ RestoreInv'
<1>1. Len(applied') \in 0 .. N
  BY LenProperties, TransactionAssumption
<1>2. step' \in Step /\ step'.at = "restore" /\ step'.site = Len(applied')
  BY <1>1 DEF RollBack, Step, TransactionTypeOK
<1>3. result' \in Result
  BY DEF RollBack, Result, TransactionTypeOK
<1>4. InstallInv'
  BY <1>2 DEF InstallInv
<1>5. RestoreInv'
  BY <1>1, <1>2 DEF RestoreInv, OriginalsRecoverable
<1> QED BY <1>2, <1>3, <1>4, <1>5

LEMMA PreparationThrowsStep == ASSUME IInv, PreparationThrows PROVE IInv'
<1>1. UNCHANGED <<layout, memory, found, applied, installed>> /\ RollBack("writeFailed", applied')
  BY DEF PreparationThrows
<1>2. MemoryInv' /\ SavedInv' /\ LengthInv' /\ OriginalsRecoverable'
  BY <1>1, QuietStep
<1>3. applied' \in Seq(AppliedPatch) /\ Len(applied') <= N
  BY <1>1, <1>2 DEF IInv, TransactionTypeOK, LengthInv
<1>4. step' \in Step /\ result' \in Result /\ InstallInv' /\ RestoreInv'
  BY <1>1, <1>2, <1>3, RollBackInv DEF IInv, Statuses
<1> QED BY <1>1, <1>2, <1>4, QuietType DEF IInv

LEMMA VerifyFailsStep == ASSUME IInv, VerifyFails PROVE IInv'
<1>1. PICK status \in {"verificationFailed", "writeFailed"} :
         UNCHANGED <<layout, memory, found, applied, installed>> /\ RollBack(status, applied')
  BY DEF VerifyFails
<1>2. MemoryInv' /\ SavedInv' /\ LengthInv' /\ OriginalsRecoverable'
  BY <1>1, QuietStep
<1>3. applied' \in Seq(AppliedPatch) /\ Len(applied') <= N
  BY <1>1, <1>2 DEF IInv, TransactionTypeOK, LengthInv
<1>4. status \in Statuses
  BY DEF Statuses
<1>5. step' \in Step /\ result' \in Result /\ InstallInv' /\ RestoreInv'
  BY <1>1, <1>2, <1>3, <1>4, RollBackInv DEF IInv
<1> QED BY <1>1, <1>2, <1>5, QuietType DEF IInv

\* Writing a site keeps everything recoverable, because its original has been
\* remembered first.
LEMMA WriteSiteStep == ASSUME IInv, WriteSite PROVE IInv'
<1>0. layout' \in Layouts
  BY DEF IInv, TransactionTypeOK, WriteSite
<1>1. /\ step \in Step /\ result \in Result /\ memory \in [Sites -> Bytes]
      /\ found \in [Sites -> Bytes] /\ installed \in BOOLEAN
      /\ applied \in Seq(AppliedPatch)
  BY DEF IInv, TransactionTypeOK
<1>2. /\ step.at = "write" /\ step.site \in Sites /\ step.saved = found
      /\ Len(applied) = step.site - 1
      /\ \A s \in Sites : s >= step.site => memory[s] = found[s]
  BY DEF IInv, InstallInv, WriteSite
<1> DEFINE entry == [site |-> step.site, original |-> found[step.site]]
<1>3. applied' = Append(applied, entry) /\ found' = found /\ installed' = installed
  BY <1>2 DEF WriteSite, Remembered
<1>4. entry \in AppliedPatch
  BY <1>1, <1>2 DEF AppliedPatch
<1>5. /\ applied' \in Seq(AppliedPatch)
      /\ Len(applied') = step.site
      /\ \A k \in 1 .. Len(applied) : applied'[k] = applied[k]
      /\ applied'[step.site] = entry
  <2> HIDE DEF entry
  <2>1. /\ Append(applied, entry) \in Seq(AppliedPatch)
        /\ Len(Append(applied, entry)) = Len(applied) + 1
        /\ \A k \in 1 .. Len(applied) : Append(applied, entry)[k] = applied[k]
        /\ Append(applied, entry)[Len(applied) + 1] = entry
    BY <1>1, <1>4, AppendProperties
  <2> QED BY <1>1, <1>2, <1>3, <2>1, TransactionAssumption DEF Sites
<1>6. PICK bytes \in {memory[step.site], "replacement"} \cup Damage :
         memory' = [memory EXCEPT ![step.site] = bytes]
  BY DEF WriteSite
<1>7. /\ bytes \in {found[step.site], "replacement"} \cup Damage
      /\ bytes \in Bytes
  BY <1>1, <1>2, <1>6, TransactionAssumption DEF Bytes, Sites
<1>8. MemoryInv'
  BY <1>1, <1>2, <1>3, <1>6, <1>7 DEF IInv, MemoryInv
<1>9. memory' \in [Sites -> Bytes]
  BY <1>1, <1>2, <1>6, <1>7
<1>10. SavedInv'
  <2> SUFFICES ASSUME NEW k \in 1 .. Len(applied')
               PROVE  applied'[k].original = found[applied'[k].site]
    BY <1>3 DEF SavedInv
  <2>1. CASE k = step.site
    BY <1>5, <2>1
  <2>2. CASE k # step.site
    <3>1. k \in 1 .. Len(applied)
      BY <1>1, <1>2, <1>5, <2>2, TransactionAssumption DEF Sites
    <3> QED BY <1>5, <3>1 DEF IInv, SavedInv
  <2> QED BY <2>1, <2>2
<1>11. LengthInv'
  BY <1>2, <1>5, TransactionAssumption DEF LengthInv, Sites
<1>12. OriginalsRecoverable'
  <2> SUFFICES ASSUME NEW s \in Sites, memory'[s] # found[s]
               PROVE  \E k \in 1 .. Len(applied') :
                        applied'[k].site = s /\ applied'[k].original = found[s]
    BY <1>3 DEF OriginalsRecoverable
  <2>0. 1 .. Len(applied') = 1 .. step.site
    BY <1>5
  <2>1. CASE s = step.site
    <3>1. step.site \in 1 .. Len(applied')
      BY <1>2, <2>0, TransactionAssumption DEF Sites
    <3> QED BY <1>5, <2>1, <3>1
  <2>2. CASE s # step.site
    <3>1. memory[s] # found[s]
      BY <1>1, <1>2, <1>6, <2>2
    <3>2. PICK k \in 1 .. Len(applied) :
             applied[k].site = s /\ applied[k].original = found[s]
      BY <3>1 DEF IInv, OriginalsRecoverable
    <3>3. k \in 1 .. Len(applied')
      BY <1>1, <1>2, <2>0, <3>2, TransactionAssumption DEF Sites
    <3> QED BY <1>5, <3>2, <3>3
  <2> QED BY <2>1, <2>2
<1>13. step' \in Step /\ result' \in Result /\ InstallInv' /\ RestoreInv'
  <2>1. CASE RollBack("writeFailed", applied')
    <3>1. "writeFailed" \in Statuses
      BY DEF Statuses
    <3> QED BY <1>5, <1>11, <1>12, <2>1, <3>1, RollBackInv DEF IInv, LengthInv
  <2>2. CASE /\ step' = [step EXCEPT !.at = "verify"]
             /\ result' = [result EXCEPT !.wrote = TRUE]
    <3>1. step' \in Step /\ step'.at = "verify" /\ step'.site = step.site
          /\ step'.saved = step.saved
      BY <1>1, <2>2 DEF Step
    <3>2. result' \in Result
      BY <1>1, <2>2 DEF Result
    <3>3. \A s \in Sites : s > step.site => memory'[s] = found[s]
      BY <1>1, <1>2, <1>6, TransactionAssumption DEF Sites
    <3>4. InstallInv'
      BY <1>2, <1>3, <1>5, <3>1, <3>3 DEF InstallInv
    <3>5. RestoreInv'
      BY <3>1 DEF RestoreInv
    <3> QED BY <3>1, <3>2, <3>4, <3>5
  <2> QED BY <2>1, <2>2 DEF WriteSite
<1>14. TransactionTypeOK'
  BY <1>0, <1>1, <1>3, <1>5, <1>9, <1>13 DEF TransactionTypeOK
<1> QED BY <1>8, <1>10, <1>11, <1>12, <1>13, <1>14 DEF IInv

LEMMA VerifySiteStep == ASSUME IInv, VerifySite PROVE IInv'
<1>0. layout' \in Layouts
  BY DEF IInv, TransactionTypeOK, VerifySite
<1>1. /\ step \in Step /\ result \in Result /\ installed \in BOOLEAN
      /\ memory \in [Sites -> Bytes] /\ found \in [Sites -> Bytes]
      /\ applied \in Seq(AppliedPatch)
  BY DEF IInv, TransactionTypeOK
<1>2. /\ step.at = "verify" /\ step.site \in Sites /\ step.saved = found
      /\ Len(applied) = step.site
      /\ \A s \in Sites : s > step.site => memory[s] = found[s]
  BY DEF IInv, InstallInv, VerifySite
<1>3. UNCHANGED <<memory, found, applied>>
  BY DEF VerifySite
<1>4. MemoryInv' /\ SavedInv' /\ LengthInv' /\ OriginalsRecoverable'
  BY <1>3, QuietStep
<1>5. CASE step.site = N
  <2>1. Return("installed") /\ installed' = TRUE /\ "installed" \in Statuses
    BY <1>5 DEF VerifySite, Statuses
  <2>2. step' \in Step /\ result' \in Result /\ step'.at = "idle"
    BY <1>1, <2>1, ReturnTypes
  <2>3. InstallInv' /\ RestoreInv'
    BY <2>2 DEF InstallInv, RestoreInv
  <2> QED BY <1>0, <1>1, <1>3, <1>4, <2>1, <2>2, <2>3 DEF IInv, TransactionTypeOK
<1>6. CASE step.site # N
  <2>1. /\ step' = [step EXCEPT !.at = "write", !.site = step.site + 1]
        /\ UNCHANGED <<installed, result>>
    BY <1>6 DEF VerifySite
  <2>2. step.site + 1 \in Sites /\ step.site + 1 \in 0 .. N
    BY <1>2, <1>6, TransactionAssumption DEF Sites
  <2>3. step' \in Step /\ step'.at = "write" /\ step'.site = step.site + 1
        /\ step'.saved = step.saved
    BY <1>1, <2>1, <2>2 DEF Step
  <2>4. \A s \in Sites : s >= step.site + 1 => s > step.site
    BY <1>2 DEF Sites
  <2>5. Len(applied') = step'.site - 1
    BY <1>2, <1>3, <2>3 DEF Sites
  <2>6. InstallInv'
    BY <1>2, <1>3, <2>2, <2>3, <2>4, <2>5 DEF InstallInv
  <2>7. RestoreInv'
    BY <2>3 DEF RestoreInv
  <2> QED BY <1>0, <1>1, <1>3, <1>4, <2>1, <2>3, <2>6, <2>7 DEF IInv, TransactionTypeOK
<1> QED BY <1>5, <1>6

LEMMA RemoveStep == ASSUME IInv, Remove PROVE IInv'
<1>1. /\ step \in Step /\ applied \in Seq(AppliedPatch) /\ Len(applied) <= N
      /\ OriginalsRecoverable
  BY DEF IInv, TransactionTypeOK, LengthInv
<1>2. Len(applied) \in 0 .. N
  BY <1>1, LenProperties, TransactionAssumption
<1>3. step' \in Step /\ step'.at = "restore" /\ step'.site = Len(applied)
  BY <1>1, <1>2 DEF Remove, Step
<1>4. result' \in Result
  BY DEF Remove, NoResult, Result, Calls, Statuses
<1>5. UNCHANGED <<layout, memory, found, applied, installed>>
  BY DEF Remove
<1>6. InstallInv'
  BY <1>3 DEF InstallInv
<1>7. RestoreInv'
  BY <1>1, <1>2, <1>3, <1>5 DEF RestoreInv, OriginalsRecoverable
<1> QED BY <1>3, <1>4, <1>5, <1>6, <1>7, QuietStep, QuietType DEF IInv

\* Restoring a site makes it due no longer; failing to restore it is recorded.
LEMMA RestoreSiteStep == ASSUME IInv, RestoreSite PROVE IInv'
<1>0. layout' \in Layouts
  BY DEF IInv, TransactionTypeOK, RestoreSite
<1>1. /\ step \in Step /\ memory \in [Sites -> Bytes] /\ found \in [Sites -> Bytes]
      /\ applied \in Seq(AppliedPatch) /\ SavedInv
  BY DEF IInv, TransactionTypeOK
<1>2. /\ step.at = "restore" /\ step.site > 0 /\ step.site <= Len(applied)
      /\ UNCHANGED <<found, applied, installed, result>>
  BY DEF RestoreSite, IInv, RestoreInv
<1>3. step.site \in 1 .. Len(applied) /\ step.site \in 0 .. N
  BY <1>1, <1>2, LenProperties, TransactionAssumption DEF Step
<1> DEFINE site == applied[step.site].site
<1>4. site \in Sites /\ applied[step.site].original = found[site]
  <2>1. applied[step.site] \in AppliedPatch
    BY <1>1, <1>3, ElementOfSeq
  <2> QED BY <1>1, <1>3, <2>1 DEF SavedInv, AppliedPatch
<1>5. PICK bytes \in {memory[site], found[site]} \cup Damage :
         /\ memory' = [memory EXCEPT ![site] = bytes]
         /\ \/ /\ bytes = found[site]
               /\ step' = [step EXCEPT !.site = step.site - 1]
            \/ step' = [step EXCEPT !.site = step.site - 1, !.failed = TRUE]
  BY <1>4 DEF RestoreSite
<1>6. bytes \in {found[site], "replacement"} \cup Damage /\ bytes \in Bytes
  BY <1>1, <1>4, <1>5, TransactionAssumption DEF IInv, MemoryInv
<1>7. step.site - 1 \in 0 .. N /\ step.site - 1 <= Len(applied)
  BY <1>1, <1>3, LenProperties, TransactionAssumption
<1>8. step' \in Step /\ step'.at = "restore" /\ step'.site = step.site - 1
  BY <1>1, <1>2, <1>5, <1>7 DEF Step
<1>9. TransactionTypeOK'
  BY <1>0, <1>1, <1>2, <1>4, <1>5, <1>6, <1>8 DEF IInv, TransactionTypeOK
<1>10. MemoryInv' /\ SavedInv' /\ LengthInv'
  BY <1>1, <1>2, <1>4, <1>5, <1>6 DEF IInv, MemoryInv, SavedInv, LengthInv
<1>11. InstallInv'
  BY <1>8 DEF InstallInv
<1>12. OriginalsRecoverable'
  <2> SUFFICES ASSUME NEW s \in Sites, memory'[s] # found[s]
               PROVE  \E k \in 1 .. Len(applied) :
                        applied[k].site = s /\ applied[k].original = found[s]
    BY <1>2 DEF OriginalsRecoverable
  <2>1. CASE s = site
    BY <1>3, <1>4, <2>1
  <2>2. CASE s # site
    BY <1>1, <1>5, <2>2 DEF IInv, OriginalsRecoverable
  <2> QED BY <2>1, <2>2
<1>13. RestoreInv'
  <2> SUFFICES ASSUME ~step'.failed, NEW s \in Sites, memory'[s] # found[s]
               PROVE  \E k \in 1 .. step.site - 1 : applied[k].site = s
    BY <1>2, <1>7, <1>8 DEF RestoreInv
  <2>1. bytes = found[site] /\ ~step.failed
    BY <1>1, <1>5 DEF Step
  <2>2. s # site /\ memory[s] # found[s]
    BY <1>1, <1>4, <1>5, <2>1
  <2>3. PICK k \in 1 .. step.site : applied[k].site = s
    BY <1>2, <2>1, <2>2 DEF IInv, RestoreInv
  <2>4. k # step.site
    BY <2>2, <2>3
  <2> QED BY <1>3, <2>3, <2>4
<1> QED BY <1>9, <1>10, <1>11, <1>12, <1>13 DEF IInv

\* A restoration without a failure has nothing left due: only then is the list
\* of originals cleared.
LEMMA RestoreEndsStep == ASSUME IInv, RestoreEnds PROVE IInv'
<1>0. layout' \in Layouts
  BY DEF IInv, TransactionTypeOK, RestoreEnds
<1>1. /\ step \in Step /\ result \in Result /\ memory \in [Sites -> Bytes]
      /\ found \in [Sites -> Bytes] /\ applied \in Seq(AppliedPatch)
      /\ installed \in BOOLEAN
  BY DEF IInv, TransactionTypeOK
<1>2. step' \in Step /\ step'.at = "idle"
  BY <1>1 DEF RestoreEnds, Step
<1>3. result' \in Result
  BY <1>1 DEF RestoreEnds, Result, Step, Statuses
<1>4. UNCHANGED <<memory, found>>
  BY DEF RestoreEnds
<1>5. MemoryInv'
  BY <1>4 DEF IInv, MemoryInv
<1>6. installed' \in BOOLEAN /\ InstallInv' /\ RestoreInv'
  BY <1>2 DEF RestoreEnds, InstallInv, RestoreInv
<1>7. CASE step.failed
  <2>1. applied' = applied
    BY <1>7 DEF RestoreEnds
  <2>2. SavedInv' /\ LengthInv' /\ OriginalsRecoverable'
    BY <1>4, <2>1 DEF IInv, SavedInv, LengthInv, OriginalsRecoverable
  <2> QED BY <1>0, <1>1, <1>2, <1>3, <1>4, <1>5, <1>6, <2>1, <2>2 DEF IInv, TransactionTypeOK
<1>8. CASE ~step.failed
  <2>1. applied' = <<>> /\ step.site = 0
    BY <1>8 DEF RestoreEnds
  <2>2. \A s \in Sites : memory[s] = found[s]
    BY <1>8, <2>1 DEF RestoreEnds, IInv, RestoreInv
  <2>3. SavedInv' /\ LengthInv' /\ OriginalsRecoverable'
    BY <1>4, <2>1, <2>2, TransactionAssumption DEF SavedInv, LengthInv, OriginalsRecoverable
  <2>4. applied' \in Seq(AppliedPatch)
    BY <2>1, EmptySeq
  <2> QED BY <1>0, <1>1, <1>2, <1>3, <1>4, <1>5, <1>6, <2>3, <2>4 DEF IInv, TransactionTypeOK
<1> QED BY <1>7, <1>8

LEMMA NextInv == IInv /\ [TransactionNext]_transactionVars => IInv'
<1> SUFFICES ASSUME IInv, [TransactionNext]_transactionVars PROVE IInv'
  OBVIOUS
<1>1. CASE \E dryRun \in BOOLEAN : Install(dryRun)
  BY <1>1, InstallStep
<1>2. CASE TransactionStep
  BY <1>2, ValidationFailsStep, ValidationPassesStep, PreparationThrowsStep,
     WriteSiteStep, VerifyFailsStep, VerifySiteStep, RestoreSiteStep, RestoreEndsStep
     DEF TransactionStep
<1>3. CASE UNCHANGED transactionVars
  <2>1. UNCHANGED <<layout, memory, found, applied, installed, step, result>>
    BY <1>3 DEF transactionVars
  <2>2. TransactionTypeOK' /\ InstallInv' /\ RestoreInv'
    BY <2>1 DEF IInv, TransactionTypeOK, InstallInv, RestoreInv
  <2> QED BY <2>1, <2>2, QuietStep DEF IInv
<1> QED BY <1>1, <1>2, <1>3, RemoveStep DEF TransactionNext

\* For any number of patches, any pattern of failing accesses and any sequence
\* of calls, every site that does not hold the game's own bytes is remembered
\* with them, so remove() can still restore it.
THEOREM OriginalsNeverLost == TransactionSpec => [](TransactionTypeOK /\ OriginalsRecoverable)
<1>1. IInv => TransactionTypeOK /\ OriginalsRecoverable
  BY DEF IInv
<1> QED BY InitInv, NextInv, <1>1, PTL DEF TransactionSpec

-----------------------------------------------------------------------------
(* What a finished call reports, and an image that does not match. *)

\* Nothing was ever written, or every site matched once.
ForeignInv ==
    \/ memory = found /\ applied = <<>> /\ step.at \notin {"write", "verify"}
    \/ \A s \in Sites : found[s] \in Matching

\* While an install runs, the sites before the current one are patched.
PrefixInv ==
    step.at \in {"write", "verify"} =>
        \A s \in Sites : s < step.site => memory[s] = "replacement"

\* A running call is an install, or a removal that restores.
CallInv ==
    /\ step.at \notin {"idle", "restore"} => result.call = "install"
    /\ step.at = "restore" => result.call = "install" \/ result.status = "removed"
    /\ step.at # "idle" => result.status # "installed"

OutcomeInv == ForeignInv /\ PrefixInv /\ CallInv /\ OutcomeMatchesMemory

LEMMA OutcomeInit == TransactionInit => OutcomeInv
BY DEF TransactionInit, NoResult, OutcomeInv, ForeignInv, PrefixInv, CallInv,
       OutcomeMatchesMemory

LEMMA OutcomeInstall ==
  ASSUME IInv, OutcomeInv, NEW dryRun \in BOOLEAN, Install(dryRun) PROVE OutcomeInv'
<1>1. step \in Step
  BY DEF IInv, TransactionTypeOK
<1>2. step'.at \in {"idle", "validate"} /\ UNCHANGED <<memory, found, applied>>
  BY <1>1 DEF Install, Step
<1>3. result'.call = "install" /\ result'.status \in {"alreadyInstalled", "none"}
  BY DEF Install, NoResult
<1>4. ForeignInv' /\ PrefixInv'
  BY <1>2 DEF OutcomeInv, ForeignInv, PrefixInv
<1> QED BY <1>3, <1>4 DEF OutcomeInv, CallInv, OutcomeMatchesMemory

LEMMA OutcomeValidation ==
  ASSUME IInv, OutcomeInv, ValidationFails \/ ValidationPasses \/ PreparationThrows
  PROVE  OutcomeInv'
<1>1. /\ step \in Step /\ result \in Result /\ memory \in [Sites -> Bytes]
      /\ found \in [Sites -> Bytes] /\ UNCHANGED <<memory, found>>
      /\ step.at = "validate"
  BY DEF IInv, TransactionTypeOK, ValidationFails, ValidationPasses, PreparationThrows
<1>2. CASE ValidationFails
  <2>1. PICK status \in {"invalidDefinition", "outsideImage", "readFailed",
                      "expectedBytesMismatch"} : Return(status)
    BY <1>2 DEF ValidationFails
  <2>2. step'.at = "idle" /\ result'.status = status /\ applied' = applied
    BY <1>1, <1>2, <2>1 DEF Return, Step, Result, ValidationFails
  <2> QED BY <1>1, <2>2 DEF OutcomeInv, ForeignInv, PrefixInv, CallInv, OutcomeMatchesMemory
<1>3. CASE ValidationPasses
  <2>1. \A s \in Sites : found[s] \in Matching
    BY <1>3, MatchedIsFound DEF ValidationPasses
  <2>2. ForeignInv'
    BY <1>1, <2>1 DEF ForeignInv
  <2>3. CASE step.dryRun
    <3>1. step'.at = "idle" /\ result'.status = "dryRunCompatible"
      BY <1>1, <1>3, <2>3 DEF ValidationPasses, Step, Result
    <3> QED BY <2>2, <3>1 DEF OutcomeInv, PrefixInv, CallInv, OutcomeMatchesMemory
  <2>4. CASE ~step.dryRun
    <3>1. step'.at = "write" /\ step'.site = 1
      BY <1>1, <1>3, <2>4 DEF ValidationPasses, Step
    <3>2. result'.call = result.call /\ result'.status = result.status
      BY <1>1, <1>3, <2>4 DEF ValidationPasses, Result
    <3>3. PrefixInv'
      BY <3>1 DEF PrefixInv, Sites
    <3>4. CallInv' /\ OutcomeMatchesMemory'
      BY <1>1, <3>1, <3>2 DEF OutcomeInv, CallInv, OutcomeMatchesMemory
    <3> QED BY <2>2, <3>3, <3>4 DEF OutcomeInv
  <2> QED BY <2>3, <2>4
<1>4. CASE PreparationThrows
  <2>1. step'.at = "restore" /\ applied' = applied /\ result'.call = result.call
        /\ result'.status = "writeFailed"
    BY <1>1, <1>4 DEF PreparationThrows, RollBack, Step, Result
  <2>2. result.call = "install"
    BY <1>1 DEF OutcomeInv, CallInv
  <2> QED BY <1>1, <2>1, <2>2 DEF OutcomeInv, ForeignInv, PrefixInv, CallInv, OutcomeMatchesMemory
<1> QED BY <1>2, <1>3, <1>4

LEMMA OutcomeWrite == ASSUME IInv, OutcomeInv, WriteSite PROVE OutcomeInv'
<1>1. /\ step \in Step /\ result \in Result /\ memory \in [Sites -> Bytes]
      /\ found' = found /\ step.at = "write" /\ step.site \in Sites
      /\ result.call = "install"
  BY DEF IInv, TransactionTypeOK, InstallInv, WriteSite, OutcomeInv, CallInv
<1>2. ForeignInv'
  BY <1>1 DEF OutcomeInv, ForeignInv
<1>3. CASE RollBack("writeFailed", applied')
  <2>1. step'.at = "restore" /\ result'.call = "install" /\ result'.status = "writeFailed"
    BY <1>1, <1>3 DEF RollBack, Step, Result
  <2> QED BY <1>2, <2>1 DEF OutcomeInv, PrefixInv, CallInv, OutcomeMatchesMemory
<1>4. CASE /\ step' = [step EXCEPT !.at = "verify"]
           /\ result' = [result EXCEPT !.wrote = TRUE]
  <2>1. /\ step'.at = "verify" /\ step'.site = step.site /\ result'.call = "install"
        /\ result'.status = result.status /\ result.status # "installed"
    BY <1>1, <1>4 DEF Step, Result, OutcomeInv, CallInv
  <2>2. PICK bytes : memory' = [memory EXCEPT ![step.site] = bytes]
    BY DEF WriteSite
  <2>3. \A s \in Sites : s < step.site => memory'[s] = "replacement"
    BY <1>1, <2>2, TransactionAssumption DEF OutcomeInv, PrefixInv, Sites
  <2> QED BY <1>2, <2>1, <2>3 DEF OutcomeInv, PrefixInv, CallInv, OutcomeMatchesMemory
<1> QED BY <1>3, <1>4 DEF WriteSite

LEMMA OutcomeVerify ==
  ASSUME IInv, OutcomeInv, VerifyFails \/ VerifySite PROVE OutcomeInv'
<1>1. /\ step \in Step /\ result \in Result /\ step.at = "verify"
      /\ UNCHANGED <<memory, found, applied>> /\ step.site \in Sites
      /\ result.call = "install" /\ \A s \in Sites : found[s] \in Matching
  BY DEF IInv, TransactionTypeOK, InstallInv, VerifyFails, VerifySite, OutcomeInv,
         CallInv, ForeignInv
<1>2. ForeignInv'
  BY <1>1 DEF ForeignInv
<1>3. CASE VerifyFails
  <2>1. /\ step'.at = "restore" /\ result'.call = "install"
        /\ result'.status \in {"verificationFailed", "writeFailed"}
    BY <1>1, <1>3 DEF VerifyFails, RollBack, Step, Result
  <2> QED BY <1>2, <2>1 DEF OutcomeInv, PrefixInv, CallInv, OutcomeMatchesMemory
<1>4. CASE VerifySite /\ step.site = N
  <2>1. step'.at = "idle" /\ result'.status = "installed"
    BY <1>1, <1>4 DEF VerifySite, Return, Step, Result
  <2>2. \A s \in Sites : memory[s] = "replacement"
    BY <1>1, <1>4, TransactionAssumption DEF VerifySite, OutcomeInv, PrefixInv, Sites
  <2> QED BY <1>1, <1>2, <2>1, <2>2
        DEF OutcomeInv, PrefixInv, CallInv, OutcomeMatchesMemory
<1>5. CASE VerifySite /\ step.site # N
  <2>1. step'.at = "write" /\ step'.site = step.site + 1 /\ result' = result
    BY <1>1, <1>5 DEF VerifySite, Step
  <2>2. \A s \in Sites : s < step.site + 1 => memory[s] = "replacement"
    BY <1>1, <1>5, TransactionAssumption DEF VerifySite, OutcomeInv, PrefixInv, Sites
  <2> QED BY <1>1, <1>2, <2>1, <2>2
        DEF OutcomeInv, PrefixInv, CallInv, OutcomeMatchesMemory
<1> QED BY <1>3, <1>4, <1>5

LEMMA OutcomeRemove ==
  ASSUME IInv, OutcomeInv, Remove \/ RestoreSite PROVE OutcomeInv'
<1>1. /\ step \in Step /\ UNCHANGED <<found, applied>>
      /\ memory \in [Sites -> Bytes] /\ applied \in Seq(AppliedPatch)
  BY DEF IInv, TransactionTypeOK, Remove, RestoreSite
<1>2. /\ step'.at = "restore" /\ result'.status # "installed"
      /\ (result'.call = "install" \/ result'.status = "removed")
  BY <1>1 DEF Remove, RestoreSite, Step, NoResult, OutcomeInv, CallInv
<1>3. ForeignInv'
  <2>1. CASE Remove
    BY <1>1, <1>2, <2>1 DEF Remove, OutcomeInv, ForeignInv
  <2>2. CASE RestoreSite
    <3>1. step.site > 0 /\ step.site <= Len(applied)
      BY <2>2 DEF RestoreSite, IInv, RestoreInv
    <3>2. applied # <<>>
      BY <1>1, <3>1, EmptySeq DEF Step
    <3> QED BY <1>1, <3>2 DEF OutcomeInv, ForeignInv
  <2> QED BY <2>1, <2>2
<1> QED BY <1>2, <1>3 DEF OutcomeInv, PrefixInv, CallInv, OutcomeMatchesMemory

LEMMA OutcomeEnds == ASSUME IInv, OutcomeInv, RestoreEnds PROVE OutcomeInv'
<1>1. /\ step \in Step /\ result \in Result /\ memory \in [Sites -> Bytes]
      /\ found \in [Sites -> Bytes] /\ UNCHANGED <<memory, found>>
      /\ step.at = "restore" /\ step.site = 0
  BY DEF IInv, TransactionTypeOK, RestoreEnds
<1>2. step'.at = "idle" /\ (applied' = applied \/ applied' = <<>>)
  BY <1>1 DEF RestoreEnds, Step
<1>3. ForeignInv'
  BY <1>1, <1>2 DEF OutcomeInv, ForeignInv
<1>4. CASE step.failed
  <2>1. /\ result'.restored = FALSE
        /\ result'.status \in {"rollbackFailed", "removed"}
    BY <1>1, <1>4 DEF RestoreEnds, OutcomeInv, CallInv, Result
  <2> QED BY <1>2, <1>3, <2>1 DEF OutcomeInv, PrefixInv, CallInv, OutcomeMatchesMemory
<1>5. CASE ~step.failed
  <2>1. \A s \in Sites : memory[s] = found[s]
    BY <1>1, <1>5 DEF IInv, RestoreInv
  <2>2. memory' = found'
    BY <1>1, <2>1
  <2>3. result'.status = result.status
    BY <1>1, <1>5 DEF RestoreEnds, Result
  <2>4. result.status # "installed"
    BY <1>1 DEF OutcomeInv, CallInv
  <2> QED BY <1>2, <1>3, <2>2, <2>3, <2>4
        DEF OutcomeInv, PrefixInv, CallInv, OutcomeMatchesMemory
<1> QED BY <1>4, <1>5

LEMMA OutcomeNext == IInv /\ OutcomeInv /\ [TransactionNext]_transactionVars => OutcomeInv'
<1> SUFFICES ASSUME IInv, OutcomeInv, [TransactionNext]_transactionVars PROVE OutcomeInv'
  OBVIOUS
<1>1. CASE \E dryRun \in BOOLEAN : Install(dryRun)
  BY <1>1, OutcomeInstall
<1>2. CASE Remove
  BY <1>2, OutcomeRemove
<1>3. CASE TransactionStep
  BY <1>3, OutcomeValidation, OutcomeWrite, OutcomeVerify, OutcomeRemove, OutcomeEnds
     DEF TransactionStep
<1>4. CASE UNCHANGED transactionVars
  BY <1>4 DEF transactionVars, OutcomeInv, ForeignInv, PrefixInv, CallInv,
              OutcomeMatchesMemory
<1> QED BY <1>1, <1>2, <1>3, <1>4 DEF TransactionNext

\* What a call returns agrees with the game's memory, and an image with one
\* foreign site is left alone, for any number of patches.
THEOREM OutcomeHonest ==
  TransactionSpec => [](OutcomeMatchesMemory /\ ForeignImageUntouched)
<1>1. IInv /\ OutcomeInv => OutcomeMatchesMemory /\ ForeignImageUntouched
  BY DEF OutcomeInv, ForeignInv, ForeignImageUntouched
<1> QED BY InitInv, NextInv, OutcomeInit, OutcomeNext, <1>1, PTL DEF TransactionSpec

-----------------------------------------------------------------------------
(* No write leaves the image. *)

\* Nothing was ever written, or the bounds check passed for every site.
ImageInv ==
    \/ memory = found /\ applied = <<>> /\ step.at \notin {"write", "verify"}
    \/ \A s \in Sites : InImage(s)

LEMMA ImageInit == TransactionInit => ImageInv
BY DEF TransactionInit, ImageInv

LEMMA LayoutFixed == [TransactionNext]_transactionVars => layout' = layout
BY DEF TransactionNext, TransactionStep, transactionVars, Install, Remove, ValidationFails,
       ValidationPasses, PreparationThrows, WriteSite, VerifyFails, VerifySite,
       RestoreSite, RestoreEnds

LEMMA ImageNext == IInv /\ ImageInv /\ [TransactionNext]_transactionVars => ImageInv'
<1> SUFFICES ASSUME IInv, ImageInv, [TransactionNext]_transactionVars PROVE ImageInv'
  OBVIOUS
<1>1. step \in Step /\ applied \in Seq(AppliedPatch)
  BY DEF IInv, TransactionTypeOK
<1>2. CASE \A s \in Sites : InImage(s)
  BY <1>2, LayoutFixed DEF ImageInv, InImage
<1>3. CASE memory = found /\ applied = <<>> /\ step.at \notin {"write", "verify"}
  <2>1. CASE ValidationPasses
    BY <2>1 DEF ValidationPasses, ImageInv, InImage
  <2>2. CASE RestoreSite
    <3>1. step.site > 0 /\ step.site <= Len(applied)
      BY <2>2 DEF RestoreSite, IInv, RestoreInv
    <3>2. Len(applied) = 0
      BY <1>1, <1>3, EmptySeq
    <3> QED BY <1>1, <3>1, <3>2 DEF Step
  <2>3. CASE RestoreEnds
    <3>1. step'.at = "idle" /\ applied' = <<>> /\ UNCHANGED <<memory, found>>
      BY <1>1, <1>3, <2>3 DEF RestoreEnds, Step
    <3> QED BY <1>3, <3>1 DEF ImageInv
  <2>4. CASE (\E dryRun \in BOOLEAN : Install(dryRun)) \/ Remove
    BY <1>1, <1>3, <2>4 DEF Install, Remove, Step, ImageInv
  <2>5. CASE ValidationFails \/ PreparationThrows
    BY <1>1, <1>3, <2>5 DEF ValidationFails, PreparationThrows, Return, RollBack, Step, ImageInv
  <2>6. CASE WriteSite \/ VerifyFails \/ VerifySite
    BY <1>3, <2>6 DEF WriteSite, VerifyFails, VerifySite
  <2>7. CASE UNCHANGED transactionVars
    BY <1>3, <2>7 DEF transactionVars, ImageInv
  <2> QED BY <2>1, <2>2, <2>3, <2>4, <2>5, <2>6, <2>7 DEF TransactionNext, TransactionStep
<1> QED BY <1>2, <1>3 DEF ImageInv

LEMMA WritesInside == IInv /\ ImageInv => WritesStayInImage
<1> SUFFICES ASSUME IInv, ImageInv, NEW s \in Sites,
                    \/ memory[s] # found[s]
                    \/ \E k \in 1 .. Len(applied) : applied[k].site = s
             PROVE  InsideImage(layout.patches[s], layout.image)
  BY DEF WritesStayInImage
<1>1. layout.image \in Span /\ layout.patches[s] \in Span
  <2>1. layout \in [image : Span, patches : [Sites -> Span]]
    BY TransactionAssumption DEF IInv, TransactionTypeOK
  <2> QED BY <2>1
<1>2. ~(memory = found /\ applied = <<>>)
  <2>1. applied = <<>> => Len(applied) = 0
    BY EmptySeq
  <2> QED BY <2>1
<1>3. Accepts(layout.patches[s], layout.image)
  BY <1>2 DEF ImageInv, InImage
<1> QED BY <1>1, <1>3, RangeCheckExact

\* For any number of patches, images and patches anywhere in the address space and
\* machine words of any size, no byte outside the image is ever written or waits to
\* be written by a removal: the sums of the bounds check that wrap let nothing through.
THEOREM WritesContained == TransactionSpec => []WritesStayInImage
BY InitInv, NextInv, ImageInit, ImageNext, WritesInside, PTL DEF TransactionSpec

-----------------------------------------------------------------------------
(* The hook. *)

\* A found site holds no replacement.
FoundInv == \A s \in Sites : found[s] # "replacement"

\* The transaction under the hook.
CallSiteInv == OneCallSite /\ IInv /\ OutcomeInv /\ ImageInv /\ FoundInv

Busy == {"installing", "stopping"}

Control == [at : ControlPoints, status : ObserverStatuses, wrote : BOOLEAN,
            dryRun : BOOLEAN, silenced : BOOLEAN, stopped : BOOLEAN]

\* The worker: the transaction runs only inside a call; from the moment it is prepared
\* the callback knows the game's own function; the observer is active only between an
\* install and the removal that follows it.
ControlInv ==
    /\ control \in Control
    /\ activeObserver \in BOOLEAN /\ originalGameProcess \in BOOLEAN
    /\ control.at \notin Busy => step.at = "idle"
    /\ step.at \notin {"idle", "restore"} => originalGameProcess
    /\ control.at \in {"validated", "installing"} => originalGameProcess
    /\ activeObserver => control.at \in {"ready", "stopListener", "stopActive"}
    /\ control.at = "installing" /\ step.at = "idle" /\ result.status = "installed" => installed

FrameInv == frame \in [at : FramePoints, ran : BOOLEAN, late : BOOLEAN]

HookInv ==
    /\ CallSiteInv
    /\ ControlInv
    /\ FrameInv
    /\ GameFunctionNeverSkipped
    /\ ActiveOnlyWhileHooked

-----------------------------------------------------------------------------
(* The bytes of the call site. *)

LEMMA OneSite == OneCallSite => Sites = {1} /\ Damage = {}
BY DEF OneCallSite, Sites

LEMMA CallSiteInit == OneCallSite /\ TransactionInit => CallSiteInv
<1>1. TransactionInit => FoundInv
  BY DEF TransactionInit, FoundInv
<1> QED BY <1>1, InitInv, OutcomeInit, ImageInit DEF CallSiteInv

LEMMA FoundFixed == [TransactionNext]_transactionVars => found' = found
BY DEF TransactionNext, TransactionStep, transactionVars, Install, Remove, ValidationFails,
       ValidationPasses, PreparationThrows, WriteSite, VerifyFails, VerifySite,
       RestoreSite, RestoreEnds

LEMMA CallSiteStep == CallSiteInv /\ [TransactionNext]_transactionVars => CallSiteInv'
<1>1. CallSiteInv /\ [TransactionNext]_transactionVars => FoundInv'
  BY FoundFixed DEF CallSiteInv, FoundInv
<1> QED BY <1>1, NextInv, OutcomeNext, ImageNext DEF CallSiteInv

\* Only the writing step of an install puts the replacement there.
LEMMA ReplacementWritten ==
  ASSUME CallSiteInv, TransactionStep, memory[1] # "replacement", memory'[1] = "replacement"
  PROVE  step.at = "write"
<1>1. CASE RestoreSite
  <2>1. /\ step.site > 0 /\ step.site <= Len(applied) /\ step \in Step
        /\ applied \in Seq(AppliedPatch) /\ memory \in [Sites -> Bytes] /\ SavedInv
    BY <1>1 DEF RestoreSite, CallSiteInv, IInv, RestoreInv, TransactionTypeOK
  <2>2. step.site \in 1 .. Len(applied)
    BY <2>1, LenProperties DEF Step
  <2>3. applied[step.site] \in AppliedPatch
    BY <2>1, <2>2, ElementOfSeq
  <2>4. applied[step.site].site = 1 /\ applied[step.site].original = found[1]
    BY <2>1, <2>2, <2>3, OneSite DEF AppliedPatch, SavedInv, CallSiteInv
  <2>5. \E bytes \in {memory[1], found[1]} : memory' = [memory EXCEPT ![1] = bytes]
    BY <1>1, <2>4, OneSite DEF RestoreSite, CallSiteInv
  <2>6. memory'[1] \in {memory[1], found[1]}
    BY <2>1, <2>5, OneSite DEF CallSiteInv
  <2>7. found[1] # "replacement"
    BY OneSite DEF CallSiteInv, FoundInv
  <2> QED BY <2>6, <2>7
<1>2. CASE WriteSite
  BY <1>2 DEF WriteSite
<1> QED BY <1>1, <1>2 DEF TransactionStep, ValidationFails, ValidationPasses,
           PreparationThrows, VerifyFails, VerifySite, RestoreEnds

-----------------------------------------------------------------------------
(* The worker thread. *)

LEMMA HookInitInv == OneCallSite /\ HookInit => HookInv
<1> SUFFICES ASSUME OneCallSite, HookInit PROVE HookInv
  OBVIOUS
<1>1. CallSiteInv
  BY CallSiteInit DEF HookInit
<1>2. step.at = "idle" /\ memory = found /\ found \in [Sites -> {"original", "foreign"}]
  BY DEF HookInit, TransactionInit
<1>3. ControlInv
  BY <1>2 DEF HookInit, Control, ControlInv, ControlPoints, ObserverStatuses, Busy
<1>4. FrameInv /\ ActiveOnlyWhileHooked
  BY DEF HookInit, FrameInv, FramePoints, ActiveOnlyWhileHooked
<1>5. memory[1] # "replacement"
  BY <1>2, OneSite
<1>6. GameFunctionNeverSkipped
  BY <1>5 DEF HookInit, GameFunctionNeverSkipped, In
<1> QED BY <1>1, <1>3, <1>4, <1>6 DEF HookInv

\* A step of the worker that leaves the call site and the atomics alone.
LEMMA QuietWorker ==
  ASSUME HookInv, UNCHANGED <<transactionVars, activeObserver, originalGameProcess, frame>>,
         control' \in Control,
         step.at = "idle", control'.at \notin Busy \cup {"validated"},
         activeObserver => control'.at \in {"ready", "stopListener", "stopActive"}
  PROVE  HookInv'
<1>1. CallSiteInv'
  BY CallSiteStep DEF HookInv
<1>2. ControlInv'
  BY DEF HookInv, ControlInv, Busy, transactionVars
<1>3. FrameInv' /\ GameFunctionNeverSkipped' /\ ActiveOnlyWhileHooked'
  BY DEF HookInv, FrameInv, GameFunctionNeverSkipped, ActiveOnlyWhileHooked, In,
         transactionVars
<1> QED BY <1>1, <1>2, <1>3 DEF HookInv

LEMMA WorkerQuietly ==
  ASSUME HookInv,
         \/ WireListener \/ InstallRefused \/ CreateObserver
         \/ \E dryRun \in BOOLEAN : CallStart(dryRun)
         \/ ProfileMismatch \/ PatchUnusable
         \/ InstallFailed \/ CallStop \/ ForgetListener \/ StopReturned
  PROVE  HookInv'
<1>1. UNCHANGED <<transactionVars, activeObserver, originalGameProcess, frame>>
  BY DEF WireListener, InstallRefused, CreateObserver, CallStart, ProfileMismatch,
         PatchUnusable, InstallFailed, CallStop, ForgetListener, StopReturned, atomics
<1>2. step.at = "idle"
  BY DEF WireListener, InstallRefused, CreateObserver, CallStart, ProfileMismatch,
         PatchUnusable, InstallFailed, InstallReturned, CallStop, ForgetListener,
         StopReturned, At, HookInv, ControlInv, Busy
<1>3. control \in Control /\ result.wrote \in BOOLEAN
      /\ (activeObserver => control.at \in {"ready", "stopListener", "stopActive"})
  BY DEF HookInv, ControlInv, CallSiteInv, IInv, TransactionTypeOK, Result
<1>4. /\ control' \in Control
      /\ control'.at \notin Busy \cup {"validated"}
      /\ activeObserver => control'.at \in {"ready", "stopListener", "stopActive"}
  <2> USE <1>3 DEF Control, ControlPoints, ObserverStatuses, Busy, At
  <2>1. CASE WireListener \/ CreateObserver \/ CallStop
    BY <2>1 DEF WireListener, CreateObserver, CallStop, Go
  <2>2. CASE InstallRefused
    BY <2>2 DEF InstallRefused
  <2>3. CASE \E dryRun \in BOOLEAN : CallStart(dryRun)
    BY <2>3 DEF CallStart
  <2>4. CASE ProfileMismatch \/ PatchUnusable \/ StopReturned
    BY <2>4 DEF ProfileMismatch, PatchUnusable, StopReturned, Finish
  <2>5. CASE InstallFailed
    BY <2>5 DEF InstallFailed, InstallReturned
  <2>6. CASE ForgetListener
    BY <2>6 DEF ForgetListener
  <2> QED BY <2>1, <2>2, <2>3, <2>4, <2>5, <2>6
<1> QED BY <1>1, <1>2, <1>4, QuietWorker

\* The game's function is published before there is anything that leads to the callback.
LEMMA Preparing == ASSUME HookInv, PreparePatch \/ PrepareThrows PROVE HookInv'
<1>1. /\ control.at = "started" /\ originalGameProcess' = TRUE
      /\ UNCHANGED <<transactionVars, activeObserver, frame>>
      /\ \/ control' = [control EXCEPT !.at = "validated"]
         \/ control' = [control EXCEPT !.at = "ready", !.status = "failed"]
  BY DEF PreparePatch, PrepareThrows, At, Go, Finish
<1>2. step.at = "idle" /\ ~activeObserver /\ control \in Control
  BY <1>1 DEF HookInv, ControlInv, Busy
<1>3. CallSiteInv'
  BY <1>1, CallSiteStep DEF HookInv
<1>4. control' \in Control /\ control'.at \in {"validated", "ready"}
  BY <1>1, <1>2 DEF Control, ControlPoints, ObserverStatuses
<1>5. ControlInv'
  BY <1>1, <1>2, <1>4 DEF HookInv, ControlInv, Busy, transactionVars
<1>6. FrameInv' /\ GameFunctionNeverSkipped' /\ ActiveOnlyWhileHooked'
  BY <1>1 DEF HookInv, FrameInv, GameFunctionNeverSkipped, ActiveOnlyWhileHooked, In,
              transactionVars
<1> QED BY <1>3, <1>5, <1>6 DEF HookInv

LEMMA Calling ==
  ASSUME HookInv, BeginInstall \/ Deactivate PROVE HookInv'
<1>1. /\ \A dryRun \in BOOLEAN : Install(dryRun) => UNCHANGED <<memory, installed>>
      /\ Remove => UNCHANGED <<memory, installed>>
  BY DEF Install, Remove
<1>2. /\ control \in Control
      /\ activeObserver \in BOOLEAN /\ originalGameProcess \in BOOLEAN
      /\ step \in Step
  BY DEF HookInv, ControlInv, CallSiteInv, IInv, TransactionTypeOK
<1>3. TransactionNext
  BY <1>2 DEF Control, BeginInstall, Deactivate, TransactionNext
<1>4. CallSiteInv'
  BY <1>3, CallSiteStep DEF HookInv
<1>5. CASE BeginInstall
  <2>1. /\ control.at = "validated" /\ control' = [control EXCEPT !.at = "installing"]
        /\ Install(control.dryRun) /\ control.dryRun \in BOOLEAN
        /\ UNCHANGED <<activeObserver, originalGameProcess, frame>>
    BY <1>2, <1>5 DEF Control, BeginInstall, At, Go, atomics
  <2>2. UNCHANGED <<memory, installed>> /\ result'.status \in {"alreadyInstalled", "none"}
    BY <1>1, <2>1 DEF Install, NoResult
  <2>3. originalGameProcess /\ ~activeObserver
    BY <2>1 DEF HookInv, ControlInv
  <2>4. ControlInv'
    BY <1>2, <2>1, <2>2, <2>3 DEF Control, ControlInv, ControlPoints, Busy
  <2>5. FrameInv' /\ GameFunctionNeverSkipped' /\ ActiveOnlyWhileHooked'
    BY <2>1, <2>2 DEF HookInv, FrameInv, GameFunctionNeverSkipped, ActiveOnlyWhileHooked, In
  <2> QED BY <1>4, <2>4, <2>5 DEF HookInv
<1>6. CASE Deactivate
  <2>1. /\ control' = [control EXCEPT !.at = "stopping", !.stopped = TRUE]
        /\ activeObserver' = FALSE /\ Remove
        /\ UNCHANGED <<memory, installed, originalGameProcess, frame>>
    BY <1>1, <1>6 DEF Deactivate
  <2>2. step'.at = "restore"
    BY <1>2, <2>1 DEF Remove, Step
  <2>3. ControlInv'
    BY <1>2, <2>1, <2>2 DEF Control, ControlInv, ControlPoints, Busy
  <2>4. FrameInv' /\ GameFunctionNeverSkipped' /\ ActiveOnlyWhileHooked'
    BY <2>1 DEF HookInv, FrameInv, GameFunctionNeverSkipped, ActiveOnlyWhileHooked, In
  <2> QED BY <1>4, <2>3, <2>4 DEF HookInv
<1> QED BY <1>5, <1>6

\* What a running call does next.
LEMMA Accessing == ASSUME HookInv, AccessMemory PROVE HookInv'
<1>1. /\ TransactionStep /\ control.at \in Busy
      /\ UNCHANGED <<control, activeObserver, originalGameProcess, frame>>
  BY DEF AccessMemory, At, Busy, hookVars
<1>2. CallSiteInv'
  BY <1>1, CallSiteStep DEF HookInv, TransactionNext
<1>3. /\ step \in Step /\ result \in Result /\ CallInv /\ step.at # "idle"
  BY <1>1 DEF HookInv, CallSiteInv, IInv, TransactionTypeOK, OutcomeInv, TransactionStep,
              ValidationFails, ValidationPasses, PreparationThrows, WriteSite, VerifyFails,
              VerifySite, RestoreSite, RestoreEnds
<1>4. step'.at \notin {"idle", "restore"} => step.at \notin {"idle", "restore"}
  <2>1. CASE RestoreSite \/ RestoreEnds
    BY <1>3, <2>1 DEF RestoreSite, RestoreEnds, Step
  <2>2. CASE ~(RestoreSite \/ RestoreEnds)
    BY <1>1, <1>3, <2>2 DEF TransactionStep, ValidationFails, ValidationPasses,
       PreparationThrows, WriteSite, VerifyFails, VerifySite
  <2> QED BY <2>1, <2>2
<1>5. step'.at = "idle" /\ result'.status = "installed" => installed'
  <2>1. result.status # "installed"
    BY <1>3 DEF CallInv
  <2>2. CASE VerifySite
    BY <1>3, <2>1, <2>2 DEF VerifySite, Return, Step, Result
  <2>3. CASE ValidationFails
    <3>1. PICK status \in Statuses \ {"installed"} : result' = [result EXCEPT !.status = status]
      BY <2>3 DEF ValidationFails, Return, Statuses
    <3> QED BY <1>3, <3>1 DEF Result
  <2>4. CASE ValidationPasses
    BY <1>3, <2>1, <2>4 DEF ValidationPasses, Step, Result
  <2>5. CASE PreparationThrows \/ VerifyFails
    <3>1. \E status \in Statuses, patches \in Seq(AppliedPatch) : RollBack(status, patches)
      BY <2>5 DEF PreparationThrows, VerifyFails, Statuses, HookInv, CallSiteInv, IInv,
                  TransactionTypeOK
    <3> QED BY <1>3, <3>1 DEF RollBack, Step
  <2>6. CASE WriteSite
    BY <1>3, <2>1, <2>6 DEF WriteSite, RollBack, Step, Result
  <2>7. CASE RestoreSite \/ RestoreEnds
    BY <1>3, <2>1, <2>7 DEF RestoreSite, RestoreEnds, Result
  <2> QED BY <1>1, <2>2, <2>3, <2>4, <2>5, <2>6, <2>7 DEF TransactionStep
<1>6. ControlInv'
  BY <1>1, <1>3, <1>4, <1>5 DEF HookInv, ControlInv
<1>7. ActiveOnlyWhileHooked'
  BY <1>1 DEF HookInv, ControlInv, ActiveOnlyWhileHooked, Busy
<1>8. memory'[1] = "replacement" => originalGameProcess
  <2>1. CASE memory[1] = "replacement"
    BY <2>1 DEF HookInv, GameFunctionNeverSkipped
  <2>2. CASE memory[1] # "replacement" /\ memory'[1] = "replacement"
    BY <1>1, <2>2, ReplacementWritten DEF HookInv, ControlInv
  <2> QED BY <2>1, <2>2
<1>9. FrameInv' /\ GameFunctionNeverSkipped'
  BY <1>1, <1>8 DEF HookInv, FrameInv, GameFunctionNeverSkipped, In
<1> QED BY <1>2, <1>6, <1>7, <1>9 DEF HookInv

LEMMA Succeeding == ASSUME HookInv, InstallSucceeded PROVE HookInv'
<1>1. /\ control.at = "installing" /\ step.at = "idle" /\ result.status = "installed"
      /\ control' = [control EXCEPT !.at = "ready", !.status = "installed",
                                    !.wrote = result.wrote]
      /\ activeObserver' = TRUE
      /\ UNCHANGED <<transactionVars, originalGameProcess, frame>>
  BY DEF InstallSucceeded, InstallReturned, At
<1>2. installed /\ memory[1] = "replacement"
  BY <1>1, OneSite DEF HookInv, ControlInv, CallSiteInv, OutcomeInv, OutcomeMatchesMemory
<1>3. CallSiteInv'
  BY <1>1, CallSiteStep DEF HookInv
<1>4. ControlInv'
  <2>1. result.wrote \in BOOLEAN
    BY DEF HookInv, CallSiteInv, IInv, TransactionTypeOK, Result
  <2> QED BY <1>1, <2>1 DEF HookInv, Control, ControlInv, ControlPoints, ObserverStatuses,
                            Busy, transactionVars
<1>5. FrameInv' /\ GameFunctionNeverSkipped' /\ ActiveOnlyWhileHooked'
  BY <1>1, <1>2 DEF HookInv, FrameInv, GameFunctionNeverSkipped, ActiveOnlyWhileHooked, In,
                    transactionVars
<1> QED BY <1>3, <1>4, <1>5 DEF HookInv

-----------------------------------------------------------------------------
(* The game thread. *)

LEMMA Playing == ASSUME HookInv, GameNext \/ UNCHANGED vars PROVE HookInv'
<1>1. UNCHANGED <<transactionVars, control, activeObserver, originalGameProcess>>
  BY DEF GameNext, BeginFrame, RunOriginal, LoadObserver, Capture, Publish, LoadListener,
         Deliver, atomics, vars, hookVars
<1>2. CallSiteInv'
  BY <1>1, CallSiteStep DEF HookInv
<1>3. ControlInv' /\ ActiveOnlyWhileHooked'
  BY <1>1 DEF HookInv, ControlInv, ActiveOnlyWhileHooked, transactionVars
<1>4. FrameInv /\ (frame.ran \/ In("callback")) /\ (In("callback") => originalGameProcess)
      /\ (memory[1] = "replacement" => originalGameProcess)
  BY DEF HookInv, GameFunctionNeverSkipped
<1>5. FrameInv' /\ (frame'.ran \/ frame'.at = "callback")
      /\ (frame'.at = "callback" => originalGameProcess)
  <2>1. CASE BeginFrame
    BY <1>4, <2>1 DEF BeginFrame, FrameInv, FramePoints, In
  <2>2. CASE RunOriginal
    <3>1. originalGameProcess = TRUE
      BY <1>4, <2>2 DEF RunOriginal, HookInv, ControlInv
    <3>2. frame' = [frame EXCEPT !.at = "original", !.ran = TRUE]
      BY <2>2, <3>1 DEF RunOriginal
    <3>3. frame'.at = "original" /\ frame'.ran = TRUE /\ FrameInv'
      <4> DEFINE Shape == [at : FramePoints, ran : BOOLEAN, late : BOOLEAN]
      <4>1. frame \in Shape
        BY <1>4 DEF FrameInv
      <4>2. frame'.at = "original" /\ frame'.ran = TRUE
        BY <3>2, <4>1
      <4>3. frame' \in Shape
        BY <3>2, <4>1 DEF FramePoints
      <4> QED BY <4>2, <4>3 DEF FrameInv
    <3>4. frame'.ran /\ frame'.at # "callback"
      BY <3>3
    <3> QED BY <3>3, <3>4
  <2>3. CASE LoadObserver \/ Capture \/ Publish \/ LoadListener \/ Deliver
    <3>0. control.silenced \in BOOLEAN /\ control.stopped \in BOOLEAN
      BY DEF HookInv, ControlInv, Control
    <3>1. frame.at # "callback"
      BY <2>3 DEF LoadObserver, Capture, Publish, LoadListener, Deliver, In
    <3>2. frame.ran
      BY <1>4, <3>1 DEF In
    <3>3. \/ \E point \in FramePoints \ {"callback"} : frame' = [frame EXCEPT !.at = point]
          \/ \E point \in FramePoints \ {"callback"}, late \in BOOLEAN :
                frame' = [frame EXCEPT !.at = point, !.late = late]
      BY <2>3, <3>0 DEF LoadObserver, Capture, Publish, LoadListener, Deliver, FrameGoes,
         FramePoints
    <3>4. frame \in [at : FramePoints, ran : BOOLEAN, late : BOOLEAN]
      BY <1>4 DEF FrameInv
    <3>5. FrameInv' /\ frame'.ran = frame.ran /\ frame'.at # "callback"
      BY <3>3, <3>4 DEF FrameInv
    <3> QED BY <3>2, <3>5
  <2>4. CASE UNCHANGED vars
    BY <1>4, <2>4 DEF vars, hookVars, FrameInv, In
  <2> QED BY <2>1, <2>2, <2>3, <2>4 DEF GameNext
<1>6. GameFunctionNeverSkipped'
  BY <1>1, <1>4, <1>5 DEF GameFunctionNeverSkipped, In, transactionVars
<1> QED BY <1>2, <1>3, <1>5, <1>6 DEF HookInv

LEMMA HookNextInv == HookInv /\ [HookNext]_vars => HookInv'
<1> SUFFICES ASSUME HookInv, [HookNext]_vars PROVE HookInv'
  OBVIOUS
<1>1. CASE WorkerNext
  BY <1>1, WorkerQuietly, Preparing, Calling, Accessing, Succeeding DEF WorkerNext
<1>2. CASE GameNext \/ UNCHANGED vars
  BY <1>2, Playing
<1> QED BY <1>1, <1>2 DEF HookNext

\* In every interleaving of the two threads, for any number of frames and whatever
\* fails: a frame that goes through the callback has run the game's own function first.
THEOREM GameFunctionAlwaysRuns ==
  ASSUME OneCallSite PROVE HookSpec => []GameFunctionNeverSkipped
<1>1. HookInv => GameFunctionNeverSkipped
  BY DEF HookInv
<1> QED BY HookInitInv, HookNextInv, <1>1, PTL DEF HookSpec

\* The observer is active only while its patch is in place.
THEOREM CapturesOnlyWhileHooked ==
  ASSUME OneCallSite PROVE HookSpec => []ActiveOnlyWhileHooked
<1>1. HookInv => ActiveOnlyWhileHooked
  BY DEF HookInv
<1> QED BY HookInitInv, HookNextInv, <1>1, PTL DEF HookSpec

\* Starting the observer and stopping it as often as its owner tries loses no original
\* byte either, and each call reports what the memory holds and writes inside the image
\* only.
THEOREM HookKeepsOriginals ==
  ASSUME OneCallSite
  PROVE  HookSpec => [](OriginalsRecoverable /\ OutcomeMatchesMemory /\ WritesStayInImage)
<1>1. HookInv => OriginalsRecoverable /\ OutcomeMatchesMemory /\ WritesStayInImage
  BY WritesInside DEF HookInv, CallSiteInv, IInv, OutcomeInv
<1> QED BY HookInitInv, HookNextInv, <1>1, PTL DEF HookSpec

-----------------------------------------------------------------------------
(* The snapshots. *)

\* Where the worker may be once it has begun to stop.
Over == {"ready", "stopListener", "stopActive", "stopping"}

\* A worker that has taken the listener or the observer away leaves none behind, and
\* never comes back to where one is set.
Silenced ==
    /\ control.silenced => ~listener /\ control.at \in Over
    /\ control.stopped => ~activeObserver /\ control.at \in Over

\* The numbers along a frame; and one that has found what it looked for was not late.
NumberInv ==
    /\ sequence \in Nat /\ published \in Nat /\ delivered \in Nat
    /\ delivered <= sequence /\ published <= sequence
    /\ In("publish") \/ In("load") \/ In("deliver") => delivered < sequence
    /\ In("load") \/ In("deliver") => published = sequence
    /\ In("capture") \/ In("deliver") => ~frame.late
    /\ Silenced

LEMMA NumberInit == HookInit => NumberInv
BY DEF HookInit, NumberInv, Silenced, In

LEMMA NumberWorker == ASSUME HookInv, NumberInv, WorkerNext PROVE NumberInv'
<1>1. UNCHANGED <<sequence, published, delivered, frame>>
  BY DEF WorkerNext, WireListener, InstallRefused, CreateObserver, CallStart,
         ProfileMismatch, PatchUnusable, PrepareThrows, PreparePatch, BeginInstall,
         AccessMemory, InstallSucceeded, InstallFailed, CallStop, ForgetListener,
         Deactivate, StopReturned, captured, hookVars
<1>2. control \in Control /\ Silenced
  BY DEF HookInv, ControlInv, NumberInv
<1>3. Silenced'
  <2>1. CASE control.at \notin Over /\ control'.silenced = control.silenced
             /\ control'.stopped = control.stopped
    <3>1. ~control'.silenced /\ ~control'.stopped
      BY <1>2, <2>1 DEF Silenced
    <3> QED BY <3>1 DEF Silenced
  <2>2. CASE WireListener \/ InstallRefused \/ CreateObserver
               \/ (\E dryRun \in BOOLEAN : CallStart(dryRun)) \/ ProfileMismatch
               \/ PatchUnusable \/ PrepareThrows \/ PreparePatch \/ BeginInstall
               \/ InstallSucceeded \/ InstallFailed
    <3>1. control.at \notin Over
      BY <2>2 DEF Over, At, WireListener, InstallRefused, CreateObserver, CallStart,
         ProfileMismatch, PatchUnusable, PrepareThrows, PreparePatch, BeginInstall,
         InstallSucceeded, InstallFailed, InstallReturned
    <3>2. control'.silenced = control.silenced /\ control'.stopped = control.stopped
      <4>1. CASE WireListener \/ CreateObserver \/ PreparePatch \/ BeginInstall
        BY <1>2, <4>1 DEF WireListener, CreateObserver, PreparePatch, BeginInstall, Go, Control
      <4>2. CASE InstallRefused \/ (\E dryRun \in BOOLEAN : CallStart(dryRun))
        BY <1>2, <4>2 DEF InstallRefused, CallStart, Control
      <4>3. CASE ProfileMismatch \/ PatchUnusable \/ PrepareThrows
        BY <1>2, <4>3 DEF ProfileMismatch, PatchUnusable, PrepareThrows, Finish, Control
      <4>4. CASE InstallSucceeded \/ InstallFailed
        BY <1>2, <4>4 DEF InstallSucceeded, InstallFailed, InstallReturned, Control
      <4> QED BY <2>2, <4>1, <4>2, <4>3, <4>4
    <3> QED BY <2>1, <3>1, <3>2
  <2>3. CASE AccessMemory
    <3>1. UNCHANGED <<control, listener, activeObserver>>
      BY <2>3 DEF AccessMemory, hookVars
    <3> QED BY <1>2, <3>1 DEF Silenced
  <2>4. CASE CallStop \/ StopReturned
    <3>1. UNCHANGED <<listener, activeObserver>> /\ control'.at \in Over
          /\ control'.silenced = control.silenced /\ control'.stopped = control.stopped
      BY <1>2, <2>4 DEF CallStop, StopReturned, Go, Finish, atomics, Control, Over
    <3> QED BY <1>2, <3>1 DEF Silenced
  <2>5. CASE ForgetListener
    <3>1. listener' = FALSE /\ activeObserver' = activeObserver /\ control'.at \in Over
          /\ control'.stopped = control.stopped
      BY <1>2, <2>5 DEF ForgetListener, Control, Over
    <3> QED BY <1>2, <3>1 DEF Silenced
  <2>6. CASE Deactivate
    <3>1. listener' = listener /\ activeObserver' = FALSE /\ control'.at \in Over
          /\ control'.silenced = control.silenced
      BY <1>2, <2>6 DEF Deactivate, Control, Over
    <3> QED BY <1>2, <3>1 DEF Silenced
  <2> QED BY <2>2, <2>3, <2>4, <2>5, <2>6 DEF WorkerNext
<1> QED BY <1>1, <1>3 DEF NumberInv, In

LEMMA NumberGame == ASSUME HookInv, NumberInv, GameNext \/ UNCHANGED vars PROVE NumberInv'
<1>1. UNCHANGED <<control, listener, activeObserver>>
  BY DEF GameNext, BeginFrame, RunOriginal, LoadObserver, Capture, Publish, LoadListener,
         Deliver, atomics, vars, hookVars
<1>2. frame \in [at : FramePoints, ran : BOOLEAN, late : BOOLEAN]
  BY DEF HookInv, FrameInv
<1>3. CASE BeginFrame \/ RunOriginal
  <2>1. frame'.at \in {"callback", "original", "outside"}
    <3>1. CASE BeginFrame
      BY <1>2, <3>1 DEF BeginFrame, In
    <3>2. CASE RunOriginal
      BY <1>2, <3>2 DEF RunOriginal
    <3> QED BY <1>3, <3>1, <3>2
  <2>2. UNCHANGED <<sequence, published, delivered>>
    BY <1>3 DEF BeginFrame, RunOriginal, captured
  <2> QED BY <1>1, <2>1, <2>2 DEF NumberInv, Silenced, In
<1>4. CASE LoadObserver
  <2>1. /\ frame'.at = IF activeObserver THEN "capture" ELSE "outside"
        /\ frame'.late = control.stopped
    BY <1>2, <1>4 DEF LoadObserver
  <2>2. UNCHANGED <<sequence, published, delivered>>
    BY <1>4 DEF LoadObserver, captured
  <2> QED BY <1>1, <2>1, <2>2 DEF NumberInv, Silenced, In
<1>5. CASE Capture
  BY <1>1, <1>2, <1>5 DEF Capture, FrameGoes, In, NumberInv, Silenced
<1>6. CASE Publish
  BY <1>1, <1>2, <1>6 DEF Publish, FrameGoes, In, NumberInv, Silenced
<1>7. CASE LoadListener
  <2>1. /\ frame'.at = IF listener THEN "deliver" ELSE "outside"
        /\ frame'.late = control.silenced /\ frame.at = "load"
    BY <1>2, <1>7 DEF LoadListener, In
  <2>2. UNCHANGED <<sequence, published, delivered>>
    BY <1>7 DEF LoadListener, captured
  <2> QED BY <1>1, <2>1, <2>2 DEF NumberInv, Silenced, In
<1>8. CASE Deliver
  BY <1>1, <1>2, <1>8 DEF Deliver, FrameGoes, In, NumberInv, Silenced
<1>9. CASE UNCHANGED vars
  BY <1>1, <1>9 DEF vars, hookVars, NumberInv, Silenced, In
<1> QED BY <1>3, <1>4, <1>5, <1>6, <1>7, <1>8, <1>9 DEF GameNext

LEMMA NumberNext == HookInv /\ NumberInv /\ [HookNext]_vars => NumberInv'
BY NumberWorker, NumberGame DEF HookNext

\* stop() makes the observer quiet for any number of frames and whatever its removal comes
\* to: no frame that looks for the observer or the listener after stop() took it captures
\* or delivers, though the call site may lead to the callback for ever.  Before, the
\* listener is given each snapshot at most once, in the order of their numbers.
THEOREM StoppedIsQuiet ==
  ASSUME OneCallSite PROVE HookSpec => QuietAfterStop
<1> DEFINE Quiet == /\ sequence' # sequence => ~frame.late
                    /\ delivered' # delivered => delivered' > delivered /\ ~frame.late
<1>1. ASSUME NumberInv, HookNext PROVE Quiet
  <2>1. CASE Capture
    BY <1>1, <2>1 DEF Capture, NumberInv, In
  <2>2. CASE Deliver
    BY <1>1, <2>2 DEF Deliver, NumberInv, In
  <2>3. CASE ~Capture /\ ~Deliver
    <3>1. UNCHANGED <<sequence, delivered>>
      BY <1>1, <2>3 DEF HookNext, WorkerNext, GameNext, WireListener, InstallRefused,
         CreateObserver, CallStart, ProfileMismatch, PatchUnusable, PrepareThrows,
         PreparePatch, BeginInstall, AccessMemory, InstallSucceeded, InstallFailed, CallStop,
         ForgetListener, Deactivate, StopReturned, BeginFrame, RunOriginal, LoadObserver,
         Publish, LoadListener, captured, hookVars
    <3> QED BY <3>1
  <2> QED BY <2>1, <2>2, <2>3
<1>2. NumberInv /\ [HookNext]_vars => [Quiet]_vars
  BY <1>1
<1> QED BY HookInitInv, HookNextInv, NumberInit, NumberNext, <1>2, PTL
        DEF HookSpec, QuietAfterStop
====
