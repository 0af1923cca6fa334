-------------------------- MODULE PatchTransaction --------------------------
(* PatchTransaction of MemoryPatch.cpp: replacing the bytes at N call sites   *)
(* of the running game, all of them or none.  Every access to the game's      *)
(* memory is a step of its own, because other threads execute that memory and *)
(* because each access can fail.  The bytes of one site are abstracted to the *)
(* values the code can tell apart: what the profile expects ("original"),     *)
(* what the patch writes ("replacement"), what another mod left there         *)
(* ("foreign") and what a write that failed half-way leaves ("torn").         *)
EXTENDS ImageRange, Sequences

CONSTANTS N,         \* how many patches the transaction holds
          Layouts,   \* where the patches and the image may be
          Matching,  \* the bytes the masked comparison accepts
          Damage     \* what a failing write may leave besides old and new

Bytes == {"original", "replacement", "foreign", "torn"}
Sites == 1 .. N

\* The only profile of the program compares whole bytes (mask 0xFF): the
\* comparison accepts neither the replacement nor what a failed write leaves.
ASSUME TransactionAssumption ==
    /\ N \in Nat \ {0}
    /\ Layouts \subseteq [image : Span, patches : [Sites -> Span]]
    /\ Matching \subseteq Bytes \ {"replacement"}
    /\ Damage \subseteq Bytes \ Matching

VARIABLES layout,     \* imageBase and imageSize, and the range of each patch
          memory,     \* the bytes at each site
          found,      \* the bytes at each site when the process started
          applied,    \* applied_: the originals saved by the last install
          installed,  \* installed_
          step,       \* where the running call is
          result      \* what the last call returned

transactionVars == <<layout, memory, found, applied, installed, step, result>>

Statuses == {"installed", "dryRunCompatible", "alreadyInstalled",
             "invalidDefinition", "outsideImage",
             "readFailed", "expectedBytesMismatch", "writeFailed",
             "verificationFailed", "rollbackFailed", "removed", "none"}
Calls == {"none", "install", "remove"}
AppliedPatch == [site : Sites, original : Bytes]
Result == [call : Calls, status : Statuses, matched : BOOLEAN,
           wrote : BOOLEAN, restored : BOOLEAN]
Step == [at : {"idle", "validate", "write", "verify", "restore"},
         site : 0 .. N, saved : [Sites -> Bytes], dryRun : BOOLEAN,
         failed : BOOLEAN]

TransactionTypeOK ==
    /\ layout \in Layouts
    /\ memory \in [Sites -> Bytes]
    /\ found \in [Sites -> Bytes]
    /\ applied \in Seq(AppliedPatch)
    /\ installed \in BOOLEAN
    /\ step \in Step
    /\ result \in Result

NoResult == [call |-> "none", status |-> "none", matched |-> FALSE,
             wrote |-> FALSE, restored |-> TRUE]

TransactionInit ==
    /\ layout \in Layouts
    /\ found \in [Sites -> {"original", "foreign"}]
    /\ memory = found
    /\ applied = <<>>
    /\ installed = FALSE
    /\ step = [at |-> "idle", site |-> 0, saved |-> found, dryRun |-> FALSE,
               failed |-> FALSE]
    /\ result = NoResult

-----------------------------------------------------------------------------
(* install *)

Install(dryRun) ==
    /\ step.at = "idle"
    /\ result' = [NoResult EXCEPT !.call = "install",
                                  !.status = IF installed THEN "alreadyInstalled"
                                                          ELSE "none",
                                  !.matched = installed]
    /\ step' = IF installed THEN step
                            ELSE [step EXCEPT !.at = "validate", !.dryRun = dryRun]
    /\ UNCHANGED <<layout, memory, found, applied, installed>>

\* The call returns to its caller.
Return(status) ==
    /\ step' = [step EXCEPT !.at = "idle"]
    /\ result' = [result EXCEPT !.status = status]

\* Mutant: the site whose write failed is taken to be untouched.
RollBackEarlierSites(status, patches) ==
    /\ step' = [step EXCEPT !.at = "restore", !.failed = FALSE,
                            !.site = IF patches = <<>> THEN 0 ELSE Len(patches) - 1]
    /\ result' = [result EXCEPT !.status = status]

\* The call gives up and undoes what applied_ says was done.
RollBack(status, patches) ==
    /\ step' = [step EXCEPT !.at = "restore", !.site = Len(patches), !.failed = FALSE]
    /\ result' = [result EXCEPT !.status = status]

InImage(s) == Accepts(layout.patches[s], layout.image)

\* Some site is malformed, outside the image, unreadable or holds other bytes:
\* nothing has been written and nothing saved is forgotten.
ValidationFails ==
    /\ step.at = "validate"
    /\ \/ \E status \in {"invalidDefinition", "readFailed"} : Return(status)
       \/ (\E s \in Sites : ~InImage(s)) /\ Return("outsideImage")
       \/ /\ \E s \in Sites : memory[s] \notin Matching
          /\ Return("expectedBytesMismatch")
    /\ UNCHANGED <<layout, memory, found, applied, installed>>

\* Every site matched.  A dry run stops here; otherwise the list of saved
\* originals starts afresh.
ValidationPasses ==
    /\ step.at = "validate"
    /\ \A s \in Sites : InImage(s) /\ memory[s] \in Matching
    /\ IF step.dryRun
         THEN /\ step' = [step EXCEPT !.at = "idle"]
              /\ result' = [result EXCEPT !.status = "dryRunCompatible", !.matched = TRUE]
              /\ UNCHANGED applied
         ELSE /\ step' = [step EXCEPT !.at = "write", !.site = 1, !.saved = memory]
              /\ result' = [result EXCEPT !.matched = TRUE]
              /\ applied' = <<>>
    /\ UNCHANGED <<layout, memory, found, installed>>

\* Preparing the list of originals ran out of memory: the handler still rolls
\* back whatever an earlier call left in applied_.
PreparationThrows ==
    /\ step.at = "validate"
    /\ RollBack("writeFailed", applied)
    /\ UNCHANGED <<layout, memory, found, applied, installed>>

Remembered(s) == Append(applied, [site |-> s, original |-> step.saved[s]])

\* The original is remembered first, then the site is written.
WriteSite ==
    /\ step.at = "write"
    /\ applied' = Remembered(step.site)
    /\ \/ /\ \E bytes \in {"replacement"} \cup Damage :
               memory' = [memory EXCEPT ![step.site] = bytes]
          /\ step' = [step EXCEPT !.at = "verify"]
          /\ result' = [result EXCEPT !.wrote = TRUE]
       \/ /\ \E bytes \in {memory[step.site], "replacement"} \cup Damage :
               memory' = [memory EXCEPT ![step.site] = bytes]
          /\ RollBack("writeFailed", applied')
    /\ UNCHANGED <<layout, found, installed>>

\* Read back; the buffer for it may not be had either, which is an exception.
VerifyFails ==
    /\ step.at = "verify"
    /\ \E status \in {"verificationFailed", "writeFailed"} : RollBack(status, applied)
    /\ UNCHANGED <<layout, memory, found, applied, installed>>

VerifySite ==
    /\ step.at = "verify"
    /\ memory[step.site] = "replacement"
    /\ IF step.site = N
         THEN Return("installed") /\ installed' = TRUE
         ELSE /\ step' = [step EXCEPT !.at = "write", !.site = @ + 1]
              /\ UNCHANGED <<installed, result>>
    /\ UNCHANGED <<layout, memory, found, applied>>

-----------------------------------------------------------------------------
(* remove, called by the owner or as install's rollback *)

Remove ==
    /\ step.at = "idle"
    /\ step' = [step EXCEPT !.at = "restore", !.site = Len(applied), !.failed = FALSE]
    /\ result' = [NoResult EXCEPT !.call = "remove", !.status = "removed"]
    /\ UNCHANGED <<layout, memory, found, applied, installed>>

\* The originals go back in reverse order; a failing write does not stop the
\* others.  A successful restoring write is trusted: the code does not read it
\* back, and neither does the model doubt it.
RestoreSite ==
    /\ step.at = "restore" /\ step.site > 0
    /\ LET patch == applied[step.site] IN
         \/ /\ memory' = [memory EXCEPT ![patch.site] = patch.original]
            /\ step' = [step EXCEPT !.site = @ - 1]
         \/ /\ \E bytes \in {memory[patch.site], patch.original} \cup Damage :
                 memory' = [memory EXCEPT ![patch.site] = bytes]
            /\ step' = [step EXCEPT !.site = @ - 1, !.failed = TRUE]
    /\ UNCHANGED <<layout, found, applied, installed, result>>

\* Mutant: the originals are forgotten although one of them could not be put back.
ForgetAlways ==
    /\ step.at = "restore" /\ step.site = 0
    /\ step' = [step EXCEPT !.at = "idle"]
    /\ result' = [result EXCEPT !.restored = ~step.failed,
                                !.status = IF step.failed /\ result.call = "install"
                                             THEN "rollbackFailed" ELSE @]
    /\ applied' = <<>>
    /\ installed' = (installed /\ step.failed)
    /\ UNCHANGED <<layout, memory, found>>

\* Only a complete restoration forgets the originals.
RestoreEnds ==
    /\ step.at = "restore" /\ step.site = 0
    /\ step' = [step EXCEPT !.at = "idle"]
    /\ result' = [result EXCEPT !.restored = ~step.failed,
                                !.status = IF step.failed /\ result.call = "install"
                                             THEN "rollbackFailed" ELSE @]
    /\ applied' = IF step.failed THEN applied ELSE <<>>
    /\ installed' = (installed /\ step.failed)
    /\ UNCHANGED <<layout, memory, found>>

-----------------------------------------------------------------------------
(* The steps of a call that is running. *)
TransactionStep ==
    \/ ValidationFails
    \/ ValidationPasses
    \/ PreparationThrows
    \/ WriteSite
    \/ VerifyFails
    \/ VerifySite
    \/ RestoreSite
    \/ RestoreEnds

TransactionNext ==
    \/ \E dryRun \in BOOLEAN : Install(dryRun)
    \/ Remove
    \/ TransactionStep

TransactionSpec == TransactionInit /\ [][TransactionNext]_transactionVars

-----------------------------------------------------------------------------
(* What must hold, whichever accesses fail and however calls are repeated. *)

\* A site that no longer holds the game's own bytes is always remembered with
\* them, so that a later remove() can still put them back: a failed rollback,
\* a repeated install() and an exception never lose an original.
OriginalsRecoverable ==
    \A s \in Sites :
        \/ memory[s] = found[s]
        \/ \E k \in 1 .. Len(applied) :
              applied[k].site = s /\ applied[k].original = found[s]

\* What a call returned agrees with the game's memory: a successful install
\* patched every site, a failed one whose rollback succeeded and a successful
\* remove left no site changed.
OutcomeMatchesMemory ==
    step.at = "idle" =>
        /\ result.status = "installed" => \A s \in Sites : memory[s] = "replacement"
        /\ result.status \in {"writeFailed", "verificationFailed"} => memory = found
        /\ (result.status = "removed" /\ result.restored) => memory = found

\* No byte outside the image is written, whatever the sums of addresses and sizes
\* come to in a machine word: a changed site lies in the image, and so does one
\* that a removal will write.
WritesStayInImage ==
    \A s \in Sites :
        memory[s] # found[s] \/ (\E k \in 1 .. Len(applied) : applied[k].site = s) =>
            InsideImage(layout.patches[s], layout.image)

\* One site with somebody else's bytes and no site is ever written, also not
\* the ones that match: validation covers all the sites before the first write.
ForeignImageUntouched ==
    (\E s \in Sites : found[s] \notin Matching) => memory = found
=============================================================================
