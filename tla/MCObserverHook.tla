--------------------------- MODULE MCObserverHook ---------------------------
(* The one call site of the game, four captured frames, one start, any number *)
(* of stops and failing memory accesses by the worker thread.                 *)
EXTENDS ObserverHook
MCMatching == {"original"}
MCDamage == {}

ASSUME CallSiteAssumption == OneCallSite

\* Every address of a three-bit word for a patch of two bytes, against an image in the
\* middle and one that would end past the last word.
Within(imageBase) ==
    {[image |-> [base |-> imageBase, size |-> 3],
      patches |-> [s \in Sites |-> [base |-> address, size |-> 2]]] : address \in Word}
MCLayouts == Within(2) \cup Within(5)
=============================================================================
