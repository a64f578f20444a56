------------------------------- MODULE MCCalls -------------------------------
EXTENDS Calls

\* one method of each kind
Typical == {"statusForeach", "checkoutTree", "foreachReference", "foreach",
            "write", "find", "stashSave"}

\* the iterations that differ from their documentation
Differing == {"foreachReference", "printCompact", "foreach"}

(* repository.hpp:595, of foreachReference: "Returning a false value from   *)
(* the callback will terminate the iteration."                              *)
FalseStopsReferences == StopIsFinalFor(Naming)

(* diff.hpp:65, of the callbacks of a diff: "@return true to continue       *)
(* iteration, false to stop iteration".                                     *)
FalseStopsPrinting == StopIsFinalFor(Printing)

(* diff.hpp:257 and diff.hpp:264, of DiffList::foreach: "Callback function  *)
(* to make per file in the diff", "@return true if completly terminated and *)
(* false if user terminated."                                               *)
ForeachIsHonest == HonestReturnFor(Misdirected)
=============================================================================
