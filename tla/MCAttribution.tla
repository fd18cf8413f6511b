----------------------------- MODULE MCAttribution -----------------------------
(* Attribution on small instances.  *)
EXTENDS Attribution, TLC

CONSTANTS p1, p2, p3

Phones == Permutations(Peers)

\* The registry and its users.  The log, the ids on their way to it and the record of
\* answered deletions decide about nothing else, as every append may fail; a slot beyond
\* the last is filled in before it is counted; and whom a recording is about no longer
\* matters to the registry once the worker is found or saved.  The host task and the
\* tick do the same, so it does not matter which does what.
Doing(t) == <<rec[t].at, IF rec[t].at \in {"find", "create"} THEN rec[t].peer ELSE NoPeer>>

RegistryView ==
    << [n \in 1..count |-> slots[n]], next, blobs, nvsNext, bonded, del, stamped, outrun,
       issued, trusted, {Doing(t) : t \in AutoTasks}, Doing("http") >>

\* Once a failing write was passed over no invariant says anything any more.
StillTrusted == trusted
=============================================================================
