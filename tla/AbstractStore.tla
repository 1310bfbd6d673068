---------------------------- MODULE AbstractStore ----------------------------
(***************************************************************************)
(* What the bundle store promises to the rest of dtnd: which bundles       *)
(* GetBundleDescriptor finds and what Load makes of them.  BundleStore     *)
(* implements this specification.                                          *)
(***************************************************************************)
CONSTANT BundleIDs

VARIABLE status     \* bundle ID -> what the store has of that bundle

\* With a descriptor: the file complete, cut short or not there.  The last two
\* come only from an insert that a failure or the end of the process cut short.
Held == {"stored", "torn", "missing"}

Status == Held \cup {"deleted", "absent"}

StoreInit == status = [b \in BundleIDs |-> "absent"]

\* InsertBundle of a bundle that is not in the store succeeds.
StoreInsert(b) ==
    /\ status[b] = "absent"
    /\ status' = [status EXCEPT ![b] = "stored"]

\* The descriptor is deleted; from here on the bundle cannot be looked up.
StoreDelete(b) ==
    /\ status[b] \in Held
    /\ status' = [status EXCEPT ![b] = "deleted"]

\* deleteBundle has taken it out of the map: the ID can be stored again.
StoreForget(b) ==
    /\ status[b] = "deleted"
    /\ status' = [status EXCEPT ![b] = "absent"]

\* The process ends and starts again.  Every bundle that had a descriptor has
\* one again and its file is as it was; deletions and inserts that were under
\* way may turn out either way.
StoreRestart ==
    \E after \in [BundleIDs -> Held \cup {"absent"}] :
        /\ \A b \in BundleIDs : status[b] \in Held => after[b] = status[b]
        /\ status' = after

StoreNext ==
    \/ \E b \in BundleIDs : StoreInsert(b) \/ StoreDelete(b) \/ StoreForget(b)
    \/ StoreRestart

StoreSpec == StoreInit /\ [][StoreNext]_status
=============================================================================
