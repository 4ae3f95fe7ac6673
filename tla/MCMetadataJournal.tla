------------------------- MODULE MCMetadataJournal --------------------------
(* Model values for MetadataJournal, and a history variable: has an erase  *)
(* been interrupted half-way?                                              *)
EXTENDS MetadataJournal, TLC

VARIABLE torn

ValueSymmetry == Permutations(Values)

MCInit == Init /\ torn = FALSE

MCNext ==
    /\ Next
    /\ LET whole == [flash EXCEPT ![target[1]] = [i \in Slots |-> Erased]]
       IN  torn' = (torn \/ (pc = "erase" /\ flash' \notin {flash, whole}))

MCSpec == MCInit /\ [][MCNext]_<<vars, torn>>

(***************************************************************************)
(* While no erase was torn, the records on the flash are the last 2N ones: *)
(* the comparison of isSequenceNewer never sees two numbers further apart, *)
(* so WithinWear excludes nothing.                                         *)
(***************************************************************************)
StaleRecordsBounded ==
    ~torn =>
        \A p \in Pages, i \in Slots :
            isValidRecord(flash[p][i]) =>
                Behind(findNewestMetadataRecord(flash).seq, flash[p][i].seq) < 2 * N
=============================================================================
