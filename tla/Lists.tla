-------------------------------- MODULE Lists --------------------------------
(* Lists of the program: what Array.prototype.filter leaves of one. *)
EXTENDS Integers, Sequences

\* The elements of list that are in keep, in their order.  A recursive function, since
\* the prover knows nothing of SelectSeq.
Only(list, keep) ==
    LET chosen[n \in 0 .. Len(list)] ==
            IF n = 0 THEN <<>>
            ELSE IF list[n] \in keep THEN Append(chosen[n - 1], list[n])
            ELSE chosen[n - 1]
    IN  chosen[Len(list)]
=============================================================================
