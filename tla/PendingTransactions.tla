-------------------------- MODULE PendingTransactions --------------------------
(***************************************************************************)
(* The browser's list of World transactions whose outcome is still open    *)
(* (pending-transactions.ts), newest first and at most MaxPending of them. *)
(* All tabs of a browser share it.  An operation reads the list, builds    *)
(* the next one and writes it back, and other tabs may do the same in      *)
(* between: localStorage has no lock.                                      *)
(***************************************************************************)
EXTENDS Lists, SequencesExt, FiniteSetsExt

CONSTANTS
    Signatures,      \* of transactions that pass isPendingWorldTransaction
    PendingTabs,
    MaxPending       \* 50 in the source

ASSUME PendingAssumption == MaxPending \in Nat \ {0}

VARIABLES
    pendingList,      \* the stored list
    pendingTabs,      \* per tab the operation under way
    \* history
    kept,         \* remembered, not forgotten, and not lost to an overlapping write
    newer,        \* per signature in kept, those remembered after it
    twice         \* two operations overlapped

pendingVars == <<pendingList, pendingTabs, kept, newer, twice>>

NoOperation == [op |-> "none", signature |-> "none", read |-> <<>>, missed |-> {}]

-----------------------------------------------------------------------------
(* What is written back *)

Without(list, signature) == Only(list, Signatures \ {signature})

\* Mutant: the list is not cut.
Uncut(list, signature) == <<signature>> \o Without(list, signature)

\* Mutant: the new transaction goes to the end, where the cut falls.
AppendedLast(list, signature) ==
    LET next == Append(Without(list, signature), signature)
    IN  SubSeq(next, 1, Min({Len(next), MaxPending}))

\* rememberPendingWorldTransaction
Remembered(list, signature) ==
    LET next == <<signature>> \o Without(list, signature)
    IN  SubSeq(next, 1, Min({Len(next), MaxPending}))

\* forgetPendingWorldTransaction
Forgotten(list, signature) == Without(list, signature)

-----------------------------------------------------------------------------
(* Steps *)

\* loadPendingWorldTransactions: what is not a list of transactions counts as empty.
LoadPending(t, op, signature) ==
    /\ pendingTabs[t].op = "none"
    /\ pendingTabs' = [pendingTabs EXCEPT ![t] =
            [op |-> op, signature |-> signature, read |-> pendingList, missed |-> {}]]
    /\ twice' = (twice \/ \E u \in PendingTabs \ {t} : pendingTabs[u].op # "none")
    /\ UNCHANGED <<pendingList, kept, newer>>

\* savePendingWorldTransactions; the other tabs that have read miss this write, and
\* what this tab missed is gone.
SavePending(t) ==
    LET o == pendingTabs[t]
        next == IF o.op = "remember" THEN Remembered(o.read, o.signature)
                                     ELSE Forgotten(o.read, o.signature)
    IN  /\ o.op # "none"
        /\ pendingList' = next
        /\ pendingTabs' =
               [u \in PendingTabs |->
                   IF u = t \/ pendingTabs[u].op = "none"
                   THEN NoOperation
                   ELSE [pendingTabs[u] EXCEPT !.missed = @ \cup {o.signature}]]
        /\ kept' = IF o.op = "remember" THEN (kept \ o.missed) \cup {o.signature}
                                        ELSE kept \ (o.missed \cup {o.signature})
        /\ newer' = [s \in Signatures |->
                        IF s = o.signature \/ s \notin kept' THEN {}
                        ELSE newer[s] \cup (IF o.op = "remember" THEN {o.signature} ELSE {})]
        /\ UNCHANGED twice

\* setItem throws (the quota is used up) or the tab is closed: nothing is written.
AbandonPending(t) ==
    /\ pendingTabs[t].op # "none"
    /\ pendingTabs' = [pendingTabs EXCEPT ![t] = NoOperation]
    /\ UNCHANGED <<pendingList, kept, newer, twice>>

PendingInit ==
    /\ pendingList = <<>>
    /\ pendingTabs = [t \in PendingTabs |-> NoOperation]
    /\ kept = {} /\ newer = [s \in Signatures |-> {}] /\ twice = FALSE

PendingNext ==
    \E t \in PendingTabs :
        \/ \E op \in {"remember", "forget"}, s \in Signatures : LoadPending(t, op, s)
        \/ SavePending(t)
        \/ AbandonPending(t)

PendingSpec == PendingInit /\ [][PendingNext]_pendingVars

-----------------------------------------------------------------------------
(* Properties *)

PendingTypeOK ==
    /\ Len(pendingList) <= MaxPending /\ Range(pendingList) \subseteq Signatures
    /\ kept \subseteq Signatures
    /\ \A t \in PendingTabs : pendingTabs[t].op \in {"none", "remember", "forget"}

\* A transaction a tab wrote down stays on the list until it is forgotten or
\* MaxPending newer ones have come: only a write of another tab that had read the
\* list before can lose it, and such a write loses nothing else.  However the tabs
\* overlap, no transaction is listed twice; and while they do not, the list is in the
\* order the transactions were last remembered.
EvidenceStaysListed ==
    /\ \A s \in kept : Cardinality(newer[s]) < MaxPending => s \in Range(pendingList)
    /\ \A i, j \in DOMAIN pendingList : i < j =>
          /\ pendingList[i] # pendingList[j]
          /\ ~ twice => pendingList[i] \in newer[pendingList[j]]
=============================================================================
