---------------------------- MODULE PriorityList ----------------------------
(***************************************************************************)
(* What an order book asks of its tree: entries listed from the best key   *)
(* to the worst, first come first served among equal keys.  RedBlackTree   *)
(* implements it.                                                          *)
(***************************************************************************)
EXTENDS Integers, SequencesExt

CONSTANTS Entry,    \* the blocks an entry may be stored in
          Key       \* the key of the value stored in each

VARIABLE queue

Listed == Range(queue)

\* Behind every entry that is at least as good.
Insert(i) ==
    LET ahead == SelectSeq(queue, LAMBDA j : Key[j] >= Key[i])
    IN  /\ i \notin Listed
        /\ queue' = InsertAt(queue, Len(ahead) + 1, i)

RemoveByIndex(i) ==
    /\ i \in Listed
    /\ queue' = Remove(queue, i)

Init == queue = << >>

Next == \E i \in Entry : Insert(i) \/ RemoveByIndex(i)

Spec == Init /\ [][Next]_queue

=============================================================================
