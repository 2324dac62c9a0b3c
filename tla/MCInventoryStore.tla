-------------------------- MODULE MCInventoryStore --------------------------
(* Instances of InventoryStore for TLC. *)
EXTENDS InventoryStore, TLC

CONSTANTS d1, p1, p2, p3, p4, v1, v2

Order == [p \in Fingerprint |-> (p1 :> 1 @@ p2 :> 2 @@ p3 :> 3 @@ p4 :> 4)[p]]
\* p1 and p2 describe the same exported asset of d1; p4 is not exported.
SharedKey == [x \in Device \X Fingerprint |->
                IF x[2] \in {p1, p2} THEN 1 ELSE IF x[2] = p3 THEN 2 ELSE NoKey]

On(p, v) == [print |-> p, version |-> v, running |-> TRUE]
Off(p, v) == [print |-> p, version |-> v, running |-> FALSE]
ShortLists == {<<>>, <<On(p1, v1)>>, <<On(p2, v2)>>}
\* The two prints of one asset, in both orders; with another asset behind; with one
\* that is not exported before.
Pairs == ShortLists \cup
    {<<Off(p1, v1), On(p2, v2)>>, <<On(p2, v2), Off(p1, v1)>>,
     <<On(p1, v1), On(p3, v1)>>, <<On(p4, v1), Off(p1, v1)>>}
\* p1 and p2 alone.
TwoPrints == ShortLists \cup
    {<<On(p1, v1), On(p2, v2)>>, <<Off(p1, v1), On(p2, v2)>>, <<On(p2, v2), Off(p1, v1)>>}

NewDatabase == {<<>>}
\* A new database, or one with one or two earlier scans of d1: the first lists at
\* most one asset, the second at most two and may be dated in the future.
Upgraded ==
    NewDatabase \cup
    {s \in BoundedSeq([dev : {d1}, obs : 1..MaxTime, future : BOOLEAN, assets : Pairs], 2) :
       /\ s # <<>> /\ s[1].assets \in ShortLists /\ ~s[1].future
       /\ \A i \in DOMAIN s : s[i].future => s[i].obs = MaxTime}

=============================================================================
