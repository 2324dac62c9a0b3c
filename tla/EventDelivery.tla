--------------------------- MODULE EventDelivery ---------------------------
(***************************************************************************)
(* What the outbox and the runtime spool promise of every event they       *)
(* accept: the event stays open until its acceptance at the other end is   *)
(* confirmed or the event is abandoned (failed or dropped), a confirmed    *)
(* event was received, and a closed event stays closed.  The other end may *)
(* receive an event more than once, and even after it was abandoned:       *)
(* delivery is at least once.                                              *)
(***************************************************************************)
CONSTANT Event

VARIABLES open, delivered, abandoned, received

vars == <<open, delivered, abandoned, received>>

Accepted == open \cup delivered \cup abandoned

Init ==
    /\ open = {}
    /\ delivered = {}
    /\ abandoned = {}
    /\ received = {}

Accept(e) ==
    /\ e \notin Accepted
    /\ open' = open \cup {e}
    /\ UNCHANGED <<delivered, abandoned, received>>

Receive(S) ==
    /\ S \subseteq Accepted
    /\ received' = received \cup S
    /\ UNCHANGED <<open, delivered, abandoned>>

Confirm(S) ==
    /\ S \subseteq open \cap received
    /\ open' = open \ S
    /\ delivered' = delivered \cup S
    /\ UNCHANGED <<abandoned, received>>

Abandon(S) ==
    /\ S \subseteq open
    /\ open' = open \ S
    /\ abandoned' = abandoned \cup S
    /\ UNCHANGED <<delivered, received>>

Next ==
    \/ \E e \in Event : Accept(e)
    \/ \E S \in SUBSET Event : Receive(S) \/ Confirm(S) \/ Abandon(S)

Spec == Init /\ [][Next]_vars

=============================================================================
