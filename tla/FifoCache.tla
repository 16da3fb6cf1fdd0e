----------------------------- MODULE FifoCache -----------------------------
(***************************************************************************)
(* What a fixed-size cache (UCache) promises: the entries form a queue,    *)
(* new ones are appended, the oldest ones are dropped, and get() answers   *)
(* with the newest entry of a key.  It may give up after Limit newer       *)
(* entries.  An entry that was found expired is never returned again.      *)
(***************************************************************************)
EXTENDS Naturals, Sequences

CONSTANTS Keys, Data, NoData, NoAnswer,
          Limit     \* newer entries behind which get() may give up

VARIABLES q, ret

fifoVars == <<q, ret>>

Entries == [key : Keys, data : Data, dead : BOOLEAN]

Alive(k) == {i \in 1 .. Len(q) : q[i].key = k /\ ~q[i].dead}

Newest(k) == CHOOSE i \in Alive(k) : \A j \in Alive(k) : j <= i

Init == q = << >> /\ ret = NoAnswer

Add(e) == ~e.dead /\ q' = Append(q, e) /\ UNCHANGED ret

Drop == q # << >> /\ q' = Tail(q) /\ UNCHANGED ret

Miss(k) ==
    /\ Alive(k) # {} => Len(q) - Newest(k) > Limit
    /\ ret' = [key |-> k, data |-> NoData]
    /\ UNCHANGED q

Hit(k) ==
    /\ Alive(k) # {}
    /\ ret' = [key |-> k, data |-> q[Newest(k)].data]
    /\ UNCHANGED q

Expire(k) ==
    /\ Alive(k) # {}
    /\ ret' = [key |-> k, data |-> NoData]
    /\ q' = [q EXCEPT ![Newest(k)].dead = TRUE]

\* Another call begins.
Forget == ret' = NoAnswer /\ UNCHANGED q

Next ==
    \/ Forget
    \/ \E e \in Entries : Add(e)
    \/ Drop
    \/ \E k \in Keys : Miss(k) \/ Hit(k) \/ Expire(k)

Spec == Init /\ [][Next]_fifoVars
=============================================================================
