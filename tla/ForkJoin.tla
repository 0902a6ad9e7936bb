------------------------------ MODULE ForkJoin ------------------------------
(***************************************************************************)
(* What a THDispatchQueue promises its user: th_dispatch_queue hands out   *)
(* the items of a job, somebody processes each of them once, and           *)
(* th_dispatch_sync returns when all of them have been processed.          *)
(***************************************************************************)
EXTENDS Naturals

CONSTANT Item    \* an item of a job

VARIABLES
    submitted,   \* the items handed out so far
    ran,         \* how often each item was processed
    joined       \* TRUE at the return of a th_dispatch_sync

joinVars == <<submitted, ran, joined>>

Init ==
    /\ submitted = {}
    /\ ran = [x \in Item |-> 0]
    /\ joined = FALSE

Submit ==
    /\ ~joined
    /\ \E items \in SUBSET (Item \ submitted) : submitted' = submitted \union items
    /\ UNCHANGED <<ran, joined>>

(* One callback: a range of items, none of them processed before.          *)
Process ==
    \E items \in SUBSET submitted :
        /\ \A x \in items : ran[x] = 0
        /\ ran' = [x \in Item |-> IF x \in items THEN 1 ELSE ran[x]]
        /\ UNCHANGED <<submitted, joined>>

Join ==
    /\ ~joined
    /\ \A x \in submitted : ran[x] = 1
    /\ joined' = TRUE
    /\ UNCHANGED <<submitted, ran>>

Resume == joined /\ joined' = FALSE /\ UNCHANGED <<submitted, ran>>

Next == Submit \/ Process \/ Join \/ Resume

Spec == Init /\ [][Next]_joinVars
=============================================================================
