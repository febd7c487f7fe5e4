----------------------------- MODULE KeyedFifo -----------------------------
(***************************************************************************)
(* What the keyed mutation scheduler promises to its owner, with no ready   *)
(* list and no loops: one FIFO line of requests per key, at most one        *)
(* request of a key running, at most MaxActiveKeys keys running, and only    *)
(* mutually compatible requests running together.                           *)
(***************************************************************************)
EXTENDS Naturals, Sequences, FiniteSets

CONSTANTS Keys,           \* the non-empty keys requests are filed under
          Requests,       \* what the requests of a key are told apart by
          MaxActiveKeys,  \* number of execution slots
          Compatible,     \* pairs of requests that may run together
          None            \* no request

VARIABLES waiting,        \* waiting[k]: requests of key k not started yet
          running         \* running[k]: the started request of key k, or None
vars == <<waiting, running>>

RunningKeys == {k \in Keys : running[k] # None}

Agrees(r, s) == <<r, s>> \in Compatible /\ <<s, r>> \in Compatible

RemoveAt(s, i) == SubSeq(s, 1, i - 1) \o SubSeq(s, i + 1, Len(s))

Init == /\ waiting = [k \in Keys |-> <<>>]
        /\ running = [k \in Keys |-> None]

(* A request joins the end of the line of its key. *)
Submit(k, r) == /\ waiting' = [waiting EXCEPT ![k] = Append(@, r)]
                /\ UNCHANGED running

(* The oldest request of a key that is not running starts. *)
Start(k) == /\ running[k] = None
            /\ waiting[k] # <<>>
            /\ Cardinality(RunningKeys) < MaxActiveKeys
            /\ \A j \in RunningKeys : Agrees(Head(waiting[k]), running[j])
            /\ running' = [running EXCEPT ![k] = Head(waiting[k])]
            /\ waiting' = [waiting EXCEPT ![k] = Tail(@)]

Finish(k) == /\ running[k] # None
             /\ running' = [running EXCEPT ![k] = None]
             /\ UNCHANGED waiting

(* The owner withdraws one waiting request, or all of them; a request that   *)
(* runs cannot be withdrawn.                                                *)
Withdraw(k, i) == /\ waiting' = [waiting EXCEPT ![k] = RemoveAt(@, i)]
                  /\ UNCHANGED running

WithdrawAll == /\ waiting' = [k \in Keys |-> <<>>]
               /\ UNCHANGED running

Next == \/ \E k \in Keys, r \in Requests : Submit(k, r)
        \/ \E k \in Keys : Start(k)
        \/ \E k \in Keys : Finish(k)
        \/ \E k \in Keys : \E i \in 1..Len(waiting[k]) : Withdraw(k, i)
        \/ WithdrawAll

Spec == Init /\ [][Next]_vars
=============================================================================
