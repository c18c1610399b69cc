----------------------------- MODULE LineStream -----------------------------
(* What src/src/transport.rs promises the reader about the lines of a request:*)
(* the lines offered arrive whole and in order until the stream ends; the one *)
(* that was being written when it ended may be cut short, and no later line   *)
(* is ever attempted.                                                         *)
EXTENDS Naturals

VARIABLES
  offered,   \* lines handed over in this request
  whole,     \* of them, the first `whole` are complete on the stream
  ended      \* no line will follow on the stream

stream == <<offered, whole, ended>>

TypeOK == offered \in Nat /\ whole \in 0..offered /\ ended \in BOOLEAN

Init == offered = 0 /\ whole = 0 /\ ended = TRUE

\* A request begins once the previous one's last line is complete or lost.
NewRequest == /\ ended \/ whole = offered
              /\ offered' = 0 /\ whole' = 0 /\ ended' = FALSE

\* A line is offered once the previous one is complete or lost; the stream may
\* turn out to be unavailable.
Offer == /\ ended \/ whole = offered
         /\ offered' = offered + 1 /\ whole' = whole
         /\ ended' \in {ended, TRUE}

Deliver == /\ ~ended /\ whole < offered
           /\ whole' = whole + 1
           /\ UNCHANGED <<offered, ended>>

\* The stream breaks under a line or with its worker, or is closed between two.
End == ~ended /\ ended' = TRUE /\ UNCHANGED <<offered, whole>>

Next == NewRequest \/ Offer \/ Deliver \/ End

Spec == Init /\ [][Next]_stream
=============================================================================
