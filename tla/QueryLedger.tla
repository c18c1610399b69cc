---------------------------- MODULE QueryLedger ----------------------------
(* What the query observer promises its reader, without statements, handles  *)
(* or callbacks (the header of src/src/observers/queries.rs): every execution *)
(* of a request that succeeds is told exactly once, at once or later, before  *)
(* the request ends, with the stamp of its execution and with its own row     *)
(* count or none.                                                             *)
EXTENDS Naturals

CONSTANT Calls   \* the identities of the executions

VARIABLES
  count,   \* executions of this request so far, failed ones included
  owed,    \* the executions still to be told, with their stamps
  told     \* what was told of them in this request

ledger == <<count, owed, told>>

Entry   == [call : Calls, ts : Nat]
Account == [call : Calls, ts : Nat, rows : {0} \cup Calls]
Known   == {e.call : e \in owed} \cup {a.call : a \in told}
Tellings(e) == {[call |-> e.call, ts |-> e.ts, rows |-> r] : r \in {0, e.call}}

TypeOK == count \in Nat /\ owed \subseteq Entry /\ told \subseteq Account

Init == count = 0 /\ owed = {} /\ told = {}

\* An execution ends; its stamp is its place in the order of executions.
Owe(c) == /\ c \notin Known
          /\ count' = count + 1
          /\ owed' = owed \cup {[call |-> c, ts |-> count + 1]}
          /\ UNCHANGED told

TellAtOnce(c) == /\ c \notin Known
                 /\ count' = count + 1
                 /\ \E a \in Tellings([call |-> c, ts |-> count + 1]) : told' = told \cup {a}
                 /\ UNCHANGED owed

\* Of an execution that failed the ledger promises nothing.
Fail == count' = count + 1 /\ UNCHANGED <<owed, told>>

Tell(e) == /\ e \in owed
           /\ owed' = owed \ {e}
           /\ \E a \in Tellings(e) : told' = told \cup {a}
           /\ UNCHANGED count

\* The next request begins with an empty ledger, and only once nothing is owed.
NextRequest == owed = {} /\ count' = 0 /\ told' = {} /\ UNCHANGED owed

Next == \/ \E c \in Calls : Owe(c) \/ TellAtOnce(c)
        \/ \E e \in owed : Tell(e)
        \/ Fail
        \/ NextRequest

Spec == Init /\ [][Next]_ledger
=============================================================================
