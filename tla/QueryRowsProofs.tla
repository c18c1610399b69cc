--------------------------- MODULE QueryRowsProofs ---------------------------
(* Theorems about the rows and the values told of the statements, for every  *)
(* value of the constants.  Those about rows are of an application that reads *)
(* the rows of a read that succeeded before it executes the statement again  *)
(* or lets go of it; its calls may fail, and requests may be cut short.      *)
EXTENDS QueryHistoryProofs

\* It reads in turn the rows it is given.
Disciplined == "reexecute" \notin AppMay /\ "drop" \notin AppMay

-----------------------------------------------------------------------------
(* What is recorded of the executions.                                       *)

\* An execution is recorded once; whether it succeeded stays recorded.
OneRun == \A i, j \in DOMAIN ran : ran[i].call = ran[j].call => i = j
OkRun(n) == \A i \in DOMAIN ran : ran[i].call = n => ran[i].ok
OkAfter(n) == \A i \in DOMAIN ran' : ran'[i].call = n => ran'[i].ok
Grows == \A n : OkAfter(n) => OkRun(n)

\* What a step records.
LEMMA RunGrows ==
  ASSUME TypeOK, NEW f \in Fibers, NEW q \in Query, NEW h \in Handles \cup {NoHandle},
         NEW d \in BOOLEAN, NEW r, Executed(f, q, h, d, r)
  PROVE  /\ Grows
         /\ OkAfter(q.call) => r \in {0, q.call}
         /\ OkAfter(q.call) => (d => stmt'[h].cursor = q.call)
<1> DEFINE c == Last(stacks[f])
<1>1. c \in Call /\ q.call = c.id
  BY ExecutedStamp, LeaveShrinks DEF Executed, Ending
<1>2. PICK ok \in BOOLEAN : /\ Record(c, h, d, ok)
                            /\ ok => r \in {0, q.call}
                            /\ ok /\ d => stmt'[h].cursor = q.call
  BY DEF Executed
<1> DEFINE x == [call |-> c.id, h |-> h, deferred |-> d, ok |-> ok,
                 used |-> c.used, tidy |-> c.tidy]
<1>3. x \in Ran /\ x.call = c.id /\ x.ok = ok
  BY <1>1 DEF Call, CallOn, Ran
<1>4. ran' = Append(ran, x) /\ ran \in Seq(Ran)
  BY <1>2 DEF Record, TypeOK
<1> HIDE DEF c, x
<1>5. /\ Len(ran) \in Nat /\ DOMAIN ran = 1..Len(ran) /\ DOMAIN ran' = 1..(Len(ran) + 1)
      /\ \A i \in 1..Len(ran) : ran'[i] = ran[i]
      /\ ran'[Len(ran) + 1] = x
  BY <1>3, <1>4, AppendProperties, LenProperties
<1>6. ASSUME NEW n, OkAfter(n) PROVE OkRun(n)
  BY <1>5, <1>6 DEF OkRun, OkAfter
<1>7. OkAfter(q.call) => ok
  <2>1. Len(ran) + 1 \in DOMAIN ran'
    BY <1>5
  <2> QED BY <1>1, <1>3, <1>5, <2>1 DEF OkAfter
<1> QED BY <1>2, <1>6, <1>7 DEF Grows

\* So every step within a request only adds to what is recorded.
LEMMA StepGrows ==
  ASSUME TypeOK, PhaseInv, [Next]_vars, ~Rinit
  PROVE  Grows
<1>u. ran' = ran => Grows
  BY DEF Grows, OkRun, OkAfter
<1>1. CASE Rshutdown
  BY <1>1, <1>u, ShutdownKeeps
<1>2. CASE NothingNew
  BY <1>2, <1>u DEF NothingNew
<1>3. ASSUME NEW f \in Fibers, NEW q \in Query, ToldAtOnce(f, q) PROVE Grows
  BY <1>3, RunGrows, FALSE \in BOOLEAN DEF ToldAtOnce
<1>4. ASSUME NEW f \in Fibers, NEW h \in Handles, NEW q \in Query, Deferred(f, h, q)
      PROVE  Grows
  BY <1>4, RunGrows, TRUE \in BOOLEAN DEF Deferred
<1>5. ASSUME NEW f \in Fibers, NEW h \in Handles, NEW r \in Nat, Fetched(f, h, r)
      PROVE  Grows
  BY <1>5, <1>u DEF Fetched
<1> QED BY <1>1, <1>2, <1>3, <1>4, <1>5, StepKinds DEF Kinds

\* A call that failed is recorded so.
LEMMA RecordFails ==
  ASSUME TypeOK, NEW c \in Call, NEW h \in Handles \cup {NoHandle},
         NEW d \in BOOLEAN, Record(c, h, d, FALSE)
  PROVE  ~OkAfter(c.id)
<1> DEFINE x == [call |-> c.id, h |-> h, deferred |-> d, ok |-> FALSE,
                 used |-> c.used, tidy |-> c.tidy]
<1>1. x \in Ran /\ x.call = c.id /\ ~x.ok
  BY DEF Call, CallOn, Ran
<1>2. ran' = Append(ran, x) /\ ran \in Seq(Ran)
  BY DEF Record, TypeOK
<1> HIDE DEF x
<1>3. Len(ran) \in Nat /\ DOMAIN ran' = 1..(Len(ran) + 1) /\ ran'[Len(ran) + 1] = x
  BY <1>1, <1>2, AppendProperties, LenProperties
<1>4. Len(ran) + 1 \in DOMAIN ran'
  BY <1>3
<1> QED BY <1>1, <1>3, <1>4 DEF OkAfter

\* It is recorded once.
LEMMA NextOneRun ==
  ASSUME TypeOK, PhaseInv, IdInv, StampKept, OneRun, [Next]_vars
  PROVE  OneRun'
<1>u. ASSUME ran' = ran \/ ran' = <<>> PROVE OneRun'
  BY <1>u, EmptySeq DEF OneRun
<1>x. ASSUME NEW f \in Fibers, NEW q \in Query, NEW h \in Handles \cup {NoHandle},
             NEW d \in BOOLEAN, NEW r, Executed(f, q, h, d, r)
      PROVE  OneRun'
  <2>1. /\ Len(ran) \in Nat /\ DOMAIN ran = 1..Len(ran) /\ DOMAIN ran' = 1..(Len(ran) + 1)
        /\ \A i \in 1..Len(ran) : ran'[i] = ran[i]
        /\ ran'[Len(ran) + 1].call = q.call
    BY <1>x, ExecutedStamp
  <2>2. q.call \notin RanIds
    BY <1>x, FreshCall
  <2>3. \A i \in 1..Len(ran) : ran[i].call # q.call
    BY <2>1, <2>2 DEF RanIds
  <2> SUFFICES ASSUME NEW i \in DOMAIN ran', NEW j \in DOMAIN ran', ran'[i].call = ran'[j].call
               PROVE  i = j
    BY DEF OneRun
  <2>4. (i \in 1..Len(ran) \/ i = Len(ran) + 1) /\ (j \in 1..Len(ran) \/ j = Len(ran) + 1)
    BY <2>1
  <2> QED BY <2>1, <2>3, <2>4 DEF OneRun
<1>1. CASE Rinit \/ Rshutdown
  BY <1>1, <1>u, ShutdownKeeps DEF Rinit
<1>2. CASE Kinds
  BY <1>2, <1>u, <1>x DEF Kinds, NothingNew, ToldAtOnce, Deferred, Fetched
<1> QED BY <1>1, <1>2, StepKinds

-----------------------------------------------------------------------------
(* Statements, the calls open on them and the reads that wait.               *)

\* No read that succeeded waits under the handle.
Vacant(h) == pending[h] = NoQuery \/ ~OkRun(pending[h].call)

\* A read that succeeded waits only for rows that are due; a query or an execute
\* has its statement to itself, and no rows are due while it runs; a fetchAll
\* reads the rows of the last execution.
DiscInv ==
  /\ \A h \in Handles : Vacant(h) \/ (stmt[h].unread /\ Alive(h))
  /\ \A f \in Fibers : \A i \in DOMAIN stacks[f] :
       LET c == stacks[f][i] IN
       /\ c.h \in Handles => Alive(c.h)
       /\ c.kind \in {"query", "execute"} =>
            /\ ~stmt[c.h].unread
            /\ \A g \in Fibers : \A j \in DOMAIN stacks[g] :
                 stacks[g][j].h = c.h => g = f /\ j = i
       /\ c.kind = "fetchAll" => c.of = stmt[c.h].cursor \/ stmt[c.h].cursor = 0

\* No call is open on the handle after the step.
Vacated(h) == \A f \in Fibers : \A i \in DOMAIN stacks'[f] : stacks'[f][i].h # h

\* What a step other than the beginning of a call does to a handle.
Handled(h) ==
  \/ SameRows(h) /\ pending'[h] \in {pending[h], NoQuery}
  \/ /\ Vacated(h) /\ Vacant(h)
     /\ pending'[h] # NoQuery /\ OkAfter(pending'[h].call)
          => stmt'[h].unread /\ stmt'[h].sql # "none"
  \/ /\ pending'[h] = NoQuery /\ ~stmt'[h].unread
     /\ stmt'[h].sql = stmt[h].sql /\ stmt'[h].cursor = stmt[h].cursor

\* No call is new on a stack.
OnlyOld == \A f \in Fibers : \A i \in DOMAIN stacks'[f] :
             i \in DOMAIN stacks[f] /\ stacks'[f][i] = stacks[f][i]

\* The calls on the stacks are calls.
LEMMA OpenCalls ==
  ASSUME TypeOK
  PROVE  \A f \in Fibers : \A i \in DOMAIN stacks[f] :
           /\ stacks[f][i] \in Call /\ stacks[f][i] \in Open
           /\ stacks[f][i].kind # "exec" => stacks[f][i].h \in Handles
           /\ stacks[f][i].kind = "exec" => stacks[f][i].h = NoHandle
<1> SUFFICES ASSUME NEW f \in Fibers, NEW i \in DOMAIN stacks[f]
             PROVE  /\ stacks[f][i] \in Call /\ stacks[f][i] \in Open
                    /\ stacks[f][i].kind # "exec" => stacks[f][i].h \in Handles
                    /\ stacks[f][i].kind = "exec" => stacks[f][i].h = NoHandle
  OBVIOUS
<1>1. stacks[f] \in Seq(Call)
  BY DEF TypeOK
<1>2. stacks[f][i] \in Call
  BY <1>1, LenProperties, ElementOfSeq
<1>3. stacks[f][i] \in Open
  BY DEF Open
<1> QED BY <1>2, <1>3 DEF Call, CallOn

\* Such steps keep the discipline.
LEMMA HandledKeeps ==
  ASSUME TypeOK, DiscInv, OnlyOld, \A h \in Handles : Handled(h),
         Grows \/ \A h \in Handles : pending'[h] = NoQuery
  PROVE  DiscInv'
<1>1. ASSUME NEW h \in Handles, pending'[h] # NoQuery, OkAfter(pending'[h].call)
      PROVE  stmt'[h].unread /\ stmt'[h].sql # "none"
  <2>1. OkRun(pending'[h].call)
    BY <1>1 DEF Grows
  <2> QED BY <1>1, <2>1 DEF Handled, SameRows, DiscInv, Alive, Vacant
<1>2. ASSUME NEW f \in Fibers, NEW i \in DOMAIN stacks'[f]
      PROVE  LET c == stacks'[f][i] IN
             /\ c.h \in Handles => stmt'[c.h].sql # "none"
             /\ c.kind \in {"query", "execute"} =>
                  /\ ~stmt'[c.h].unread
                  /\ \A g \in Fibers : \A j \in DOMAIN stacks'[g] :
                       stacks'[g][j].h = c.h => g = f /\ j = i
             /\ c.kind = "fetchAll" => c.of = stmt'[c.h].cursor \/ stmt'[c.h].cursor = 0
  <2> DEFINE c == stacks'[f][i]
  <2>1. i \in DOMAIN stacks[f] /\ c = stacks[f][i]
    BY DEF OnlyOld
  <2>2. c.kind # "exec" => c.h \in Handles
    BY <2>1, OpenCalls
  <2>3. /\ c.h \in Handles => stmt[c.h].sql # "none"
        /\ c.kind \in {"query", "execute"} =>
             /\ ~stmt[c.h].unread
             /\ \A g \in Fibers : \A j \in DOMAIN stacks[g] :
                  stacks[g][j].h = c.h => g = f /\ j = i
        /\ c.kind = "fetchAll" => c.of = stmt[c.h].cursor \/ stmt[c.h].cursor = 0
    BY <2>1 DEF DiscInv, Alive
  <2>4. ~Vacated(c.h)
    BY DEF Vacated
  <2> HIDE DEF c
  <2>5. c.h \in Handles =>
          /\ stmt'[c.h].sql = stmt[c.h].sql /\ stmt'[c.h].cursor = stmt[c.h].cursor
          /\ stmt'[c.h].unread = stmt[c.h].unread \/ ~stmt'[c.h].unread
    BY <2>4 DEF Handled, SameRows
  <2>6. c.kind \in {"query", "execute"} =>
          \A g \in Fibers : \A j \in DOMAIN stacks'[g] :
            stacks'[g][j].h = c.h => g = f /\ j = i
    BY <2>3 DEF OnlyOld
  <2> QED BY <2>2, <2>3, <2>5, <2>6 DEF c
<1> QED BY <1>1, <1>2 DEF DiscInv, Alive, Vacant, OkRun, OkAfter

\* An end takes the innermost call and leaves the others.
LEMMA EndPlaces ==
  ASSUME TypeOK, NEW f \in Fibers, stacks[f] # <<>>,
         stacks' = [stacks EXCEPT ![f] = Front(@)]
  PROVE  /\ OnlyOld
         /\ Len(stacks[f]) \in DOMAIN stacks[f]
         /\ Last(stacks[f]) = stacks[f][Len(stacks[f])]
         /\ \A g \in Fibers : \A i \in DOMAIN stacks'[g] : ~(g = f /\ i = Len(stacks[f]))
<1> DEFINE n == Len(stacks[f])
<1>1. /\ n \in Nat \ {0} /\ DOMAIN stacks[f] = 1..n /\ DOMAIN stacks'[f] = 1..(n - 1)
      /\ \A i \in 1..(n - 1) : stacks'[f][i] = stacks[f][i]
      /\ \A g \in Fibers \ {f} : stacks'[g] = stacks[g]
      /\ Last(stacks[f]) = stacks[f][n]
  BY LeaveShrinks
<1> HIDE DEF n
<1>2. n \in DOMAIN stacks[f] /\ n \notin DOMAIN stacks'[f]
  BY <1>1
<1>3. OnlyOld
  BY <1>1 DEF OnlyOld
<1> QED BY <1>1, <1>2, <1>3 DEF n

\* A query or an execute that ends leaves its handle to nobody, and no read that
\* succeeded waited there.
LEMMA SoleLeaves ==
  ASSUME TypeOK, DiscInv, NEW f \in Fibers, stacks[f] # <<>>,
         stacks' = [stacks EXCEPT ![f] = Front(@)],
         Last(stacks[f]).kind \in {"query", "execute"}
  PROVE  LET h == Last(stacks[f]).h IN
         /\ h \in Handles /\ Vacated(h) /\ Vacant(h) /\ Alive(h) /\ ~stmt[h].unread
<1> DEFINE c == Last(stacks[f])
           n == Len(stacks[f])
<1>1. /\ OnlyOld /\ n \in DOMAIN stacks[f] /\ c = stacks[f][n]
      /\ \A g \in Fibers : \A i \in DOMAIN stacks'[g] : ~(g = f /\ i = n)
  BY EndPlaces
<1>2. c.h \in Handles
  BY <1>1, OpenCalls
<1>3. /\ Alive(c.h) /\ ~stmt[c.h].unread
      /\ \A g \in Fibers : \A j \in DOMAIN stacks[g] : stacks[g][j].h = c.h => g = f /\ j = n
  BY <1>1, <1>2 DEF DiscInv
<1> HIDE DEF c, n
<1>4. Vacated(c.h)
  BY <1>1, <1>3 DEF Vacated, OnlyOld
<1>5. Vacant(c.h)
  BY <1>2, <1>3 DEF DiscInv
<1> QED BY <1>2, <1>3, <1>4, <1>5 DEF c

\* Every end of a call does only that to the handles.
LEMMA EndHandles ==
  ASSUME TypeOK, PhaseInv, DiscInv, Grows, NEW f \in Fibers, End(f)
  PROVE  OnlyOld /\ \A h \in Handles : Handled(h)
<1> DEFINE c == Last(stacks[f])
<1>1. /\ stacks[f] # <<>> /\ stacks' = [stacks EXCEPT ![f] = Front(@)]
      /\ OnlyOld
  BY EndLeaves, EndPlaces
<1>k. ASSUME NEW kind, Leave(f, kind)
      PROVE  c.kind = kind /\ c \in Call /\ (kind # "exec" => c.h \in Handles)
  BY <1>k, LeaveType
<1>s. ASSUME c.kind \in {"query", "execute"}
      PROVE  /\ c.h \in Handles /\ Vacated(c.h) /\ Vacant(c.h)
             /\ Alive(c.h) /\ ~stmt[c.h].unread
             /\ pending'[c.h] = pending[c.h] => Handled(c.h)
  <2>1. c.h \in Handles /\ Vacated(c.h) /\ Vacant(c.h) /\ Alive(c.h) /\ ~stmt[c.h].unread
    BY <1>1, <1>s, SoleLeaves
  <2>2. ASSUME pending'[c.h] = pending[c.h] PROVE Handled(c.h)
    BY <2>1, <2>2 DEF Handled, Vacant, Grows
  <2> QED BY <2>1, <2>2
<1> HIDE DEF c
\* Only the handle h of the call that ends is touched.
<1>o. ASSUME NEW h \in Handles, Handled(h),
             \A g \in Handles \ {h} : stmt'[g] = stmt[g] /\ pending'[g] = pending[g]
      PROVE  \A g \in Handles : Handled(g)
  <2>1. \A g \in Handles \ {h} : Handled(g)
    BY <1>o DEF Handled, SameRows
  <2> QED BY <1>o, <2>1
<1>u. ASSUME stmt' = stmt, pending' = pending PROVE \A g \in Handles : Handled(g)
  BY <1>u DEF Handled, SameRows
<1>2. ASSUME NEW ok \in BOOLEAN, EndExec(f, ok) PROVE \A h \in Handles : Handled(h)
  BY <1>2, <1>u DEF EndExec
<1>3. ASSUME NEW counted \in BOOLEAN, EndQuery(f, counted) PROVE \A h \in Handles : Handled(h)
  <2>1. c.kind \in {"query", "execute"} /\ c \in Call
    BY <1>3, <1>k DEF EndQuery
  <2>2. stmt' = [stmt EXCEPT ![c.h] = [@ EXCEPT !.cursor = c.id, !.unread = TRUE]]
    BY <1>3 DEF EndQuery, c
  <2>3. stmt'[c.h].unread /\ stmt'[c.h].sql # "none"
    BY <1>s, <2>1, <2>2 DEF TypeOK, Stmt, Alive
  <2>4. Handled(c.h)
    BY <1>s, <2>1, <2>3 DEF Handled
  <2>5. \A g \in Handles \ {c.h} : stmt'[g] = stmt[g] /\ pending'[g] = pending[g]
    BY <1>3, <1>s, <2>1, <2>2 DEF EndQuery, Defer, TypeOK, c
  <2> QED BY <1>o, <1>s, <2>1, <2>4, <2>5
<1>4. ASSUME EndQueryFailed(f) PROVE \A h \in Handles : Handled(h)
  <2>1. c.kind \in {"query", "execute"}
    BY <1>4, <1>k DEF EndQueryFailed
  <2>2. stmt' = [stmt EXCEPT ![c.h] = Gone(c.h)] /\ pending' = pending
    BY <1>4 DEF EndQueryFailed, c
  <2>3. Handled(c.h)
    BY <1>s, <2>1, <2>2
  <2>4. \A g \in Handles \ {c.h} : stmt'[g] = stmt[g] /\ pending'[g] = pending[g]
    BY <2>2 DEF TypeOK
  <2> QED BY <1>o, <1>s, <2>1, <2>3, <2>4
<1>5. ASSUME NEW ok \in BOOLEAN, EndNoSql(f, ok) PROVE \A h \in Handles : Handled(h)
  <2>1. /\ pending' = pending
        /\ \/ stmt' = stmt
           \/ /\ Leave(f, "query")
              /\ \E s : stmt' = [stmt EXCEPT ![c.h] = s]
    BY <1>5 DEF EndNoSql, NoSql, c
  <2>2. CASE stmt' = stmt
    BY <1>u, <2>1, <2>2
  <2>3. CASE Leave(f, "query") /\ \E s : stmt' = [stmt EXCEPT ![c.h] = s]
    <3>1. Handled(c.h) /\ c.h \in Handles
      BY <1>k, <1>s, <2>1, <2>3
    <3>2. \A g \in Handles \ {c.h} : stmt'[g] = stmt[g] /\ pending'[g] = pending[g]
      BY <2>1, <2>3 DEF TypeOK
    <3> QED BY <1>o, <3>1, <3>2
  <2> QED BY <2>1, <2>2, <2>3
<1>6. ASSUME NEW ok \in BOOLEAN, NEW counted \in BOOLEAN, EndExecute(f, ok, counted)
      PROVE  \A h \in Handles : Handled(h)
  <2> DEFINE cursor == IF ok THEN c.id ELSE stmt[c.h].cursor
             unread == ok /\ stmt[c.h].sql = "read"
  <2>1. c.kind \in {"query", "execute"} /\ c \in Call
    BY <1>6, <1>k DEF EndExecute
  <2>2. /\ stmt' = [stmt EXCEPT ![c.h] = [@ EXCEPT !.cursor = cursor, !.unread = unread]]
        /\ \/ pending' = pending
           \/ /\ stmt[c.h].sql = "read" /\ Record(c, c.h, TRUE, ok)
              /\ \E bs, fb : Defer(c.h, Stamped(c.id, bs, fb))
    BY <1>6 DEF EndExecute, c
  <2> HIDE DEF cursor
  <2>3. Handled(c.h)
    <3>1. CASE pending' = pending
      BY <1>s, <2>1, <3>1
    <3>2. CASE /\ stmt[c.h].sql = "read" /\ Record(c, c.h, TRUE, ok)
               /\ \E bs, fb : Defer(c.h, Stamped(c.id, bs, fb))
      <4>1. pending'[c.h].call = c.id
        BY <1>s, <2>1, <3>2 DEF Defer, Stamped, TypeOK
      <4>2. OkAfter(c.id) => ok
        BY <1>s, <2>1, <3>2, RecordFails, TRUE \in BOOLEAN
      <4>3. ok => stmt'[c.h].unread /\ stmt'[c.h].sql # "none"
        BY <1>s, <2>1, <2>2, <3>2 DEF TypeOK, Stmt, Alive
      <4> QED BY <1>s, <2>1, <4>1, <4>2, <4>3 DEF Handled
    <3> QED BY <2>2, <3>1, <3>2
  <2>4. \A g \in Handles \ {c.h} : stmt'[g] = stmt[g] /\ pending'[g] = pending[g]
    BY <1>s, <2>1, <2>2 DEF Defer, TypeOK
  <2> QED BY <1>o, <1>s, <2>1, <2>3, <2>4
<1>7. ASSUME NEW ok \in BOOLEAN, EndFetchAll(f, ok) PROVE \A h \in Handles : Handled(h)
  <2>1. c.h \in Handles
    BY <1>7, <1>k DEF EndFetchAll
  <2>2. /\ stmt' = [stmt EXCEPT ![c.h] = [@ EXCEPT !.unread = FALSE]]
        /\ \/ on /\ pending[c.h] # NoQuery /\ pending' = [pending EXCEPT ![c.h] = NoQuery]
           \/ ~(on /\ pending[c.h] # NoQuery) /\ pending' = pending
    BY <1>7 DEF EndFetchAll, DeferredOf, Undefer, c
  <2>3. ~on => pending[c.h] = NoQuery
    BY <2>1 DEF PhaseInv, Waiting
  <2>4. pending'[c.h] = NoQuery
    BY <2>1, <2>2, <2>3 DEF TypeOK
  <2>5. /\ ~stmt'[c.h].unread /\ stmt'[c.h].sql = stmt[c.h].sql
        /\ stmt'[c.h].cursor = stmt[c.h].cursor
    BY <2>1, <2>2 DEF TypeOK, Stmt
  <2>6. Handled(c.h)
    BY <2>4, <2>5 DEF Handled
  <2>7. \A g \in Handles \ {c.h} : stmt'[g] = stmt[g] /\ pending'[g] = pending[g]
    BY <2>1, <2>2 DEF TypeOK
  <2> QED BY <1>o, <2>1, <2>6, <2>7
<1> QED BY <1>1, <1>2, <1>3, <1>4, <1>5, <1>6, <1>7 DEF End

\* So does what the application does to its statements ..
LEMMA StatementsHandle ==
  ASSUME Disciplined, TypeOK, DiscInv, Statements
  PROVE  OnlyOld /\ \A h \in Handles : Handled(h)
<1>1. PICK h \in Handles :
        \/ \E sql \in {"read", "write", "opaque"} : Prepare(h, sql)
        \/ Free(h)
        \/ \E p \in Params : AssignParam(h, p)
        \/ \E p \in Params, ok \in BOOLEAN : BindValue(h, p, ok)
  BY DEF Statements
<1>2. stacks' = stacks /\ pending' = pending /\ ran' = ran
  BY <1>1 DEF Prepare, Free, AssignParam, BindValue, extension
<1>3. OnlyOld
  BY <1>2 DEF OnlyOld
<1>w. ASSUME Vacant(h), Vacated(h) PROVE Handled(h)
  BY <1>2, <1>w DEF Handled, Vacant, OkRun, OkAfter
<1>v. ASSUME \A c \in Open : c.h # h PROVE Vacated(h)
  BY <1>2, <1>v, OpenCalls DEF Vacated
<1>4. Handled(h) /\ \A g \in Handles \ {h} : stmt'[g] = stmt[g]
  <2>1. ASSUME NEW sql \in {"read", "write", "opaque"}, Prepare(h, sql)
        PROVE  Handled(h) /\ \A g \in Handles \ {h} : stmt'[g] = stmt[g]
    <3>1. stmt[h].sql = "none" /\ stmt' = [stmt EXCEPT ![h] = NewStmt(h, sql)]
      BY <2>1 DEF Prepare, Alive
    <3>2. Vacant(h) /\ Vacated(h)
      BY <1>2, <3>1 DEF DiscInv, Alive, Vacated
    <3> QED BY <1>w, <3>1, <3>2 DEF TypeOK
  <2>2. ASSUME Free(h) PROVE Handled(h) /\ \A g \in Handles \ {h} : stmt'[g] = stmt[g]
    <3>1. ~Held(h) /\ ~stmt[h].unread /\ stmt' = [stmt EXCEPT ![h] = Gone(h)]
      BY <2>2 DEF Free, Disciplined
    <3>2. Vacant(h) /\ Vacated(h)
      BY <1>v, <3>1 DEF DiscInv, Held
    <3> QED BY <1>w, <3>1, <3>2 DEF TypeOK
  <2>3. ASSUME NEW p \in Params, AssignParam(h, p)
        PROVE  Handled(h) /\ \A g \in Handles \ {h} : stmt'[g] = stmt[g]
    <3>1. stmt' = [stmt EXCEPT ![h] = Assigned(@, p, FALSE)]
      BY <2>3 DEF AssignParam
    <3>2. SameRows(h)
      BY <3>1 DEF SameRows, Assigned, TypeOK, Stmt
    <3> QED BY <1>2, <3>1, <3>2 DEF Handled, TypeOK
  <2>4. ASSUME NEW p \in Params, NEW ok \in BOOLEAN, BindValue(h, p, ok)
        PROVE  Handled(h) /\ \A g \in Handles \ {h} : stmt'[g] = stmt[g]
    <3> DEFINE tidy == stmt[h].tidy /\ (p \in Names \/ p = Rebound(stmt[h]) + 1)
    <3>1. stmt' = [stmt EXCEPT ![h] = IF ok THEN Assigned(@, p, tidy)
                                      ELSE [@ EXCEPT !.tidy = FALSE]]
      BY <2>4 DEF BindValue
    <3> HIDE DEF tidy
    <3>2. SameRows(h)
      BY <3>1 DEF SameRows, Assigned, TypeOK, Stmt
    <3> QED BY <1>2, <3>1, <3>2 DEF Handled, TypeOK
  <2> QED BY <1>1, <2>1, <2>2, <2>3, <2>4
<1>5. \A g \in Handles \ {h} : Handled(g)
  BY <1>2, <1>4 DEF Handled, SameRows
<1> QED BY <1>3, <1>4, <1>5

\* .. and so do the request callbacks and a bailout.
LEMMA RequestHandles ==
  ASSUME TypeOK, PhaseInv, DiscInv, Rinit \/ Rshutdown \/ Bailout
  PROVE  OnlyOld /\ \A h \in Handles : Handled(h)
<1>e. DOMAIN <<>> = {}
  BY EmptySeq
<1>1. CASE Rinit
  BY <1>1 DEF Rinit, Reset, OnlyOld, Handled, SameRows
<1>2. CASE RshutdownDrain
  BY <1>2 DEF RshutdownDrain, OnlyOld, Handled, SameRows
<1>3. ASSUME NEW q \in draining, FlushEmit(q) PROVE OnlyOld /\ \A h \in Handles : Handled(h)
  BY <1>3 DEF FlushEmit, extension, OnlyOld, Handled, SameRows
<1>4. CASE RshutdownDone
  <2>1. \A f \in Fibers : stacks'[f] = <<>>
    BY <1>4 DEF RshutdownDone, PhaseInv, Quiet
  <2>2. \A h \in Handles : pending[h] = NoQuery /\ pending'[h] = NoQuery
    BY <1>4 DEF RshutdownDone, extension, PhaseInv
  <2> QED BY <1>4, <1>e, <2>1, <2>2 DEF RshutdownDone, OnlyOld, Handled, Vacated, Vacant
<1>5. CASE Bailout
  <2>1. \A f \in Fibers : stacks'[f] = <<>>
    BY <1>5 DEF Bailout
  <2>2. OnlyOld /\ \A h \in Handles : Vacated(h)
    BY <1>e, <2>1 DEF OnlyOld, Vacated
  <2>3. ASSUME NEW h \in Handles PROVE Handled(h)
    <3>1. CASE \E c \in Open : c.h = h /\ c.kind = "query"
      <4>1. \E f \in Fibers : \E i \in DOMAIN stacks[f] :
              stacks[f][i].h = h /\ stacks[f][i].kind = "query"
        BY <3>1 DEF Open
      <4>2. Vacant(h)
        BY <4>1 DEF DiscInv
      <4> QED BY <1>5, <2>2, <4>2 DEF Bailout, extension, Handled, Vacant, OkRun, OkAfter
    <3>2. CASE ~ \E c \in Open : c.h = h /\ c.kind = "query"
      <4>1. \E t : stmt'[h] = [stmt[h] EXCEPT !.tidy = t]
        BY <1>5, <3>2 DEF Bailout
      <4>2. SameRows(h)
        BY <4>1 DEF SameRows, TypeOK, Stmt
      <4> QED BY <1>5, <4>2 DEF Bailout, extension, Handled
    <3> QED BY <3>1, <3>2
  <2> QED BY <2>2, <2>3
<1> QED BY <1>1, <1>2, <1>3, <1>4, <1>5 DEF Rshutdown

\* A call that begins finds its handle as the discipline wants it.
LEMMA BeginDisc ==
  ASSUME Disciplined, TypeOK, DiscInv, NEW f \in Fibers, Begin(f)
  PROVE  DiscInv'
<1>1. PICK d \in Call : Enter(f, d) /\ Begins(d)
  BY BeginType
<1> DEFINE n == Len(stacks[f])
<1>2. /\ n \in Nat /\ DOMAIN stacks[f] = 1..n /\ DOMAIN stacks'[f] = 1..(n + 1)
      /\ \A i \in 1..n : stacks'[f][i] = stacks[f][i]
      /\ stacks'[f][n + 1].h = d.h /\ stacks'[f][n + 1].kind = d.kind
      /\ stacks'[f][n + 1].of = d.of
      /\ \A g \in Fibers \ {f} : stacks'[g] = stacks[g]
      /\ pending' = pending /\ ran' = ran
  BY <1>1, EnterGrows
<1> HIDE DEF n
\* A place on a stack is an old one, or the new call's.
<1>3. ASSUME NEW g \in Fibers, NEW j \in DOMAIN stacks'[g]
      PROVE  \/ j \in DOMAIN stacks[g] /\ stacks'[g][j] = stacks[g][j]
             \/ g = f /\ j = n + 1
  <2>1. CASE g = f
    BY <1>2, <2>1
  <2>2. CASE g # f
    BY <1>2, <2>2
  <2> QED BY <2>1, <2>2
<1>4. d.kind \in {"exec", "query", "execute", "fetchAll"}
      /\ (d.kind = "exec" => d.h \notin Handles) /\ (d.kind # "exec" => d.h \in Handles)
  BY <1>1, QueriesAssumption DEF Begins
\* Rows and SQL are kept, except those of the statement a query just made.
<1>5. ASSUME NEW h \in Handles PROVE SameRows(h) \/ (d.kind = "query" /\ h = d.h)
  BY <1>5, <1>1 DEF Begins, SameRows, TypeOK
<1>6. d.kind = "query" => ~Alive(d.h) /\ stmt'[d.h].sql # "none" /\ ~stmt'[d.h].unread
  <2> SUFFICES ASSUME d.kind = "query"
               PROVE  ~Alive(d.h) /\ stmt'[d.h].sql # "none" /\ ~stmt'[d.h].unread
    OBVIOUS
  <2>1. ~Alive(d.h) /\ d.h \in Handles
    BY <1>1 DEF Begins
  <2>2. PICK sql \in {"read", "write", "opaque"} : stmt' = [stmt EXCEPT ![d.h] = NewStmt(d.h, sql)]
    BY <1>1 DEF Begins
  <2>3. stmt'[d.h] = NewStmt(d.h, sql)
    BY <2>1, <2>2 DEF TypeOK
  <2>4. NewStmt(d.h, sql).sql = sql /\ ~NewStmt(d.h, sql).unread
    BY DEF NewStmt, NoStmt
  <2> QED BY <2>1, <2>3, <2>4
<1>7. d.kind = "execute" => Alive(d.h) /\ ~stmt[d.h].unread /\ \A c \in Open : c.h # d.h
  BY <1>1 DEF Begins, Held, Disciplined
<1>8. d.kind = "fetchAll" => /\ Alive(d.h)
                             /\ d.of = stmt[d.h].cursor \/ stmt[d.h].cursor = 0
                             /\ \A c \in Open : c.h = d.h => c.kind = "fetchAll"
  BY <1>1 DEF Begins, Busy
\* Nobody else is on the handle of a query or an execute that begins.
<1>9. d.kind \in {"query", "execute"} =>
        \A g \in Fibers : \A j \in DOMAIN stacks[g] : stacks[g][j].h # d.h
  BY <1>4, <1>6, <1>7, OpenCalls DEF DiscInv
<1>10. ASSUME NEW h \in Handles, ~Vacant(h)
       PROVE  stmt'[h].unread /\ stmt'[h].sql # "none"
  BY <1>2, <1>5, <1>6, <1>10 DEF DiscInv, SameRows, Alive
<1>11. ASSUME NEW g \in Fibers, NEW i \in DOMAIN stacks'[g]
       PROVE  LET c == stacks'[g][i] IN
              /\ c.h \in Handles => stmt'[c.h].sql # "none"
              /\ c.kind \in {"query", "execute"} =>
                   /\ ~stmt'[c.h].unread
                   /\ \A k \in Fibers : \A j \in DOMAIN stacks'[k] :
                        stacks'[k][j].h = c.h => k = g /\ j = i
              /\ c.kind = "fetchAll" => c.of = stmt'[c.h].cursor \/ stmt'[c.h].cursor = 0
  <2> DEFINE c == stacks'[g][i]
  <2>1. CASE i \in DOMAIN stacks[g] /\ c = stacks[g][i]
    <3>1. /\ c.h \in Handles => Alive(c.h)
          /\ c.kind \in {"query", "execute"} =>
               /\ ~stmt[c.h].unread
               /\ \A k \in Fibers : \A j \in DOMAIN stacks[k] :
                    stacks[k][j].h = c.h => k = g /\ j = i
          /\ c.kind = "fetchAll" => c.of = stmt[c.h].cursor \/ stmt[c.h].cursor = 0
      BY <2>1 DEF DiscInv
    <3>2. c \in Open /\ (c.kind # "exec" => c.h \in Handles)
          /\ (c.kind = "exec" => c.h \notin Handles)
      BY <2>1, OpenCalls, QueriesAssumption
    <3>3. d.kind \in {"query", "execute"} => c.h # d.h
      BY <1>9, <2>1
    <3> HIDE DEF c
    <3>4. c.h \in Handles => SameRows(c.h)
      BY <1>5, <3>3
    <3>5. c.kind \in {"query", "execute"} => d.h # c.h
      BY <1>4, <1>8, <3>2, <3>3
    <3>6. c.kind \in {"query", "execute"} =>
            \A k \in Fibers : \A j \in DOMAIN stacks'[k] :
              stacks'[k][j].h = c.h => k = g /\ j = i
      <4> SUFFICES ASSUME c.kind \in {"query", "execute"},
                          NEW k \in Fibers, NEW j \in DOMAIN stacks'[k], stacks'[k][j].h = c.h
                   PROVE  k = g /\ j = i
        OBVIOUS
      <4>1. j \in DOMAIN stacks[k] /\ stacks'[k][j] = stacks[k][j]
        BY <1>2, <1>3, <3>5
      <4> QED BY <3>1, <4>1
    <3> QED BY <3>1, <3>2, <3>4, <3>6 DEF SameRows, Alive, c
  <2>2. CASE g = f /\ i = n + 1
    <3>1. c.h = d.h /\ c.kind = d.kind /\ c.of = d.of
      BY <1>2, <2>2
    <3>2. d.kind \in {"query", "execute"} =>
            \A k \in Fibers : \A j \in DOMAIN stacks'[k] :
              stacks'[k][j].h = d.h => k = g /\ j = i
      BY <1>3, <1>9, <2>2
    <3> HIDE DEF c
    <3>3. d.kind # "query" /\ d.h \in Handles => SameRows(d.h)
      BY <1>5
    <3>4. d.h \in Handles => stmt'[d.h].sql # "none"
      BY <1>4, <1>6, <1>7, <1>8, <3>3 DEF SameRows, Alive
    <3>5. d.kind \in {"query", "execute"} => ~stmt'[d.h].unread
      BY <1>4, <1>6, <1>7, <3>3 DEF SameRows
    <3>6. d.kind = "fetchAll" => d.of = stmt'[d.h].cursor \/ stmt'[d.h].cursor = 0
      BY <1>4, <1>8, <3>3 DEF SameRows
    <3> QED BY <3>1, <3>2, <3>4, <3>5, <3>6 DEF c
  <2> QED BY <1>3, <2>1, <2>2
<1>12. \A h \in Handles : Vacant(h) => Vacant(h)'
  BY <1>2 DEF Vacant, OkRun
<1> QED BY <1>10, <1>11, <1>12 DEF DiscInv, Alive

\* The discipline holds at first ..
LEMMA InitDisc == Init => DiscInv
<1> SUFFICES ASSUME Init PROVE DiscInv
  OBVIOUS
<1>1. \A h \in Handles : pending[h] = NoQuery
  BY DEF Init
<1>2. \A f \in Fibers : DOMAIN stacks[f] = {}
  BY EmptySeq DEF Init
<1> QED BY <1>1, <1>2 DEF DiscInv, Vacant

\* .. and after every step.
LEMMA NextDisc ==
  ASSUME Disciplined, TypeOK, PhaseInv, DiscInv, [Next]_vars
  PROVE  DiscInv'
<1>g. Grows \/ \A h \in Handles : pending'[h] = NoQuery
  <2>1. Rinit => \A h \in Handles : pending'[h] = NoQuery
    BY DEF Rinit, Reset
  <2> QED BY <2>1, StepGrows
<1>n. (\E f \in Fibers : End(f)) => Grows
  <2>1. \A f \in Fibers : End(f) => phase' = phase /\ stacks[f] # <<>>
    BY EndLeaves
  <2>2. Rinit => phase' # phase
    BY DEF Rinit
  <2> QED BY <2>1, <2>2, StepGrows
<1>1. CASE UNCHANGED vars
  <2>1. OnlyOld /\ \A h \in Handles : Handled(h)
    BY <1>1 DEF vars, extension, OnlyOld, Handled, SameRows
  <2> QED BY <1>g, <2>1, HandledKeeps
<1>2. CASE Statements
  BY <1>2, <1>g, StatementsHandle, HandledKeeps
<1>3. ASSUME NEW f \in Fibers, Begin(f) PROVE DiscInv'
  BY <1>3, BeginDisc
<1>4. ASSUME NEW f \in Fibers, End(f) PROVE DiscInv'
  BY <1>4, <1>n, EndHandles, HandledKeeps
<1>5. CASE Rinit \/ Rshutdown \/ Bailout
  BY <1>5, <1>g, RequestHandles, HandledKeeps
<1> QED BY <1>1, <1>2, <1>3, <1>4, <1>5 DEF Next

-----------------------------------------------------------------------------
(* No read is lost.                                                          *)

\* A read is deferred only where none that succeeded waits.
LEMMA DeferVacant ==
  ASSUME TypeOK, DiscInv, NEW f \in Fibers, NEW h \in Handles, NEW q \in Query,
         Deferred(f, h, q)
  PROVE  /\ q \in Waiting' /\ Waiting' \subseteq Waiting \cup {q}
         /\ \A p \in Waiting : OkRun(p.call) => p \in Waiting'
<1>1. Vacant(h)
  <2>1. /\ stacks[f] # <<>> /\ stacks' = [stacks EXCEPT ![f] = Front(@)]
        /\ h = Last(stacks[f]).h /\ Last(stacks[f]).kind \in {"query", "execute"}
    BY DEF Deferred, Executed, Ending
  <2> QED BY <2>1, SoleLeaves
<1>2. /\ draining' = draining /\ pending'[h] = q
      /\ \A g \in Handles \ {h} : pending'[g] = pending[g]
  BY DEF Deferred, Executed, Defer, TypeOK
<1>3. q # NoQuery
  BY NoQueryAssumption
<1>4. q \in Waiting' /\ Waiting' \subseteq Waiting \cup {q}
  BY <1>2, <1>3 DEF Waiting
<1>5. ASSUME NEW p \in Waiting, OkRun(p.call) PROVE p \in Waiting'
  <2>1. p # NoQuery
    BY NoQueryAssumption DEF Waiting, TypeOK
  <2>2. p # pending[h]
    BY <1>1, <1>5, <2>1 DEF Vacant
  <2> QED BY <1>2, <2>1, <2>2 DEF Waiting
<1> QED BY <1>4, <1>5

\* Every step knows of the executions that it knew and that succeeded, and of the
\* one that ends.
LEMMA NextRead ==
  ASSUME TypeOK, PhaseInv, OneRun, DiscInv, NoReadLost, [Next]_vars
  PROVE  NoReadLost'
<1>f. frames' = frames => Told' = Told
  BY DEF Told, FrameSet
<1>u. ASSUME Known \subseteq Known', ran' = ran PROVE NoReadLost'
  BY <1>u DEF NoReadLost, Ids
<1>x. ASSUME NEW f \in Fibers, NEW q \in Query, NEW h \in Handles \cup {NoHandle},
             NEW d \in BOOLEAN, NEW r, Executed(f, q, h, d, r), q \in Known',
             \A p \in Known : OkRun(p.call) => p \in Known'
      PROVE  NoReadLost'
  <2>1. /\ Len(ran) \in Nat /\ DOMAIN ran = 1..Len(ran) /\ DOMAIN ran' = 1..(Len(ran) + 1)
        /\ \A i \in 1..Len(ran) : ran'[i] = ran[i]
        /\ ran'[Len(ran) + 1].call = q.call
    BY <1>x, ExecutedStamp
  <2>2. \A i \in DOMAIN ran' : i \in 1..Len(ran) \/ i = Len(ran) + 1
    BY <2>1
  <2>3. ASSUME NEW i \in 1..Len(ran), ran[i].ok PROVE ran[i].call \in Ids(Known')
    <3>1. PICK p \in Known : ran[i].call = p.call
      BY <2>1, <2>3 DEF NoReadLost, Ids
    <3>2. OkRun(p.call)
      BY <2>1, <2>3, <3>1 DEF OkRun, OneRun
    <3> QED BY <1>x, <3>1, <3>2 DEF Ids
  <2>4. q.call \in Ids(Known')
    BY <1>x DEF Ids
  <2> QED BY <2>1, <2>2, <2>3, <2>4 DEF NoReadLost, Ids
<1>1. CASE Rinit
  <2>1. ran' = <<>> /\ DOMAIN <<>> = {}
    BY <1>1, EmptySeq DEF Rinit
  <2> QED BY <2>1 DEF NoReadLost
<1>2. CASE Rshutdown
  BY <1>2, <1>u, ShutdownKeeps
<1>3. CASE NothingNew
  BY <1>3, <1>u, <1>f DEF NothingNew, Known, Waiting
<1>4. ASSUME NEW f \in Fibers, NEW q \in Query, ToldAtOnce(f, q) PROVE NoReadLost'
  <2>1. PICK h \in Handles \cup {NoHandle}, r \in Nat :
          Executed(f, q, h, FALSE, r) /\ Emit(q, r) /\ pending' = pending
    BY <1>4 DEF ToldAtOnce
  <2>2. on /\ Waiting' = Waiting
    BY <2>1 DEF Executed, Ending, Waiting
  <2>3. Told' = Told \cup {q}
    BY <2>1, <2>2, EmitGrows
  <2>4. Known \cup {q} \subseteq Known'
    BY <2>2, <2>3 DEF Known
  <2>5. q \in Known' /\ \A p \in Known : p \in Known'
    BY <2>4
  <2> QED BY <1>x, <2>1, <2>5
<1>5. ASSUME NEW f \in Fibers, NEW h \in Handles, NEW q \in Query, Deferred(f, h, q)
      PROVE  NoReadLost'
  <2>1. Executed(f, q, h, TRUE, q.fallback) /\ Told' = Told
    BY <1>5, <1>f DEF Deferred
  <2>2. q \in Known' /\ \A p \in Known : OkRun(p.call) => p \in Known'
    BY <1>5, <2>1, DeferVacant DEF Known
  <2> QED BY <1>x, <2>1, <2>2
<1>6. ASSUME NEW f \in Fibers, NEW h \in Handles, NEW r \in Nat, Fetched(f, h, r)
      PROVE  NoReadLost'
  <2> DEFINE q == pending[h]
  <2>1. q \in Query /\ on /\ Emit(q, r) /\ draining' = draining /\ ran' = ran
    BY <1>6 DEF Fetched, TypeOK
  <2>2. \A g \in Handles \ {h} : pending'[g] = pending[g]
    BY <1>6 DEF Fetched, Undefer, TypeOK
  <2>3. Told' = Told \cup {q}
    BY <2>1, EmitGrows
  <2>4. Waiting \subseteq Waiting' \cup {q}
    BY <2>1, <2>2 DEF Waiting
  <2> QED BY <1>u, <2>1, <2>3, <2>4 DEF Known
<1> QED BY <1>1, <1>2, <1>3, <1>4, <1>5, <1>6, StepKinds DEF Kinds

(* An application that fetches the rows of a read that succeeded before it   *)
(* executes the statement again or lets go of it loses no such query: every  *)
(* execution that succeeded is told or waits to be (queries.rs:13), through  *)
(* bailouts, fibers and failures, of which a failed read may be retried or   *)
(* freed at once and be overwritten (queries.rs:171-187).                    *)
THEOREM ReadsAreNotLost == ASSUME Disciplined PROVE Spec => []NoReadLost
<1> DEFINE I == TypeOK /\ PhaseInv /\ IdInv /\ StampKept /\ OneRun /\ DiscInv /\ NoReadLost
<1>1. Init => I
  <2> SUFFICES ASSUME Init PROVE StampKept /\ OneRun /\ NoReadLost
    BY InitType, InitPhase, InitId, InitDisc
  <2>1. ran = <<>> /\ DOMAIN <<>> = {}
    BY EmptySeq DEF Init
  <2> QED BY <2>1, InitKnows DEF NoReadLost, OneRun, StampKept
<1>2. I /\ [Next]_vars => I'
  BY NextType, NextPhase, NextId, NextStamp, NextOneRun, NextDisc, NextRead
<1>3. I => NoReadLost
  OBVIOUS
<1> QED BY <1>1, <1>2, <1>3, PTL DEF Spec

-----------------------------------------------------------------------------
(* Rows are counted for their own query.                                     *)

\* The statement under a handle keeps its rows while a read that succeeded waits
\* there.
LEMMA CursorKept ==
  ASSUME Disciplined, TypeOK, PhaseInv, DiscInv, [Next]_vars,
         NEW h \in Handles, pending'[h] # NoQuery, pending'[h] = pending[h],
         OkAfter(pending'[h].call)
  PROVE  stmt'[h].cursor = stmt[h].cursor
<1>g. Grows
  <2>1. ~Rinit
    BY DEF Rinit, Reset
  <2> QED BY <2>1, StepGrows
<1>v. ~Vacant(h)
  BY <1>g DEF Vacant, Grows
<1>h. ASSUME Handled(h) PROVE stmt'[h].cursor = stmt[h].cursor
  BY <1>h, <1>v DEF Handled, SameRows
<1>1. CASE UNCHANGED vars
  BY <1>1 DEF vars
<1>2. CASE Statements
  BY <1>2, <1>h, StatementsHandle
<1>3. ASSUME NEW f \in Fibers, Begin(f) PROVE stmt'[h].cursor = stmt[h].cursor
  <2>1. PICK d \in Call : Begins(d)
    BY <1>3, BeginType
  <2>2. Alive(h)
    BY <1>v DEF DiscInv
  <2> QED BY <2>1, <2>2 DEF Begins, SameRows, TypeOK
<1>4. ASSUME NEW f \in Fibers, End(f) PROVE stmt'[h].cursor = stmt[h].cursor
  BY <1>4, <1>g, <1>h, EndHandles
<1>5. CASE Rinit \/ Rshutdown \/ Bailout
  BY <1>5, <1>h, RequestHandles
<1> QED BY <1>1, <1>2, <1>3, <1>4, <1>5 DEF Next

\* Why: a count taken, or that a fetchAll would take, is of the rows of the very
\* execution, if that succeeded.
RowsInv ==
  /\ \A x \in FrameSet : OkRun(x.q.call) => x.rows \in {0, x.q.call}
  /\ \A q \in Waiting : OkRun(q.call) => q.fallback \in {0, q.call}
  /\ \A h \in Handles : pending[h] # NoQuery /\ OkRun(pending[h].call)
                        => stmt[h].cursor = pending[h].call

\* Every step keeps it so.
LEMMA NextRows ==
  ASSUME Disciplined, TypeOK, PhaseInv, DiscInv, CarryInv, RowsInv, [Next]_vars
  PROVE  RowsInv'
\* Nothing new is told or waits, or only the x and q whose rows are their own.
<1>t. ASSUME Grows,
             \A x \in FrameSet' : x \in FrameSet
                                  \/ (OkAfter(x.q.call) => x.rows \in {0, x.q.call}),
             \A q \in Waiting' : q \in Waiting
                                 \/ (OkAfter(q.call) => q.fallback \in {0, q.call}),
             \A h \in Handles : pending'[h] # NoQuery =>
               \/ pending'[h] = pending[h]
               \/ OkAfter(pending'[h].call) => stmt'[h].cursor = pending'[h].call
      PROVE  RowsInv'
  <2>1. \A x \in FrameSet' : OkAfter(x.q.call) => x.rows \in {0, x.q.call}
    BY <1>t DEF RowsInv, Grows
  <2>2. \A q \in Waiting' : OkAfter(q.call) => q.fallback \in {0, q.call}
    BY <1>t DEF RowsInv, Grows
  <2>3. \A h \in Handles : pending'[h] # NoQuery /\ OkAfter(pending'[h].call)
                           => stmt'[h].cursor = pending'[h].call
    BY <1>t, CursorKept DEF RowsInv, Grows
  <2> QED BY <2>1, <2>2, <2>3 DEF RowsInv, OkRun, OkAfter
<1>r. ran' = ran => Grows
  BY DEF Grows, OkRun, OkAfter
<1>f. frames' = frames => FrameSet' = FrameSet
  BY DEF FrameSet
<1>1. CASE Rinit
  <2>1. Known' = {} /\ frames' = <<>> /\ \A h \in Handles : pending'[h] = NoQuery
    BY <1>1, RinitKnows DEF Rinit, Reset
  <2>2. FrameSet' = {} /\ Waiting' = {}
    BY <2>1, EmptySeq DEF FrameSet, Known
  <2> QED BY <2>1, <2>2 DEF RowsInv
<1>2. CASE RshutdownDrain
  <2>1. Waiting' \subseteq Waiting /\ ran' = ran /\ frames' = frames
        /\ \A h \in Handles : pending'[h] = NoQuery
    BY <1>2 DEF RshutdownDrain, Waiting
  <2> QED BY <1>t, <1>r, <1>f, <2>1
<1>3. ASSUME NEW q \in draining, FlushEmit(q) PROVE RowsInv'
  <2>1. q \in Query /\ q.fallback \in Nat /\ q \in Waiting /\ on
    BY DEF TypeOK, Query, PhaseInv, Waiting
  <2>2. Waiting' \subseteq Waiting /\ ran' = ran /\ pending' = pending
    BY <1>3 DEF FlushEmit, extension, Waiting
  <2>3. FrameSet' = FrameSet \cup {[q |-> q, rows |-> q.fallback]}
    BY <1>3, <2>1, EmitGrows DEF FlushEmit
  <2>4. OkAfter(q.call) => q.fallback \in {0, q.call}
    BY <1>r, <2>1, <2>2 DEF RowsInv, Grows
  <2> QED BY <1>t, <1>r, <2>2, <2>3, <2>4
<1>4. CASE RshutdownDone
  <2>1. UNCHANGED <<pending, draining, frames, ran>>
    BY <1>4 DEF RshutdownDone, extension
  <2>2. Waiting' = Waiting
    BY <2>1 DEF Waiting
  <2> QED BY <1>t, <1>r, <1>f, <2>1, <2>2
<1>5. CASE NothingNew
  <2>1. Waiting' = Waiting
    BY <1>5 DEF NothingNew, Waiting
  <2> QED BY <1>5, <1>t, <1>r, <1>f, <2>1 DEF NothingNew
<1>6. ASSUME NEW f \in Fibers, NEW q \in Query, ToldAtOnce(f, q) PROVE RowsInv'
  <2>1. PICK h \in Handles \cup {NoHandle}, r \in Nat :
          Executed(f, q, h, FALSE, r) /\ Emit(q, r) /\ pending' = pending
    BY <1>6 DEF ToldAtOnce
  <2>2. on /\ Waiting' = Waiting
    BY <2>1 DEF Executed, Ending, Waiting
  <2>3. FrameSet' = FrameSet \cup {[q |-> q, rows |-> r]}
    BY <2>1, <2>2, EmitGrows
  <2>4. Grows
    BY <2>1, RunGrows, FALSE \in BOOLEAN
  <2>5. OkAfter(q.call) => r \in {0, q.call}
    BY <2>1, RunGrows, FALSE \in BOOLEAN
  <2> QED BY <1>t, <2>1, <2>2, <2>3, <2>4, <2>5
<1>7. ASSUME NEW f \in Fibers, NEW h \in Handles, NEW q \in Query, Deferred(f, h, q)
      PROVE  RowsInv'
  <2>1. Executed(f, q, h, TRUE, q.fallback) /\ FrameSet' = FrameSet
    BY <1>7, <1>f DEF Deferred
  <2>2. Waiting' \subseteq Waiting \cup {q}
    BY <1>7, DeferVacant
  <2>3. Grows
    BY <2>1, RunGrows, TRUE \in BOOLEAN
  <2>4. OkAfter(q.call) => q.fallback \in {0, q.call} /\ stmt'[h].cursor = q.call
    BY <2>1, RunGrows, TRUE \in BOOLEAN
  <2>5. pending'[h] = q /\ \A g \in Handles \ {h} : pending'[g] = pending[g]
    BY <1>7 DEF Deferred, Defer, TypeOK
  <2> QED BY <1>t, <2>1, <2>2, <2>3, <2>4, <2>5
<1>8. ASSUME NEW f \in Fibers, NEW h \in Handles, NEW r \in Nat, Fetched(f, h, r)
      PROVE  RowsInv'
  <2> DEFINE q == pending[h]
             c == Last(stacks[f])
             n == Len(stacks[f])
  <2>1. /\ q \in Query /\ q \in Waiting /\ on /\ Emit(q, r) /\ ran' = ran
        /\ draining' = draining /\ r \in {c.of, q.fallback}
        /\ stacks[f] # <<>> /\ c.kind = "fetchAll" /\ c.h = h
    BY <1>8 DEF Fetched, TypeOK, Waiting
  <2>2. pending'[h] = NoQuery /\ \A g \in Handles \ {h} : pending'[g] = pending[g]
    BY <1>8 DEF Fetched, Undefer, TypeOK
  <2>3. Waiting' \subseteq Waiting
    BY <2>1, <2>2 DEF Waiting
  <2>4. FrameSet' = FrameSet \cup {[q |-> q, rows |-> r]}
    BY <2>1, EmitGrows
  <2>5. n \in DOMAIN stacks[f] /\ c = stacks[f][n]
    <3>1. stacks[f] \in Seq(Call)
      BY DEF TypeOK
    <3> QED BY <2>1, <3>1, FrontProperties, LenProperties DEF Last
  <2>6. c.of = stmt[h].cursor \/ stmt[h].cursor = 0
    BY <2>1, <2>5 DEF DiscInv
  <2>7. OkRun(q.call) => q.fallback \in {0, q.call} /\ stmt[h].cursor = q.call
    BY <1>8, <2>1 DEF RowsInv, Fetched
  <2>8. q.call # 0
    <3>1. q.call > mark.calls /\ mark.calls \in Nat /\ q.call \in Nat
      BY <2>1 DEF CarryInv, NoCarryOver, Known, TypeOK, Query
    <3> QED BY <3>1
  <2> HIDE DEF q, c
  <2>9. OkAfter(q.call) => r \in {0, q.call}
    BY <1>r, <2>1, <2>6, <2>7, <2>8 DEF Grows
  <2> QED BY <1>t, <1>r, <2>1, <2>2, <2>3, <2>4, <2>9
<1> QED BY <1>1, <1>2, <1>3, <1>4, <1>5, <1>6, <1>7, <1>8, StepKinds DEF Kinds, Rshutdown

(* A row count shown for a query that succeeded is the count of that query's *)
(* own rows, whether the return value, rowCount() or fetchAll() gave it      *)
(* (queries.rs:140, 149, 202), for an application that reads its rows in turn. *)
THEOREM RowsAreOwn == ASSUME Disciplined PROVE Spec => []RowsOwn
<1> DEFINE I == /\ TypeOK /\ PhaseInv /\ IdInv /\ StampKept /\ OneRun
                /\ DiscInv /\ CarryInv /\ RowsInv
<1>1. Init => I
  <2> SUFFICES ASSUME Init PROVE StampKept /\ OneRun /\ CarryInv /\ RowsInv
    BY InitType, InitPhase, InitId, InitDisc
  <2>1. ran = <<>> /\ frames = <<>> /\ DOMAIN <<>> = {} /\ \A h \in Handles : pending[h] = NoQuery
    BY EmptySeq DEF Init
  <2>2. FrameSet = {} /\ Waiting = {}
    BY <2>1, InitKnows DEF FrameSet, Known
  <2> QED BY <2>1, <2>2, InitKnows, InitCarry DEF StampKept, OneRun, RowsInv
<1>2. I /\ [Next]_vars => I'
  BY NextType, NextPhase, NextId, NextStamp, NextOneRun, NextDisc, NextCarry, NextRows
<1>3. I => RowsOwn
  <2> SUFFICES ASSUME StampKept, OneRun, RowsInv, NEW x \in FrameSet, Truth(x.q.call).ok
               PROVE  x.rows \in {0, x.q.call}
    BY DEF RowsOwn
  <2>1. \E i \in DOMAIN ran : ran[i].call = x.q.call
    BY DEF StampKept, Known, Told
  <2> DEFINE k == CHOOSE i \in DOMAIN ran : ran[i].call = x.q.call
  <2>2. k \in DOMAIN ran /\ ran[k].call = x.q.call
    BY <2>1
  <2>3. ran[k].ok
    BY DEF Truth
  <2> HIDE DEF k
  <2>4. OkRun(x.q.call)
    BY <2>2, <2>3 DEF OkRun, OneRun
  <2> QED BY <2>4 DEF RowsInv
<1> QED BY <1>1, <1>2, <1>3, PTL DEF Spec

-----------------------------------------------------------------------------
(* The observer keeps the ledger.                                            *)

\* The calls are within the bound.
CallsBound == calls <= MaxCalls

\* And stay so.
LEMMA NextBounded ==
  ASSUME TypeOK, CallsBound, [Next]_vars
  PROVE  CallsBound'
<1>1. ASSUME NEW f \in Fibers, Begin(f) PROVE calls' <= MaxCalls
  <2>1. PICK c \in Call : Enter(f, c)
    BY <1>1, BeginType
  <2> QED BY <2>1, QueriesAssumption DEF Enter, TypeOK
<1>2. ASSUME NEW f \in Fibers, End(f) PROVE calls' <= MaxCalls
  BY <1>2, EndLeaves DEF CallsBound
<1>3. CASE UNCHANGED vars \/ Rinit \/ Statements \/ Bailout \/ Rshutdown
  BY <1>3 DEF CallsBound, vars, Rinit, Statements, Prepare, Free, AssignParam, BindValue,
              Bailout, Rshutdown, RshutdownDrain, FlushEmit, RshutdownDone
<1> QED BY <1>1, <1>2, <1>3 DEF Next, CallsBound

\* Succeeded, after the step.
SucceededAfter(n) == \E i \in DOMAIN ran' : ran'[i].call = n /\ ran'[i].ok

\* The ledger's variables, of the executions that succeeded.
Owed     == {[call |-> q.call, ts |-> q.ts] : q \in {w \in Waiting : Succeeded(w.call)}}
Accounts == {[call |-> x.q.call, ts |-> x.q.ts, rows |-> x.rows] :
               x \in {y \in FrameSet : Succeeded(y.q.call)}}

\* An execution is recorded once, so that one that succeeded never failed.
LEMMA SucceedsOnce ==
  ASSUME OneRun, NEW n, Succeeded(n)
  PROVE  OkRun(n)
  BY DEF OneRun, Succeeded, OkRun

\* What the ledger's variables become.
LEMMA LedgerAfter ==
  /\ Owed' = {[call |-> q.call, ts |-> q.ts] : q \in {w \in Waiting' : SucceededAfter(w.call)}}
  /\ Accounts' = {[call |-> x.q.call, ts |-> x.q.ts, rows |-> x.rows] :
                    x \in {y \in FrameSet' : SucceededAfter(y.q.call)}}
  BY DEF Owed, Accounts, Succeeded, SucceededAfter

\* The execution that ends is recorded, and the others are not touched.
LEMMA ExecutedSucceeds ==
  ASSUME TypeOK, IdInv, StampKept, NEW f \in Fibers, NEW q \in Query,
         NEW h \in Handles \cup {NoHandle}, NEW d \in BOOLEAN, NEW r, Executed(f, q, h, d, r)
  PROVE  /\ \A p \in Known : SucceededAfter(p.call) <=> Succeeded(p.call)
         /\ SucceededAfter(q.call) => r \in {0, q.call}
<1> DEFINE l == Len(ran)
<1>1. /\ l \in Nat /\ DOMAIN ran = 1..l /\ DOMAIN ran' = 1..(l + 1)
      /\ \A i \in 1..l : ran'[i] = ran[i]
      /\ ran'[l + 1].call = q.call
  BY ExecutedStamp
<1>2. q.call \notin RanIds /\ q.call \notin Ids(Known)
  BY FreshCall
<1>3. OkAfter(q.call) => r \in {0, q.call}
  BY RunGrows
<1> HIDE DEF l
<1>4. \A i \in DOMAIN ran' : i \in 1..l \/ i = l + 1
  BY <1>1
<1>5. \A i \in 1..l : ran[i].call # q.call
  BY <1>1, <1>2 DEF RanIds
<1>6. SucceededAfter(q.call) => OkAfter(q.call)
  BY <1>1, <1>4, <1>5 DEF SucceededAfter, OkAfter
<1>7. ASSUME NEW p \in Known PROVE SucceededAfter(p.call) <=> Succeeded(p.call)
  <2>1. p.call # q.call
    BY <1>2 DEF Ids
  <2>2. 1..l \subseteq DOMAIN ran'
    BY <1>1
  <2> QED BY <1>1, <1>4, <2>1, <2>2 DEF SucceededAfter, Succeeded
<1> QED BY <1>3, <1>6, <1>7

\* A query that is told gets an account, if its execution succeeded.
LEMMA TellAccounts ==
  ASSUME NEW q, NEW r, FrameSet' = FrameSet \cup {[q |-> q, rows |-> r]},
         \A x \in FrameSet : SucceededAfter(x.q.call) <=> Succeeded(x.q.call)
  PROVE  Accounts' = IF SucceededAfter(q.call)
                     THEN Accounts \cup {[call |-> q.call, ts |-> q.ts, rows |-> r]}
                     ELSE Accounts
<1> DEFINE x == [q |-> q, rows |-> r]
           As(X) == {[call |-> y.q.call, ts |-> y.q.ts, rows |-> y.rows] : y \in X}
           Ok == {y \in FrameSet : Succeeded(y.q.call)}
           Ok2 == {y \in FrameSet' : SucceededAfter(y.q.call)}
<1>1. x.q = q /\ x.rows = r
  OBVIOUS
<1>2. Accounts = As(Ok) /\ Accounts' = As(Ok2)
  BY LedgerAfter DEF Accounts
<1> HIDE DEF x
<1>3. FrameSet' = FrameSet \cup {x}
  BY DEF x
<1>4. Ok2 = IF SucceededAfter(q.call) THEN Ok \cup {x} ELSE Ok
  BY <1>1, <1>3
<1> HIDE DEF Ok, Ok2
<1>5. As(Ok \cup {x}) = As(Ok) \cup {[call |-> q.call, ts |-> q.ts, rows |-> r]}
  BY <1>1
<1> HIDE DEF As
<1> QED BY <1>2, <1>4, <1>5

\* The query of a call that ends is new to the ledger, and next in its order.
LEMMA ExecutedFresh ==
  ASSUME TypeOK, TypeOK', IdInv, StampKept, CarryInv, CallsBound, NEW f \in Fibers, NEW q \in Query,
         NEW h \in Handles \cup {NoHandle}, NEW d \in BOOLEAN, NEW r, Executed(f, q, h, d, r)
  PROVE  /\ q.call \in 1..MaxCalls /\ q.call \notin Ledger!Known
         /\ q.ts = Len(ran) + 1 /\ Len(ran') = Len(ran) + 1
<1>1. /\ q.call = Last(stacks[f]).id /\ q.ts = Len(ran) + 1
      /\ Len(ran) \in Nat /\ DOMAIN ran' = 1..(Len(ran) + 1)
  BY ExecutedStamp
<1>2. Len(ran') \in Nat /\ DOMAIN ran' = 1..Len(ran')
  BY LenProperties DEF TypeOK
<1>3. q.call \notin Ledger!Known
  <2>1. q.call \notin Ids(Known)
    BY FreshCall
  <2>2. ASSUME q.call \in Ledger!Known PROVE q.call \in Ids(Known)
    <3>1. CASE \E p \in Waiting : q.call = p.call
      BY <3>1 DEF Ids, Known
    <3>2. CASE \E x \in FrameSet : q.call = x.q.call
      BY <3>2 DEF Ids, Known, Told
    <3> QED BY <2>2, <3>1, <3>2 DEF Ledger!Known
  <2> QED BY <2>1, <2>2
<1>4. q.call \in 1..MaxCalls
  <2> DEFINE n == Len(stacks[f])
  <2>1. /\ n \in Nat \ {0} /\ DOMAIN stacks[f] = 1..n
        /\ Last(stacks[f]) = stacks[f][n]
    BY LeaveShrinks DEF Executed, Ending
  <2> HIDE DEF n
  <2>2. n \in DOMAIN stacks[f] /\ q.call = stacks[f][n].id
    BY <1>1, <2>1
  <2>3. q.call > mark.calls /\ q.call <= calls /\ calls <= MaxCalls
    BY <2>2 DEF CarryInv, IdInv, CallsBound
  <2>4. mark.calls \in Nat /\ calls \in Nat /\ q.call \in Nat /\ MaxCalls \in Nat
    BY QueriesAssumption DEF TypeOK, Query
  <2> QED BY <2>3, <2>4
<1>5. Len(ran') = Len(ran) + 1
  BY <1>1, <1>2
<1> QED BY <1>1, <1>3, <1>4, <1>5

\* Telling a query that waits takes its entry from the ledger, if there is one.
LEMMA TellOwed ==
  ASSUME SoleInv, StampKept, OneRun, RowsInv', ran' = ran, NEW q \in Waiting, NEW r,
         Waiting' = Waiting \ {q}, FrameSet' = FrameSet \cup {[q |-> q, rows |-> r]}
  PROVE  [Ledger!Next]_(Ledger!ledger)
<1> DEFINE e == [call |-> q.call, ts |-> q.ts]
           a == [call |-> q.call, ts |-> q.ts, rows |-> r]
<1>1. \A n : SucceededAfter(n) <=> Succeeded(n)
  BY DEF SucceededAfter, Succeeded
<1>2. Accounts' = IF Succeeded(q.call) THEN Accounts \cup {a} ELSE Accounts
  BY <1>1, TellAccounts
<1>3. Owed' = {[call |-> p.call, ts |-> p.ts] : p \in {w \in Waiting' : Succeeded(w.call)}}
  BY <1>1, LedgerAfter
<1>4. Len(ran') = Len(ran)
  OBVIOUS
<1>5. CASE Succeeded(q.call)
  <2>1. e \in Owed
    BY <1>5 DEF Owed
  <2>2. Owed' = Owed \ {e}
    <3>1. \A p \in Waiting : p.call = q.call => p = q
      BY DEF SoleInv, Known
    <3> QED BY <1>3, <3>1 DEF Owed
  <2>3. r \in {0, q.call}
    <3>1. OkRun(q.call)
      BY <1>5, SucceedsOnce
    <3>2. OkAfter(q.call)
      BY <3>1 DEF OkRun, OkAfter
    <3>3. \A x \in FrameSet' : OkAfter(x.q.call) => x.rows \in {0, x.q.call}
      BY DEF RowsInv, OkRun, OkAfter
    <3>4. [q |-> q, rows |-> r] \in FrameSet'
      OBVIOUS
    <3> QED BY <3>2, <3>3, <3>4
  <2>4. a \in Ledger!Tellings(e)
    BY <2>3 DEF Ledger!Tellings
  <2> HIDE DEF e, a
  <2>5. Ledger!Tell(e)
    BY <1>2, <1>4, <1>5, <2>1, <2>2, <2>4 DEF Ledger!Tell, Owed, Accounts
  <2> QED BY <2>1, <2>5 DEF Ledger!Next, Owed
<1>6. CASE ~Succeeded(q.call)
  <2>1. Accounts' = Accounts
    BY <1>2, <1>6
  <2>2. Owed' = Owed
    BY <1>3, <1>6 DEF Owed
  <2> QED BY <1>4, <2>1, <2>2 DEF Ledger!ledger, Owed, Accounts
<1> QED BY <1>5, <1>6

\* Every step of the observer is one of the ledger's, or changes nothing in it.
LEMMA StepLedger ==
  ASSUME Disciplined, TypeOK, TypeOK', PhaseInv, IdInv, StampKept, SoleInv, OneRun, DiscInv,
         CarryInv, CallsBound, RowsInv', [Next]_vars
  PROVE  [Ledger!Next]_(Ledger!ledger)
<1>a. \A x \in FrameSet : x.q \in Known
  BY DEF Known, Told
<1>s. ASSUME UNCHANGED <<ran, frames>>, Waiting' = Waiting PROVE UNCHANGED Ledger!ledger
  <2>1. FrameSet' = FrameSet
    BY <1>s DEF FrameSet
  <2>2. Owed' = Owed /\ Accounts' = Accounts
    BY <1>s, <2>1, LedgerAfter DEF Owed, Accounts, Succeeded, SucceededAfter
  <2> QED BY <1>s, <2>2 DEF Ledger!ledger, Owed, Accounts
<1>1. CASE Rinit
  <2>1. Waiting = {} /\ Waiting' = {} /\ FrameSet' = {} /\ Len(ran') = 0
    <3>1. phase = "idle" /\ frames' = <<>> /\ ran' = <<>> /\ Known' = {}
      BY <1>1, RinitKnows DEF Rinit
    <3> QED BY <3>1, EmptySeq DEF PhaseInv, Waiting, Known, FrameSet
  <2>2. Owed = {} /\ Owed' = {} /\ Accounts' = {}
    BY <2>1, LedgerAfter DEF Owed
  <2> QED BY <2>1, <2>2 DEF Ledger!Next, Ledger!NextRequest, Owed, Accounts
<1>2. CASE RshutdownDrain
  <2>1. Waiting' = Waiting
    BY <1>2 DEF RshutdownDrain, PhaseInv, Waiting
  <2> QED BY <1>2, <1>s, <2>1 DEF RshutdownDrain
<1>3. ASSUME NEW q \in draining, FlushEmit(q) PROVE [Ledger!Next]_(Ledger!ledger)
  <2>1. q \in Query /\ q.fallback \in Nat /\ q \in Waiting /\ on
    BY DEF TypeOK, Query, PhaseInv, Waiting
  <2>2. Waiting' = Waiting \ {q} /\ ran' = ran
    BY <1>3 DEF FlushEmit, extension, PhaseInv, Waiting
  <2>3. FrameSet' = FrameSet \cup {[q |-> q, rows |-> q.fallback]}
    BY <1>3, <2>1, EmitGrows DEF FlushEmit
  <2> QED BY <2>1, <2>2, <2>3, TellOwed
<1>4. CASE RshutdownDone
  <2>1. Waiting' = Waiting
    BY <1>4 DEF RshutdownDone, extension, Waiting
  <2> QED BY <1>4, <1>s, <2>1 DEF RshutdownDone
<1>5. CASE NothingNew
  <2>1. Waiting' = Waiting
    BY <1>5 DEF NothingNew, Waiting
  <2> QED BY <1>5, <1>s, <2>1 DEF NothingNew
<1>6. ASSUME NEW f \in Fibers, NEW q \in Query, ToldAtOnce(f, q) PROVE Ledger!Next
  <2>1. PICK h \in Handles \cup {NoHandle}, r \in Nat :
          Executed(f, q, h, FALSE, r) /\ Emit(q, r) /\ pending' = pending
    BY <1>6 DEF ToldAtOnce
  <2>2. on /\ Waiting' = Waiting
    BY <2>1 DEF Executed, Ending, Waiting
  <2>3. FrameSet' = FrameSet \cup {[q |-> q, rows |-> r]}
    BY <2>1, <2>2, EmitGrows
  <2>4. /\ q.call \in 1..MaxCalls /\ q.call \notin Ledger!Known
        /\ q.ts = Len(ran) + 1 /\ Len(ran') = Len(ran) + 1
    BY <2>1, ExecutedFresh, FALSE \in BOOLEAN
  <2>5. /\ \A p \in Known : SucceededAfter(p.call) <=> Succeeded(p.call)
        /\ SucceededAfter(q.call) => r \in {0, q.call}
    BY <2>1, ExecutedSucceeds, FALSE \in BOOLEAN
  <2> DEFINE a == [call |-> q.call, ts |-> Len(ran) + 1, rows |-> r]
  <2>6. Accounts' = IF SucceededAfter(q.call) THEN Accounts \cup {a} ELSE Accounts
    BY <1>a, <2>3, <2>4, <2>5, TellAccounts
  <2>7. Owed' = Owed
    BY <2>2, <2>5, LedgerAfter DEF Owed, Known
  <2>8. CASE SucceededAfter(q.call)
    <3>1. a \in Ledger!Tellings([call |-> q.call, ts |-> Len(ran) + 1])
      BY <2>5, <2>8 DEF Ledger!Tellings
    <3> HIDE DEF a
    <3>2. Ledger!TellAtOnce(q.call)
      BY <2>4, <2>6, <2>7, <2>8, <3>1 DEF Ledger!TellAtOnce, Owed, Accounts
    <3> QED BY <2>4, <3>2 DEF Ledger!Next
  <2>9. CASE ~SucceededAfter(q.call)
    <3>1. Ledger!Fail
      BY <2>4, <2>6, <2>7, <2>9 DEF Ledger!Fail, Owed, Accounts
    <3> QED BY <3>1 DEF Ledger!Next
  <2> QED BY <2>8, <2>9
<1>7. ASSUME NEW f \in Fibers, NEW h \in Handles, NEW q \in Query, Deferred(f, h, q)
      PROVE  Ledger!Next
  <2>1. Executed(f, q, h, TRUE, q.fallback) /\ FrameSet' = FrameSet
    BY <1>7 DEF Deferred, FrameSet
  <2>2. /\ q \in Waiting' /\ Waiting' \subseteq Waiting \cup {q}
        /\ \A p \in Waiting : OkRun(p.call) => p \in Waiting'
    BY <1>7, DeferVacant
  <2>3. /\ q.call \in 1..MaxCalls /\ q.call \notin Ledger!Known
        /\ q.ts = Len(ran) + 1 /\ Len(ran') = Len(ran) + 1
    BY <2>1, ExecutedFresh, TRUE \in BOOLEAN
  <2>4. \A p \in Known : SucceededAfter(p.call) <=> Succeeded(p.call)
    BY <2>1, ExecutedSucceeds, TRUE \in BOOLEAN
  <2> DEFINE Es(X) == {[call |-> p.call, ts |-> p.ts] : p \in X}
             Ok == {w \in Waiting : Succeeded(w.call)}
             Ok2 == {w \in Waiting' : SucceededAfter(w.call)}
  <2>5. Owed = Es(Ok) /\ Owed' = Es(Ok2)
    BY LedgerAfter DEF Owed
  <2>6. Ok2 = IF SucceededAfter(q.call) THEN Ok \cup {q} ELSE Ok
    <3>1. ASSUME NEW p \in Waiting, Succeeded(p.call) PROVE p \in Waiting'
      BY <2>2, <3>1, SucceedsOnce
    <3>2. \A p \in Waiting : p \in Known
      BY DEF Known
    <3>3. q \notin Waiting
      <4>1. q.call \notin Ids(Known)
        BY <2>1, FreshCall, TRUE \in BOOLEAN
      <4> QED BY <3>2, <4>1 DEF Ids
    <3> QED BY <2>2, <2>4, <3>1, <3>2, <3>3
  <2> HIDE DEF Ok, Ok2
  <2>7. Es(Ok \cup {q}) = Es(Ok) \cup {[call |-> q.call, ts |-> Len(ran) + 1]}
    BY <2>3
  <2> HIDE DEF Es
  <2>8. Accounts' = Accounts
    BY <1>a, <2>1, <2>4, LedgerAfter DEF Accounts
  <2>9. CASE SucceededAfter(q.call)
    <3>1. Owed' = Owed \cup {[call |-> q.call, ts |-> Len(ran) + 1]}
      BY <2>5, <2>6, <2>7, <2>9
    <3>2. Ledger!Owe(q.call)
      BY <2>3, <2>8, <3>1 DEF Ledger!Owe, Owed, Accounts
    <3> QED BY <2>3, <3>2 DEF Ledger!Next
  <2>10. CASE ~SucceededAfter(q.call)
    <3>1. Owed' = Owed
      BY <2>5, <2>6, <2>10
    <3>2. Ledger!Fail
      BY <2>3, <2>8, <3>1 DEF Ledger!Fail, Owed, Accounts
    <3> QED BY <3>2 DEF Ledger!Next
  <2> QED BY <2>9, <2>10
<1>8. ASSUME NEW f \in Fibers, NEW h \in Handles, NEW r \in Nat, Fetched(f, h, r)
      PROVE  [Ledger!Next]_(Ledger!ledger)
  <2> DEFINE q == pending[h]
  <2>1. /\ q \in Query /\ q \in Waiting /\ on /\ Emit(q, r) /\ ran' = ran
        /\ draining' = draining /\ draining = {}
    BY <1>8 DEF Fetched, TypeOK, Waiting, PhaseInv
  <2>2. pending'[h] = NoQuery /\ \A g \in Handles \ {h} : pending'[g] = pending[g]
    BY <1>8 DEF Fetched, Undefer, TypeOK
  <2>3. \A g \in Handles \ {h} : pending[g] # NoQuery => pending[g] # q
    BY <1>8 DEF SoleInv, FramedOnce, Fetched
  <2>4. Waiting' = Waiting \ {q}
    BY <2>1, <2>2, <2>3 DEF Waiting
  <2>5. FrameSet' = FrameSet \cup {[q |-> q, rows |-> r]}
    BY <2>1, EmitGrows
  <2> HIDE DEF q
  <2> QED BY <2>1, <2>4, <2>5, TellOwed
<1> QED BY <1>1, <1>2, <1>3, <1>4, <1>5, <1>6, <1>7, <1>8, StepKinds DEF Kinds, Rshutdown

(* The observer implements QueryLedger, for an application that reads the rows *)
(* of a read that succeeded before it executes the statement again or lets go  *)
(* of it, whose calls may fail or be cut short: every execution that succeeds  *)
(* is owed or told at once, is told once with its stamp and its own rows, and  *)
(* nothing is owed when the next request begins (queries.rs:140-152, 202-210,  *)
(* 224-230).                                                                   *)
THEOREM KeepsTheLedger == ASSUME Disciplined PROVE Spec => ImplementsLedger
<1> DEFINE I == /\ TypeOK /\ PhaseInv /\ IdInv /\ StampKept /\ SoleInv /\ OneRun
                /\ DiscInv /\ CarryInv /\ RowsInv /\ CallsBound
<1>1. Init => I /\ Ledger!Init
  <2> SUFFICES ASSUME Init
               PROVE  /\ StampKept /\ SoleInv /\ OneRun /\ CarryInv /\ RowsInv /\ CallsBound
                      /\ Ledger!Init
    BY InitType, InitPhase, InitId, InitDisc
  <2>1. /\ ran = <<>> /\ frames = <<>> /\ DOMAIN <<>> = {} /\ Len(<<>>) = 0 /\ calls = 0
        /\ \A h \in Handles : pending[h] = NoQuery
    BY EmptySeq DEF Init
  <2>2. FrameSet = {} /\ Waiting = {} /\ Known = {}
    BY <2>1, InitKnows DEF FrameSet, Known
  <2>3. StampKept /\ SoleInv /\ OneRun /\ RowsInv
    BY <2>1, <2>2 DEF StampKept, SoleInv, FramedOnce, OneRun, RowsInv, Known, Told, Ids
  <2>4. CallsBound
    BY <2>1, QueriesAssumption DEF CallsBound
  <2>5. Ledger!Init
    BY <2>1, <2>2 DEF Ledger!Init
  <2> QED BY <2>3, <2>4, <2>5, InitCarry
<1>2. I /\ [Next]_vars => I' /\ [Ledger!Next]_(Ledger!ledger)
  <2> SUFFICES ASSUME I, [Next]_vars PROVE I' /\ [Ledger!Next]_(Ledger!ledger)
    OBVIOUS
  <2>1. I'
    BY NextType, NextPhase, NextId, NextStamp, NextSole, NextOneRun, NextDisc,
       NextCarry, NextRows, NextBounded
  <2> QED BY <2>1, StepLedger
<1> QED BY <1>1, <1>2, PTL DEF Spec, ImplementsLedger, Ledger!Spec

-----------------------------------------------------------------------------
(* The values shown are those the statement ran with.                        *)

(* What the binds bs show, as the values v of the parameters: the positions  *)
(* filled from the first on, each name with its last bind.                   *)
Fills(bs, v) ==
  LET ps == Positional(bs) IN
  /\ Len(ps) <= NPos
  /\ \A p \in 1..NPos : IF p <= Len(ps) THEN v[p] = ps[p].n /\ v[p] # 0 ELSE v[p] = 0
  /\ \A p \in Names :
       IF v[p] = 0 THEN \A i \in DOMAIN bs : bs[i].key # p
       ELSE \E i \in DOMAIN bs : /\ bs[i].key = p /\ bs[i].n = v[p]
                                 /\ \A j \in DOMAIN bs : bs[j].key = p => j <= i

\* No binds have no positional ones.
LEMMA PositionalNone == Positional(<<>>) = <<>>
<1>1. [i \in DOMAIN <<>> |-> IF <<>>[i].key = "?" THEN << <<>>[i] >> ELSE <<>>] = <<>>
  OBVIOUS
<1> QED BY <1>1, EmptySeq DEF Positional, FlattenSeq

\* The next bind is positional or not.
LEMMA PositionalNext ==
  ASSUME NEW bs \in Seq(Bind), NEW b \in Bind
  PROVE  /\ Positional(bs) \in Seq(Bind)
         /\ Positional(Append(bs, b)) = IF b.key = "?" THEN Append(Positional(bs), b)
                                        ELSE Positional(bs)
<1> DEFINE One(x) == IF x.key = "?" THEN <<x>> ELSE <<>>
           ps == [i \in DOMAIN bs |-> One(bs[i])]
           n == Len(bs)
           cs == Append(bs, b)
<1>1. n \in Nat /\ DOMAIN bs = 1..n /\ \A i \in 1..n : bs[i] \in Bind
  BY LenProperties, ElementOfSeq
<1>2. \A x \in Bind : One(x) \in Seq(Bind)
  BY EmptySeq
<1>3. /\ DOMAIN cs = 1..(n + 1)
      /\ \A i \in 1..n : cs[i] = bs[i]
      /\ cs[n + 1] = b
  BY AppendProperties, LenProperties
<1> HIDE DEF cs, n, One
<1>4. ps \in Seq(Seq(Bind)) /\ Len(ps) = n /\ \A i \in 1..n : ps[i] = One(bs[i])
  <2>1. ps \in [1..n -> Seq(Bind)]
    BY <1>1, <1>2
  <2>2. ps \in Seq(Seq(Bind))
    BY <1>1, <2>1, SeqDef
  <2> QED BY <1>1, <2>1, <2>2, LenProperties
<1> DEFINE qs == [i \in DOMAIN cs |-> One(cs[i])]
<1>5. qs \in Seq(Seq(Bind)) /\ Len(qs) = n + 1 /\ \A i \in 1..(n + 1) : qs[i] = One(cs[i])
  <2>0. \A i \in 1..(n + 1) : cs[i] \in Bind
    <3>1. \A i \in 1..(n + 1) : i \in 1..n \/ i = n + 1
      BY <1>1
    <3> QED BY <1>1, <1>3, <3>1
  <2>1. qs \in [1..(n + 1) -> Seq(Bind)]
    BY <1>2, <1>3, <2>0
  <2>3. n + 1 \in Nat
    BY <1>1
  <2>2. qs \in Seq(Seq(Bind))
    BY <2>1, <2>3, SeqDef
  <2> QED BY <2>1, <2>2, <2>3, <1>3, LenProperties
<1> HIDE DEF ps, qs
<1>6. One(b) \in Seq(Bind)
  BY <1>2
<1>7. qs = Append(ps, One(b))
  <2>1. /\ Append(ps, One(b)) \in Seq(Seq(Bind)) /\ Len(Append(ps, One(b))) = n + 1
        /\ \A i \in 1..n : Append(ps, One(b))[i] = ps[i]
        /\ Append(ps, One(b))[n + 1] = One(b)
    BY <1>4, <1>6, AppendProperties
  <2>2. ASSUME NEW i \in 1..(n + 1) PROVE qs[i] = Append(ps, One(b))[i]
    <3>1. i \in 1..n \/ i = n + 1
      BY <1>1
    <3> QED BY <1>3, <1>4, <1>5, <2>1, <3>1
  <2> QED BY <1>5, <2>1, <2>2, SeqEqual
<1>8. Positional(bs) = FlattenSeq(ps) /\ Positional(cs) = FlattenSeq(qs)
  BY DEF Positional, ps, qs, One
<1>9. FlattenSeq(ps) \in Seq(Bind) /\ FlattenSeq(qs) = FlattenSeq(ps) \o One(b)
  BY <1>4, <1>6, <1>7, FlattenAppend
<1>10. b.key = "?" => FlattenSeq(ps) \o One(b) = Append(FlattenSeq(ps), b)
  BY <1>9, AppendIsConcat DEF One
<1>11. b.key # "?" => FlattenSeq(ps) \o One(b) = FlattenSeq(ps)
  BY <1>9, ConcatEmptySeq DEF One
<1> QED BY <1>8, <1>9, <1>10, <1>11 DEF cs

\* Binds that fill the parameters show them.
LEMMA FillsShow ==
  ASSUME NEW bs \in Seq(Bind), NEW v \in [Params -> Nat], Fills(bs, v)
  PROVE  Show(bs) = v
<1> DEFINE ps == Positional(bs)
           B == Build(bs)
<1>1. B.positional = ps
      /\ B.named = [n \in {bs[i].key : i \in DOMAIN bs} \cap Names |->
                bs[CHOOSE i \in LitsAt(bs, n) : \A j \in LitsAt(bs, n) : j <= i].n]
  BY DEF Build
<1> HIDE DEF B, ps
<1>2. Show(bs) = [p \in Params |->
                    IF p \in Names THEN IF p \in DOMAIN B.named THEN B.named[p] ELSE 0
                    ELSE IF p <= Len(ps) THEN ps[p].n ELSE 0]
  BY <1>1 DEF Show, Substitute, B
<1>3. ASSUME NEW p \in Params, p \notin Names PROVE Show(bs)[p] = v[p]
  <2>1. p \in 1..NPos
    BY <1>3 DEF Params
  <2> QED BY <1>2, <1>3, <2>1 DEF Fills, ps
<1>4. ASSUME NEW p \in Names PROVE Show(bs)[p] = v[p]
  <2>0. p \in Params
    BY DEF Params
  <2>1. CASE v[p] = 0
    <3>1. \A i \in DOMAIN bs : bs[i].key # p
      BY <2>1 DEF Fills
    <3>2. p \notin DOMAIN B.named
      BY <1>1, <3>1
    <3> QED BY <1>2, <2>0, <2>1, <3>2
  <2>2. CASE v[p] # 0
    <3>1. PICK i \in DOMAIN bs : /\ bs[i].key = p /\ bs[i].n = v[p]
                                 /\ \A j \in DOMAIN bs : bs[j].key = p => j <= i
      BY <2>2 DEF Fills
    <3> DEFINE k == CHOOSE l \in LitsAt(bs, p) : \A j \in LitsAt(bs, p) : j <= l
    <3>2. i \in LitsAt(bs, p) /\ \A j \in LitsAt(bs, p) : j <= i
      BY <3>1 DEF LitsAt
    <3>3. k \in LitsAt(bs, p) /\ \A j \in LitsAt(bs, p) : j <= k
      BY <3>2
    <3>4. LitsAt(bs, p) \subseteq Nat
      BY LenProperties DEF LitsAt
    <3> HIDE DEF k
    <3>5. k = i
      <4>1. k \in Nat /\ i \in Nat /\ k <= i /\ i <= k
        BY <3>2, <3>3, <3>4
      <4> QED BY <4>1
    <3>6. p \in DOMAIN B.named /\ B.named[p] = bs[k].n
      BY <1>1, <3>1 DEF k
    <3> QED BY <1>2, <2>0, <3>1, <3>5, <3>6
  <2> QED BY <2>1, <2>2
<1>5. \A p \in Params : Show(bs)[p] = v[p]
  BY <1>3, <1>4
<1>6. Show(bs) = [p \in Params |-> Show(bs)[p]]
  BY <1>2
<1> QED BY <1>5, <1>6

\* No binds fill no parameter.
LEMMA FillsNone == Fills(<<>>, Unbound)
<1>1. Len(Positional(<<>>)) = 0 /\ DOMAIN <<>> = {}
  BY PositionalNone, EmptySeq
<1>2. 0 <= NPos /\ \A p \in 1..NPos : ~(p <= 0)
  BY QueriesAssumption
<1>3. \A p \in (1..NPos) \cup Names : Unbound[p] = 0
  BY DEF Unbound, Params
<1> QED BY <1>1, <1>2, <1>3 DEF Fills

\* One bind more, of a name or of the next position, fills one parameter more.
LEMMA FillsNext ==
  ASSUME NEW bs \in Seq(Bind), NEW v \in [Params -> Nat], Fills(bs, v),
         NEW p \in Params, NEW n \in Nat \ {0},
         p \in Names \/ p = Len(Positional(bs)) + 1
  PROVE  LET cs == Append(bs, [key |-> KeyOf(p), n |-> n]) IN
         /\ cs \in Seq(Bind)
         /\ Fills(cs, [v EXCEPT ![p] = n])
         /\ Len(Positional(cs)) = Len(Positional(bs)) + (IF p \in Names THEN 0 ELSE 1)
<1> DEFINE b == [key |-> KeyOf(p), n |-> n]
           cs == Append(bs, b)
           w == [v EXCEPT ![p] = n]
           ps == Positional(bs)
           qs == Positional(cs)
           m == Len(bs)
           l == Len(ps)
<1>1. b \in Bind /\ b.n = n /\ b.key = KeyOf(p)
  BY KeyType
<1>k. IF p \in Names THEN b.key = p /\ b.key # "?" ELSE b.key = "?"
  BY <1>1, QueriesAssumption DEF KeyOf
<1>w. w[p] = n /\ \A x \in Params \ {p} : w[x] = v[x]
  OBVIOUS
<1> HIDE DEF b, w
<1>2. cs \in Seq(Bind) /\ DOMAIN cs = 1..(m + 1) /\ m \in Nat /\ DOMAIN bs = 1..m
      /\ (\A i \in 1..m : cs[i] = bs[i]) /\ cs[m + 1] = b
  BY <1>1, AppendProperties, LenProperties
<1>3. /\ ps \in Seq(Bind) /\ l \in Nat
      /\ qs = IF p \in Names THEN ps ELSE Append(ps, b)
  BY <1>1, <1>k, PositionalNext, LenProperties
<1>n. \A x \in 1..NPos : x \notin Names /\ x \in Params
  BY QueriesAssumption DEF Params
<1>f. /\ l <= NPos
      /\ \A x \in 1..NPos : IF x <= l THEN v[x] = ps[x].n /\ v[x] # 0 ELSE v[x] = 0
      /\ \A x \in Names :
           IF v[x] = 0 THEN \A i \in DOMAIN bs : bs[i].key # x
           ELSE \E i \in DOMAIN bs : /\ bs[i].key = x /\ bs[i].n = v[x]
                                     /\ \A j \in DOMAIN bs : bs[j].key = x => j <= i
  BY DEF Fills
<1>o. \A i \in DOMAIN cs : i \in DOMAIN bs \/ i = m + 1
  BY <1>2
<1> HIDE DEF cs, ps, l, m
<1>4. Len(qs) = l + (IF p \in Names THEN 0 ELSE 1)
  <2>1. CASE p \in Names
    BY <1>3, <2>1 DEF l
  <2>2. CASE p \notin Names
    BY <1>1, <1>3, <2>2, AppendProperties DEF l
  <2> QED BY <2>1, <2>2
<1>5. ASSUME NEW x \in Names, x # p
      PROVE  IF w[x] = 0 THEN \A i \in DOMAIN cs : cs[i].key # x
             ELSE \E i \in DOMAIN cs : /\ cs[i].key = x /\ cs[i].n = w[x]
                                       /\ \A j \in DOMAIN cs : cs[j].key = x => j <= i
  <2>1. x # "?" /\ x \in Params
    BY QueriesAssumption DEF Params
  <2>2. b.key # x
    BY <1>5, <1>k, <2>1
  <2>3. w[x] = v[x]
    BY <1>5, <1>w, <2>1
  <2>4. CASE v[x] = 0
    <3>1. \A i \in DOMAIN bs : bs[i].key # x
      BY <1>f, <2>4
    <3> QED BY <1>2, <1>o, <2>2, <2>3, <2>4, <3>1
  <2>5. CASE v[x] # 0
    <3>1. PICK i \in DOMAIN bs : /\ bs[i].key = x /\ bs[i].n = v[x]
                                 /\ \A j \in DOMAIN bs : bs[j].key = x => j <= i
      BY <1>f, <2>5
    <3>2. i \in DOMAIN cs /\ cs[i] = bs[i]
      BY <1>2
    <3>3. \A j \in DOMAIN cs : cs[j].key = x => j <= i
      BY <1>2, <1>o, <2>2, <3>1
    <3> QED BY <2>3, <2>5, <3>1, <3>2, <3>3
  <2> QED BY <2>4, <2>5
<1>6. CASE p \in Names
  <2>1. \A x \in 1..NPos : w[x] = v[x]
    BY <1>6, <1>n, <1>w
  <2>2. w[p] # 0 /\ \E i \in DOMAIN cs : /\ cs[i].key = p /\ cs[i].n = w[p]
                                         /\ \A j \in DOMAIN cs : cs[j].key = p => j <= i
    <3>1. m + 1 \in DOMAIN cs /\ \A j \in DOMAIN cs : j <= m + 1
      BY <1>2
    <3> QED BY <1>1, <1>2, <1>6, <1>k, <1>w, <3>1
  <2>3. qs = ps
    BY <1>3, <1>6
  <2>4. Len(qs) <= NPos
        /\ \A x \in 1..NPos : IF x <= Len(qs) THEN w[x] = qs[x].n /\ w[x] # 0 ELSE w[x] = 0
    BY <1>f, <2>1, <2>3 DEF l
  <2>5. \A x \in Names :
          IF w[x] = 0 THEN \A i \in DOMAIN cs : cs[i].key # x
          ELSE \E i \in DOMAIN cs : /\ cs[i].key = x /\ cs[i].n = w[x]
                                    /\ \A j \in DOMAIN cs : cs[j].key = x => j <= i
    BY <1>5, <2>2
  <2>6. Fills(cs, w)
    BY <2>4, <2>5 DEF Fills
  <2> QED BY <1>2, <1>4, <2>6 DEF b, cs, w, l, ps
<1>7. CASE p \notin Names
  <2>1. p \in 1..NPos /\ p = l + 1
    BY <1>7 DEF Params, l, ps
  <2>2. /\ Len(qs) = l + 1 /\ (\A i \in 1..l : qs[i] = ps[i]) /\ qs[l + 1] = b
    BY <1>1, <1>3, <1>7, AppendProperties DEF l
  <2>3. Len(qs) <= NPos
    BY <1>3, <2>1, <2>2
  <2>4. ASSUME NEW x \in 1..NPos
        PROVE  IF x <= Len(qs) THEN w[x] = qs[x].n /\ w[x] # 0 ELSE w[x] = 0
    <3>1. CASE x = p
      BY <1>1, <1>3, <1>w, <2>1, <2>2, <3>1
    <3>2. CASE x # p
      <4>1. w[x] = v[x]
        BY <1>n, <1>w, <3>2
      <4>2. IF x <= l THEN v[x] = ps[x].n /\ v[x] # 0 ELSE v[x] = 0
        BY <1>f
      <4>3. x <= l => qs[x] = ps[x]
        BY <1>3, <2>2
      <4>4. x <= Len(qs) <=> x <= l
        BY <1>3, <2>1, <2>2, <3>2
      <4> QED BY <4>1, <4>2, <4>3, <4>4
    <3> QED BY <3>1, <3>2
  <2>5. \A x \in Names : x # p
    BY <1>7
  <2>6. Fills(cs, w)
    BY <1>5, <2>3, <2>4, <2>5 DEF Fills
  <2> QED BY <1>2, <1>4, <2>6 DEF b, cs, w, l, ps
<1> QED BY <1>6, <1>7

\* An array of values in the order of its positions fills the parameters it has
\* keys for.
LEMMA ArgsFill ==
  ASSUME NEW ps \in Seq(Params), \A i, j \in DOMAIN ps : ps[i] = ps[j] => i = j,
         InOrder(ps), NEW b \in Nat
  PROVE  Fills([i \in 1..Len(ps) |-> [key |-> KeyOf(ps[i]), n |-> b + i]],
               [p \in Params |-> IF \E i \in DOMAIN ps : ps[i] = p
                                 THEN b + (CHOOSE i \in DOMAIN ps : ps[i] = p) ELSE 0])
<1> DEFINE m == Len(ps)
           At(p) == CHOOSE i \in DOMAIN ps : ps[i] = p
           A == {j \in Nat : ps[j] \notin Names}
           as(k) == [i \in 1..k |-> [key |-> KeyOf(ps[i]), n |-> b + i]]
           v(k) == [p \in Params |-> IF \E i \in 1..k : ps[i] = p THEN b + At(p) ELSE 0]
           R(k) == /\ as(k) \in Seq(Bind) /\ v(k) \in [Params -> Nat]
                   /\ Fills(as(k), v(k))
                   /\ Len(Positional(as(k))) = Cardinality((1..k) \cap A)
           T == {k \in Nat : k <= m => R(k)}
<1>1. m \in Nat /\ DOMAIN ps = 1..m /\ \A i \in 1..m : ps[i] \in Params
  BY LenProperties, ElementOfSeq
<1>2. \A i \in 1..m : At(ps[i]) = i
  BY <1>1
<1> HIDE DEF At
<1>3. 0 \in T
  <2>1. as(0) = <<>>
    OBVIOUS
  <2>2. v(0) = Unbound
    BY DEF Unbound
  <2>3. Len(Positional(<<>>)) = 0
    BY PositionalNone, EmptySeq
  <2>4. Cardinality((1..0) \cap A) = 0
    BY CountNone
  <2> HIDE DEF as, v, A
  <2> QED BY <2>1, <2>2, <2>3, <2>4, FillsNone, UnboundType, EmptySeq
<1>4. ASSUME NEW k \in Nat, k \in T PROVE k + 1 \in T
  <2> SUFFICES ASSUME k + 1 <= m PROVE R(k + 1)
    <3> HIDE DEF R
    <3> QED OBVIOUS
  <2> DEFINE p == ps[k + 1]
  <2>1. R(k)
    <3> HIDE DEF R
    <3> QED BY <1>1, <1>4
  <2>2. k + 1 \in 1..m /\ p \in Params /\ At(p) = k + 1 /\ b + (k + 1) \in Nat \ {0}
    BY <1>1, <1>2
  <2>3. /\ Cardinality((1..k) \cap A) \in Nat
        /\ Cardinality((1..(k + 1)) \cap A)
             = Cardinality((1..k) \cap A) + (IF k + 1 \in A THEN 1 ELSE 0)
    BY CountNext
  <2>4. k + 1 \in A <=> p \notin Names
    OBVIOUS
  <2>5. p \in Names \/ p = Cardinality((1..(k + 1)) \cap A)
    <3>1. {j \in 1..(k + 1) : ps[j] \notin Names} = (1..(k + 1)) \cap A
      OBVIOUS
    <3> QED BY <1>1, <2>2, <3>1 DEF InOrder
  <2>6. p \in Names \/ p = Len(Positional(as(k))) + 1
    BY <2>1, <2>3, <2>4, <2>5
  <2> DEFINE e == [key |-> KeyOf(p), n |-> b + (k + 1)]
  <2>7. /\ Append(as(k), e) \in Seq(Bind)
        /\ Fills(Append(as(k), e), [v(k) EXCEPT ![p] = b + (k + 1)])
        /\ Len(Positional(Append(as(k), e)))
             = Len(Positional(as(k))) + (IF p \in Names THEN 0 ELSE 1)
    <3> HIDE DEF as, v, p
    <3> QED BY <2>1, <2>2, <2>6, FillsNext
  <2>8. v(k + 1) = [v(k) EXCEPT ![p] = b + (k + 1)]
    <3>1. ASSUME NEW x \in Params PROVE v(k + 1)[x] = [v(k) EXCEPT ![p] = b + (k + 1)][x]
      <4>1. CASE x = p
        <5>1. k + 1 \in 1..(k + 1)
          OBVIOUS
        <5> QED BY <2>2, <4>1, <5>1
      <4>2. CASE x # p
        <5>1. \A i \in 1..(k + 1) : i \in 1..k \/ i = k + 1
          OBVIOUS
        <5>2. (\E i \in 1..(k + 1) : ps[i] = x) <=> (\E i \in 1..k : ps[i] = x)
          BY <4>2, <5>1
        <5> QED BY <4>2, <5>2
      <4> QED BY <4>1, <4>2
    <3> QED BY <3>1
  <2>9. as(k + 1) = Append(as(k), e)
    <3>1. \A i \in 1..(k + 1) : ps[i] \in Params
      BY <1>1, <2>2
    <3>2. as(k + 1) \in [1..(k + 1) -> Bind]
      <4>1. \A i \in 1..(k + 1) : [key |-> KeyOf(ps[i]), n |-> b + i] \in Bind
        BY <3>1, KeyType
      <4> QED BY <4>1
    <3>3. as(k + 1) \in Seq(Bind) /\ Len(as(k + 1)) = k + 1
      <4>1. as(k + 1) \in Seq(Bind)
        BY <3>2, SeqDef
      <4> QED BY <4>1, <3>2, LenProperties
    <3>4. Len(as(k)) = k
      BY <2>1, LenProperties
    <3>5. e \in Bind
      BY <2>2, KeyType
    <3>6. /\ Append(as(k), e) \in Seq(Bind) /\ Len(Append(as(k), e)) = k + 1
          /\ \A i \in 1..k : Append(as(k), e)[i] = as(k)[i]
          /\ Append(as(k), e)[k + 1] = e
      <4> DEFINE s == as(k)
      <4>1. s \in Seq(Bind) /\ Len(s) = k
        BY <2>1, <3>4
      <4> HIDE DEF s, e
      <4>2. /\ Append(s, e) \in Seq(Bind) /\ Len(Append(s, e)) = Len(s) + 1
            /\ \A i \in 1..Len(s) : Append(s, e)[i] = s[i]
            /\ Append(s, e)[Len(s) + 1] = e
        BY <3>5, <4>1, AppendProperties
      <4> QED BY <4>1, <4>2 DEF s
    <3>7. ASSUME NEW i \in 1..(k + 1) PROVE as(k + 1)[i] = Append(as(k), e)[i]
      <4>1. CASE i = k + 1
        BY <3>6, <4>1
      <4>2. CASE i # k + 1
        <5>1. i \in 1..k
          BY <4>2
        <5> QED BY <3>6, <5>1
      <4> QED BY <4>1, <4>2
    <3> HIDE DEF as, e
    <3> QED BY <3>3, <3>6, <3>7, SeqEqual
  <2>10. v(k + 1) \in [Params -> Nat]
    BY <2>1, <2>2, <2>8
  <2> HIDE DEF as, v, e, p, A
  <2> QED BY <2>1, <2>3, <2>4, <2>7, <2>8, <2>9, <2>10
<1> HIDE DEF T
<1>5. \A k \in Nat : k \in T
  BY <1>3, <1>4, SetInduction
<1>6. R(m)
  <2>1. m <= m
    BY <1>1
  <2> HIDE DEF R
  <2> QED BY <1>1, <1>5, <2>1 DEF T
<1>7. v(m) = [p \in Params |-> IF \E i \in DOMAIN ps : ps[i] = p
                                 THEN b + (CHOOSE i \in DOMAIN ps : ps[i] = p) ELSE 0]
  BY <1>1 DEF At
<1>8. Fills(as(m), v(m))
  <2> HIDE DEF as, v, A
  <2> QED BY <1>6
<1> QED BY <1>7, <1>8

\* The values bound since the statement last executed.
Recent(s) == [p \in Params |-> IF s.bound[p] > s.since THEN s.bound[p] ELSE 0]

\* There are none when the statement has nothing new to execute.
LEMMA SpentRecent ==
  ASSUME NEW s \in Stmt, Spent(s)
  PROVE  Recent(s) = Unbound
<1>1. ASSUME NEW p \in Params PROVE ~(s.bound[p] > s.since)
  <2>1. s.bound[p] \in Nat /\ s.since \in Nat /\ s.bound[p] <= s.since
    BY DEF Stmt, Spent
  <2> QED BY <2>1
<1> QED BY <1>1 DEF Recent, Unbound

\* They are values of the parameters.
LEMMA RecentType ==
  ASSUME NEW s \in Stmt
  PROVE  Recent(s) \in [Params -> Nat]
  BY DEF Recent, Stmt

\* The positions bound since are as many as the positional binds shown.
LEMMA ReboundIs ==
  ASSUME NEW bs \in Seq(Bind), NEW s \in Stmt, Fills(bs, Recent(s))
  PROVE  Rebound(s) = Len(Positional(bs))
<1> DEFINE l == Len(Positional(bs))
<1>1. l \in Nat /\ l <= NPos /\ NPos \in Nat
  <2>1. bs = <<>> \/ \E cs \in Seq(Bind), b \in Bind : bs = Append(cs, b)
    BY SequenceEmptyOrAppend
  <2>2. Positional(bs) \in Seq(Bind)
    <3>1. CASE bs = <<>>
      BY <3>1, PositionalNone, EmptySeq
    <3>2. ASSUME bs # <<>> PROVE Positional(bs) \in Seq(Bind)
      <4>1. PICK b : b \in Bind
        BY <2>1, <3>2
      <4> QED BY <4>1, PositionalNext
    <3> QED BY <3>1, <3>2
  <2> QED BY <2>2, LenProperties, QueriesAssumption DEF Fills
<1>2. ASSUME NEW p \in 1..NPos PROVE s.bound[p] > s.since <=> p <= l
  <2>1. p \in Params /\ s.bound[p] \in Nat /\ s.since \in Nat
    BY DEF Params, Stmt
  <2>2. Recent(s)[p] # 0 <=> p <= l
    BY DEF Fills
  <2>3. Recent(s)[p] = IF s.bound[p] > s.since THEN s.bound[p] ELSE 0
    BY <2>1 DEF Recent
  <2> QED BY <2>1, <2>2, <2>3
<1> HIDE DEF l
<1>3. {p \in 1..NPos : s.bound[p] > s.since} = 1..l
  BY <1>1, <1>2
<1>4. Cardinality(1..l) = l
  BY <1>1, FS_Interval
<1> QED BY <1>3, <1>4 DEF Rebound, l

\* An execute() of the handle is open.
Executing(h) == \E f \in Fibers : \E i \in DOMAIN stacks[f] :
                  stacks[f][i].h = h /\ stacks[f][i].kind = "execute"

\* What BINDS holds for a handle is what was bound to its statement since it
\* last executed, if the binds are tidy.  A statement that is gone leaves none
\* that it did not execute.
BoundAt(h) ==
  /\ phase = "idle" => ~Alive(h)
  /\ ~Alive(h) => Spent(stmt[h])
  /\ stmt[h].since <= nbinds /\ \A p \in Params : stmt[h].bound[p] <= nbinds
  /\ on /\ ~Executing(h) /\ stmt[h].tidy => Fills(binds[h], Recent(stmt[h]))

\* A query or an execute has its handle to itself, but for a fetchAll begun
\* before it, and the binds it will show are those it ran with.
CallAt(f, i) ==
  LET c == stacks[f][i] IN
  /\ c.h \in Handles => Alive(c.h)
  /\ c.kind \in {"query", "execute"} =>
       /\ Spent(stmt[c.h])
       /\ \A g \in Fibers : \A j \in DOMAIN stacks[g] :
            stacks[g][j].h = c.h => \/ g = f /\ j = i
                                    \/ c.kind = "execute" /\ stacks[g][j].kind = "fetchAll"
  /\ on /\ c.kind # "fetchAll" /\ c.tidy => Fills(ShownOf(c), c.used)

BoundInv == /\ \A h \in Handles : BoundAt(h)
            /\ \A f \in Fibers : \A i \in DOMAIN stacks[f] : CallAt(f, i)

\* What a step other than the beginning of a call does to the calls on a handle.
Kept(h) ==
  \/ Vacated(h)
  \/ /\ stmt[h].sql # "none" => stmt'[h].sql # "none"
     /\ \/ (Spent(stmt[h]) => Spent(stmt'[h])) /\ binds'[h] = binds[h]
        \/ \A f \in Fibers : \A i \in DOMAIN stacks'[f] :
             stacks'[f][i].h = h => stacks'[f][i].kind = "fetchAll"

\* Such steps keep what is known of the calls.
LEMMA CallsKept ==
  ASSUME TypeOK, BoundInv, OnlyOld, on' => on, \A h \in Handles : Kept(h)
  PROVE  \A f \in Fibers : \A i \in DOMAIN stacks'[f] : CallAt(f, i)'
<1> SUFFICES ASSUME NEW f \in Fibers, NEW i \in DOMAIN stacks'[f] PROVE CallAt(f, i)'
  OBVIOUS
<1> DEFINE c == stacks'[f][i]
<1>1. i \in DOMAIN stacks[f] /\ c = stacks[f][i]
  BY DEF OnlyOld
<1>2. (c.kind # "exec" => c.h \in Handles) /\ (c.kind = "exec" => c.h = NoHandle)
  BY <1>1, OpenCalls
<1>3. /\ c.h \in Handles => stmt[c.h].sql # "none"
      /\ c.kind \in {"query", "execute"} =>
           /\ Spent(stmt[c.h])
           /\ \A g \in Fibers : \A j \in DOMAIN stacks[g] :
                stacks[g][j].h = c.h => \/ g = f /\ j = i
                                        \/ c.kind = "execute" /\ stacks[g][j].kind = "fetchAll"
      /\ on /\ c.kind # "fetchAll" /\ c.tidy => Fills(ShownOf(c), c.used)
  BY <1>1 DEF BoundInv, CallAt, Alive
<1>4. ~Vacated(c.h)
  BY DEF Vacated
<1>5. c.h \in Handles => Kept(c.h)
  OBVIOUS
<1>6. c.kind \in {"query", "execute"} =>
        ~ \A g \in Fibers : \A j \in DOMAIN stacks'[g] :
            stacks'[g][j].h = c.h => stacks'[g][j].kind = "fetchAll"
  OBVIOUS
<1>a. \A g \in Fibers : \A j \in DOMAIN stacks'[g] :
        j \in DOMAIN stacks[g] /\ stacks'[g][j] = stacks[g][j]
  BY DEF OnlyOld
<1> HIDE DEF c
<1>7. c.h \in Handles => stmt'[c.h].sql # "none"
  BY <1>3, <1>4, <1>5 DEF Kept
<1>8. c.kind \in {"query", "execute"} => Spent(stmt'[c.h]) /\ binds'[c.h] = binds[c.h]
  BY <1>2, <1>3, <1>4, <1>5, <1>6 DEF Kept
<1>9. c.kind \in {"query", "execute"} =>
        \A g \in Fibers : \A j \in DOMAIN stacks'[g] :
          stacks'[g][j].h = c.h => \/ g = f /\ j = i
                                   \/ c.kind = "execute" /\ stacks'[g][j].kind = "fetchAll"
  BY <1>3, <1>a
<1>10. c.kind # "fetchAll" => ShownOf(c) = IF c.kind # "execute" THEN <<>>
                                           ELSE IF c.given THEN c.args ELSE binds'[c.h]
  BY <1>8 DEF ShownOf
<1>11. on' /\ c.kind # "fetchAll" /\ c.tidy =>
         Fills(IF c.kind # "execute" THEN <<>> ELSE IF c.given THEN c.args ELSE binds'[c.h], c.used)
  BY <1>3, <1>10
<1> QED BY <1>7, <1>8, <1>9, <1>11 DEF CallAt, ShownOf, Alive, c

\* No execute is open on a handle that is not alive, held or busy.
LEMMA NotExecuting ==
  ASSUME TypeOK, BoundInv, NEW h \in Handles, ~Alive(h) \/ ~Held(h) \/ ~Busy(h)
  PROVE  ~Executing(h)
<1> SUFFICES ASSUME NEW f \in Fibers, NEW i \in DOMAIN stacks[f],
                    stacks[f][i].h = h, stacks[f][i].kind = "execute"
             PROVE  FALSE
  BY DEF Executing
<1>1. stacks[f][i] \in Open
  BY OpenCalls
<1>2. Alive(h)
  BY DEF BoundInv, CallAt
<1> QED BY <1>1, <1>2 DEF Held, Busy

\* Nothing is held for a statement that has nothing new to execute.
LEMMA IdleFills ==
  ASSUME TypeOK, BoundInv, on, NEW h \in Handles, ~Executing(h), stmt[h].tidy, Spent(stmt[h])
  PROVE  Fills(binds[h], Unbound)
<1>1. stmt[h] \in Stmt /\ stmt[h].tidy
  BY DEF TypeOK
<1>2. Recent(stmt[h]) = Unbound
  BY <1>1, SpentRecent
<1> QED BY <1>1, <1>2 DEF BoundInv, BoundAt

\* So it is after a step that leaves the statement so.
LEMMA SpentAt ==
  ASSUME TypeOK', NEW h \in Handles, Spent(stmt'[h]), stmt'[h].since <= nbinds',
         phase' = "idle" => stmt'[h].sql = "none",
         on' => Executing(h)' \/ ~stmt'[h].tidy \/ Fills(binds'[h], Unbound)
  PROVE  BoundAt(h)'
<1>1. stmt'[h] \in Stmt /\ nbinds' \in Nat
  BY DEF TypeOK
<1>2. Recent(stmt'[h]) = Unbound
  BY <1>1, SpentRecent
<1>3. ASSUME NEW p \in Params PROVE stmt'[h].bound[p] <= nbinds'
  <2>1. stmt'[h].bound[p] \in Nat /\ stmt'[h].since \in Nat /\ stmt'[h].bound[p] <= stmt'[h].since
    BY <1>1 DEF Stmt, Spent
  <2> QED BY <1>1, <2>1
<1>4. on' /\ ~Executing(h)' /\ stmt'[h].tidy => Fills(binds'[h], Recent(stmt'[h]))
  BY <1>2
<1> HIDE DEF Fills
<1>5. Fills(binds'[h], Recent(stmt'[h])) => Fills(binds[h], Recent(stmt[h]))'
  BY DEF Fills, Recent, Positional
<1>6. Spent(stmt[h])' /\ (phase' = "idle" => ~Alive(h)')
  BY DEF Spent, Alive
<1> QED BY <1>3, <1>4, <1>5, <1>6 DEF BoundAt

\* The values bound to a statement stay.
SameBound(h) == /\ stmt'[h].sql = stmt[h].sql /\ stmt'[h].tidy = stmt[h].tidy
                /\ stmt'[h].bound = stmt[h].bound /\ stmt'[h].since = stmt[h].since

\* So it is after a step that changes neither the statement nor its binds.
LEMMA SameAt ==
  ASSUME TypeOK, TypeOK', BoundInv, NEW h \in Handles, SameBound(h), binds'[h] = binds[h],
         nbinds <= nbinds', phase' = "idle" => phase = "idle", on' => on,
         Executing(h) => Executing(h)'
  PROVE  BoundAt(h)'
<1>1. BoundAt(h)
  BY DEF BoundInv
<1>2. /\ stmt[h].since \in Nat /\ nbinds \in Nat /\ nbinds' \in Nat
      /\ \A p \in Params : stmt[h].bound[p] \in Nat
  BY DEF TypeOK, Stmt
<1>3. stmt'[h].since <= nbinds' /\ \A p \in Params : stmt'[h].bound[p] <= nbinds'
  BY <1>1, <1>2 DEF BoundAt, SameBound
<1>4. Recent(stmt'[h]) = Recent(stmt[h])
  BY DEF Recent, SameBound
<1>5. on' /\ ~Executing(h)' /\ stmt'[h].tidy => Fills(binds'[h], Recent(stmt'[h]))
  BY <1>1, <1>4 DEF BoundAt, SameBound
<1>6. ~Alive(h)' => Spent(stmt[h])'
  BY <1>1 DEF BoundAt, SameBound, Alive, Spent
<1>7. phase' = "idle" => ~Alive(h)'
  BY <1>1 DEF BoundAt, SameBound, Alive
<1> QED BY <1>3, <1>5, <1>6, <1>7 DEF BoundAt, Recent

\* What the end of the call c does to the statements and to BINDS.
LEMMA EndBinds ==
  ASSUME TypeOK, NEW f \in Fibers, End(f)
  PROVE  LET c == Last(stacks[f]) IN
         /\ \A h \in Handles : \/ SameBound(h)
                               \/ c.kind = "query" /\ h = c.h /\ stmt'[h] = Gone(h)
         /\ \A h \in Handles : \/ binds'[h] = binds[h]
                               \/ c.kind = "execute" /\ h = c.h
         /\ on /\ c.kind = "execute" => binds'[c.h] = <<>>
<1> DEFINE c == Last(stacks[f])
           Goal == /\ \A h \in Handles : \/ SameBound(h)
                                         \/ c.kind = "query" /\ h = c.h /\ stmt'[h] = Gone(h)
                   /\ \A h \in Handles : \/ binds'[h] = binds[h]
                                         \/ c.kind = "execute" /\ h = c.h
                   /\ on /\ c.kind = "execute" => binds'[c.h] = <<>>
<1>k. ASSUME NEW kind, Leave(f, kind)
      PROVE  c.kind = kind /\ c \in Call /\ (kind # "exec" => c.h \in Handles)
  BY <1>k, LeaveType
<1> HIDE DEF c
<1>u. ASSUME stmt' = stmt PROVE \A h \in Handles : SameBound(h)
  BY <1>u DEF SameBound
<1>1. ASSUME NEW ok \in BOOLEAN, EndExec(f, ok) PROVE Goal
  BY <1>1, <1>k, <1>u DEF EndExec
<1>2. ASSUME NEW counted \in BOOLEAN, EndQuery(f, counted) PROVE Goal
  <2>1. Leave(f, "query") /\ binds' = binds
    BY <1>2 DEF EndQuery
  <2>2. stmt' = [stmt EXCEPT ![c.h] = [@ EXCEPT !.cursor = c.id, !.unread = TRUE]]
    BY <1>2 DEF EndQuery, c
  <2>3. \A h \in Handles : SameBound(h)
    BY <2>2 DEF SameBound, TypeOK, Stmt
  <2> QED BY <1>k, <2>1, <2>3
<1>3. ASSUME EndQueryFailed(f) PROVE Goal
  <2>1. Leave(f, "query") /\ binds' = binds /\ stmt' = [stmt EXCEPT ![c.h] = Gone(c.h)]
    BY <1>3 DEF EndQueryFailed, c
  <2>2. c.kind = "query" /\ c.h \in Handles
    BY <1>k, <2>1
  <2>3. \A h \in Handles : SameBound(h) \/ (h = c.h /\ stmt'[h] = Gone(h))
    BY <2>1 DEF SameBound, TypeOK
  <2> QED BY <2>1, <2>2, <2>3
<1>4. ASSUME NEW ok \in BOOLEAN, EndNoSql(f, ok) PROVE Goal
  <2>1. /\ binds' = binds
        /\ \/ Leave(f, "exec") /\ stmt' = stmt
           \/ /\ Leave(f, "query")
              /\ stmt' = [stmt EXCEPT ![c.h] = IF ok THEN [@ EXCEPT !.cursor = c.id]
                                              ELSE Gone(c.h)]
    BY <1>4 DEF EndNoSql, NoSql, c
  <2>2. CASE Leave(f, "exec") /\ stmt' = stmt
    <3>1. c.kind = "exec"
      BY <1>k, <2>2
    <3> QED BY <1>u, <2>1, <2>2, <3>1
  <2>3. CASE Leave(f, "query") /\ stmt' = [stmt EXCEPT ![c.h] =
                                     IF ok THEN [@ EXCEPT !.cursor = c.id] ELSE Gone(c.h)]
    <3>1. c.kind = "query" /\ c.h \in Handles
      BY <1>k, <2>3
    <3>2. CASE ok
      <4>1. stmt' = [stmt EXCEPT ![c.h] = [@ EXCEPT !.cursor = c.id]]
        BY <2>3, <3>2
      <4>2. \A h \in Handles : SameBound(h)
        BY <4>1 DEF SameBound, TypeOK, Stmt
      <4> QED BY <2>1, <3>1, <4>2
    <3>3. CASE ~ok
      <4>1. stmt' = [stmt EXCEPT ![c.h] = Gone(c.h)]
        BY <2>3, <3>3
      <4>2. \A h \in Handles : SameBound(h) \/ (h = c.h /\ stmt'[h] = Gone(h))
        BY <4>1 DEF SameBound, TypeOK
      <4> QED BY <2>1, <3>1, <4>2
    <3> QED BY <3>2, <3>3
  <2> QED BY <2>1, <2>2, <2>3
<1>5. ASSUME NEW ok \in BOOLEAN, NEW counted \in BOOLEAN, EndExecute(f, ok, counted) PROVE Goal
  <2>1. Leave(f, "execute")
    BY <1>5 DEF EndExecute
  <2>2. c.kind = "execute" /\ c.h \in Handles
    BY <1>k, <2>1
  <2> DEFINE cursor == IF ok THEN c.id ELSE stmt[c.h].cursor
             unread == ok /\ stmt[c.h].sql = "read"
  <2>3. stmt' = [stmt EXCEPT ![c.h] = [@ EXCEPT !.cursor = cursor, !.unread = unread]]
    BY <1>5 DEF EndExecute, c
  <2> HIDE DEF cursor, unread
  <2>4. \A h \in Handles : SameBound(h)
    BY <2>3 DEF SameBound, TypeOK, Stmt
  <2>5. (on /\ ClearBinds(c.h)) \/ (~on /\ binds' = binds)
    BY <1>5 DEF EndExecute, c
  <2>6. \A h \in Handles : binds'[h] = binds[h] \/ h = c.h
    BY <2>5 DEF ClearBinds, TypeOK
  <2>7. on => binds'[c.h] = <<>>
    BY <2>2, <2>5 DEF ClearBinds, TypeOK
  <2> QED BY <2>2, <2>4, <2>6, <2>7
<1>6. ASSUME NEW ok \in BOOLEAN, EndFetchAll(f, ok) PROVE Goal
  <2>1. Leave(f, "fetchAll") /\ binds' = binds
    BY <1>6 DEF EndFetchAll
  <2>2. stmt' = [stmt EXCEPT ![c.h] = [@ EXCEPT !.unread = FALSE]]
    BY <1>6 DEF EndFetchAll, c
  <2>3. \A h \in Handles : SameBound(h)
    BY <2>2 DEF SameBound, TypeOK, Stmt
  <2> QED BY <1>k, <2>1, <2>3
<1> HIDE DEF Goal
<1>7. Goal
  BY <1>1, <1>2, <1>3, <1>4, <1>5, <1>6 DEF End
<1> QED BY <1>7 DEF Goal, c

\* A statement that is gone has nothing to execute, and is tidy if it had not.
LEMMA GoneIs ==
  ASSUME TypeOK, NEW h \in Handles
  PROVE  /\ Gone(h).sql = "none" /\ Gone(h).since = 0 /\ Spent(Gone(h))
         /\ Gone(h).tidy => stmt[h].tidy /\ Spent(stmt[h])
<1>1. /\ Gone(h).sql = "none" /\ Gone(h).since = 0 /\ Gone(h).bound = Unbound
      /\ Gone(h).tidy = (stmt[h].tidy /\ Spent(stmt[h]))
  BY DEF Gone, NoStmt
<1>2. Spent(Gone(h))
  BY <1>1 DEF Spent, Unbound
<1> QED BY <1>1, <1>2

\* So has a new one, which finds what the last left.
LEMMA NewIs ==
  ASSUME NEW h \in Handles, NEW sql
  PROVE  /\ NewStmt(h, sql).sql = sql /\ NewStmt(h, sql).since = 0
         /\ NewStmt(h, sql).tidy = stmt[h].tidy /\ Spent(NewStmt(h, sql))
<1>1. /\ NewStmt(h, sql).sql = sql /\ NewStmt(h, sql).since = 0
      /\ NewStmt(h, sql).bound = Unbound /\ NewStmt(h, sql).tidy = stmt[h].tidy
  BY DEF NewStmt, NoStmt
<1>2. Spent(NewStmt(h, sql))
  BY <1>1 DEF Spent, Unbound
<1> QED BY <1>1, <1>2

\* So every end keeps BINDS in step with the statements.
LEMMA EndBound ==
  ASSUME TypeOK, TypeOK', BoundInv, NEW f \in Fibers, End(f)
  PROVE  BoundInv'
<1> DEFINE c == Last(stacks[f])
           n == Len(stacks[f])
<1>1. /\ stacks[f] # <<>> /\ stacks' = [stacks EXCEPT ![f] = Front(@)]
      /\ UNCHANGED <<on, phase, nbinds>>
  BY EndLeaves
<1>2. /\ OnlyOld /\ n \in DOMAIN stacks[f] /\ c = stacks[f][n]
      /\ \A g \in Fibers : \A i \in DOMAIN stacks'[g] : ~(g = f /\ i = n)
  BY <1>1, EndPlaces
<1>3. /\ \A h \in Handles : \/ SameBound(h)
                            \/ c.kind = "query" /\ h = c.h /\ stmt'[h] = Gone(h)
      /\ \A h \in Handles : binds'[h] = binds[h] \/ (c.kind = "execute" /\ h = c.h)
      /\ on /\ c.kind = "execute" => binds'[c.h] = <<>>
  BY EndBinds
<1>4. ASSUME NEW g \in Fibers, NEW i \in DOMAIN stacks[g], ~(g = f /\ i = n)
      PROVE  i \in DOMAIN stacks'[g] /\ stacks'[g][i] = stacks[g][i]
  <2>1. /\ n \in Nat \ {0} /\ DOMAIN stacks[f] = 1..n /\ DOMAIN stacks'[f] = 1..(n - 1)
        /\ \A j \in 1..(n - 1) : stacks'[f][j] = stacks[f][j]
        /\ \A h \in Fibers \ {f} : stacks'[h] = stacks[h]
    BY <1>1, LeaveShrinks
  <2> HIDE DEF n
  <2>2. CASE g = f
    <3>1. i \in 1..(n - 1)
      BY <1>4, <2>1, <2>2
    <3> QED BY <2>1, <2>2, <3>1
  <2>3. CASE g # f
    BY <2>1, <2>3
  <2> QED BY <2>2, <2>3
<1>5. (c.kind # "exec" => c.h \in Handles) /\ (c.kind = "exec" => c.h = NoHandle)
  BY <1>2, OpenCalls
<1>6. /\ c.h \in Handles => Alive(c.h)
      /\ c.kind \in {"query", "execute"} =>
           /\ Spent(stmt[c.h])
           /\ \A g \in Fibers : \A j \in DOMAIN stacks[g] :
                stacks[g][j].h = c.h => \/ g = f /\ j = n
                                        \/ c.kind = "execute" /\ stacks[g][j].kind = "fetchAll"
  BY <1>2 DEF BoundInv, CallAt
\* An execute open before is open still, unless it is the one that ends.
<1>7. ASSUME NEW h \in Handles, Executing(h), ~(c.kind = "execute" /\ h = c.h)
      PROVE  Executing(h)'
  <2>0. PICK g \in Fibers : \E i \in DOMAIN stacks[g] :
          stacks[g][i].h = h /\ stacks[g][i].kind = "execute"
    BY <1>7 DEF Executing
  <2>1. PICK i \in DOMAIN stacks[g] : stacks[g][i].h = h /\ stacks[g][i].kind = "execute"
    BY <2>0
  <2>2. ~(g = f /\ i = n)
    BY <1>2, <1>7, <2>1
  <2>3. i \in DOMAIN stacks'[g] /\ stacks'[g][i] = stacks[g][i]
    BY <1>4, <2>2
  <2> QED BY <2>1, <2>3 DEF Executing
<1>8. ASSUME c.kind = "query" PROVE ~Executing(c.h)
  <2> SUFFICES ASSUME NEW g \in Fibers, NEW i \in DOMAIN stacks[g],
                      stacks[g][i].h = c.h, stacks[g][i].kind = "execute"
               PROVE  FALSE
    BY DEF Executing
  <2>1. g = f /\ i = n
    BY <1>6, <1>8
  <2> QED BY <1>2, <1>8, <2>1
<1> HIDE DEF c, n
<1>9. ASSUME NEW h \in Handles PROVE BoundAt(h)'
  <2>1. CASE c.kind = "query" /\ h = c.h /\ stmt'[h] = Gone(h)
    <3>0. nbinds' \in Nat
      BY DEF TypeOK
    <3>1. Spent(stmt'[h]) /\ stmt'[h].since <= nbinds' /\ stmt'[h].sql = "none"
      BY <2>1, <3>0, GoneIs
    <3>2. on => ~stmt'[h].tidy \/ Fills(binds[h], Unbound)
      BY <1>6, <1>8, <2>1, IdleFills, GoneIs
    <3>3. binds'[h] = binds[h]
      BY <1>3, <2>1
    <3> QED BY <1>1, <3>1, <3>2, <3>3, SpentAt
  <2>2. CASE SameBound(h) /\ ~(c.kind = "execute" /\ h = c.h)
    <3>1. binds'[h] = binds[h] /\ (Executing(h) => Executing(h)')
      BY <1>3, <1>7, <2>2
    <3>2. nbinds <= nbinds'
      BY <1>1 DEF TypeOK
    <3> QED BY <1>1, <2>2, <3>1, <3>2, SameAt
  <2>3. CASE SameBound(h) /\ c.kind = "execute" /\ h = c.h
    <3>1. Spent(stmt'[h])
      BY <1>6, <2>3 DEF SameBound, Spent
    <3>2. stmt'[h].since <= nbinds'
      BY <1>1, <2>3 DEF SameBound, BoundInv, BoundAt
    <3>3. phase' # "idle"
      BY <1>1, <1>6, <2>3 DEF BoundInv, BoundAt
    <3>4. on' => Fills(binds'[h], Unbound)
      BY <1>1, <1>3, <2>3, FillsNone
    <3> QED BY <3>1, <3>2, <3>3, <3>4, SpentAt
  <2> QED BY <1>3, <2>1, <2>2, <2>3
<1>10. ASSUME NEW h \in Handles PROVE Kept(h)
  <2>1. CASE c.kind = "query" /\ h = c.h
    <3>1. Vacated(h)
      BY <1>2, <1>6, <2>1 DEF Vacated, OnlyOld
    <3> QED BY <3>1 DEF Kept
  <2>2. CASE c.kind = "execute" /\ h = c.h
    <3>1. \A g \in Fibers : \A i \in DOMAIN stacks'[g] :
            stacks'[g][i].h = h => stacks'[g][i].kind = "fetchAll"
      BY <1>2, <1>6, <2>2 DEF OnlyOld
    <3>2. SameBound(h)
      BY <1>3, <2>2
    <3> QED BY <3>1, <3>2 DEF Kept, SameBound
  <2>3. CASE ~(c.kind \in {"query", "execute"} /\ h = c.h)
    <3>1. SameBound(h) /\ binds'[h] = binds[h]
      BY <1>3, <2>3
    <3>2. Spent(stmt[h]) => Spent(stmt'[h])
      BY <3>1 DEF SameBound, Spent
    <3> QED BY <3>1, <3>2 DEF Kept, SameBound
  <2> QED BY <2>1, <2>2, <2>3
<1>11. \A g \in Fibers : \A i \in DOMAIN stacks'[g] : CallAt(g, i)'
  BY <1>1, <1>2, <1>10, CallsKept
<1> QED BY <1>9, <1>11 DEF BoundInv

\* So does what the application does to its statements ..
LEMMA StatementsBound ==
  ASSUME TypeOK, TypeOK', BoundInv, Statements
  PROVE  BoundInv'
<1>1. PICK h \in Handles :
        \/ \E sql \in {"read", "write", "opaque"} : Prepare(h, sql)
        \/ Free(h)
        \/ \E p \in Params : AssignParam(h, p)
        \/ \E p \in Params, ok \in BOOLEAN : BindValue(h, p, ok)
  BY DEF Statements
<1>2. /\ stacks' = stacks /\ on' = on /\ phase' = phase /\ phase = "running"
      /\ nbinds \in Nat /\ nbinds + 1 \in Nat /\ (nbinds' = nbinds \/ nbinds' = nbinds + 1)
  <2>1. nbinds \in Nat /\ nbinds + 1 \in Nat
    BY DEF TypeOK
  <2>2. \/ \E sql \in {"read", "write", "opaque"} : Prepare(h, sql)
        \/ Free(h)
        \/ \E p \in Params : AssignParam(h, p)
        \/ \E p \in Params, ok \in BOOLEAN : BindValue(h, p, ok)
    BY <1>1
  <2>3. /\ stacks' = stacks /\ on' = on /\ phase' = phase /\ phase = "running"
        /\ nbinds' = nbinds \/ nbinds' = nbinds + 1
    BY <2>2 DEF Prepare, Free, AssignParam, BindValue
  <2> QED BY <2>1, <2>3
<1>3. OnlyOld /\ nbinds <= nbinds'
  BY <1>2 DEF OnlyOld
<1>4. \A g \in Handles : Executing(g)' <=> Executing(g)
  BY <1>2 DEF Executing
<1>s. stmt[h] \in Stmt /\ stmt'[h] \in Stmt /\ binds[h] \in Seq(Bind)
      /\ stmt[h].since \in Nat /\ stmt[h].since <= nbinds
      /\ \A p \in Params : stmt[h].bound[p] \in Nat /\ stmt[h].bound[p] <= nbinds
  BY DEF TypeOK, Stmt, BoundInv, BoundAt
<1>5. \A g \in Handles \ {h} : stmt'[g] = stmt[g] /\ binds'[g] = binds[g]
  BY <1>1 DEF Prepare, Free, AssignParam, BindValue, extension, TypeOK
\* What matters is the handle h.
<1>6. ASSUME BoundAt(h)', Kept(h) PROVE BoundInv'
  <2>1. ASSUME NEW g \in Handles, g # h PROVE BoundAt(g)' /\ Kept(g)
    <3>1. SameBound(g) /\ binds'[g] = binds[g] /\ stmt'[g] = stmt[g]
      BY <1>5, <2>1 DEF SameBound
    <3>2. BoundAt(g)'
      BY <1>2, <1>3, <1>4, <3>1, SameAt
    <3> QED BY <3>1, <3>2 DEF Kept
  <2>2. \A g \in Handles : BoundAt(g)' /\ Kept(g)
    BY <1>6, <2>1
  <2>3. \A g \in Fibers : \A i \in DOMAIN stacks'[g] : CallAt(g, i)'
    BY <1>2, <1>3, <2>2, CallsKept
  <2> QED BY <2>2, <2>3 DEF BoundInv
<1>v. ASSUME ~Alive(h) \/ ~Held(h) PROVE Vacated(h) /\ ~Executing(h)
  <2>1. \A f \in Fibers : \A i \in DOMAIN stacks[f] :
          stacks[f][i] \in Open /\ (stacks[f][i].h = h => Alive(h))
    BY OpenCalls DEF BoundInv, CallAt
  <2>2. Vacated(h)
    BY <1>2, <1>v, <2>1 DEF Vacated, Held
  <2> QED BY <1>v, <2>2, NotExecuting
<1>7. ASSUME ~Alive(h) \/ ~Held(h), Spent(stmt'[h]), stmt'[h].since <= nbinds', binds' = binds,
             stmt'[h].tidy => stmt[h].tidy /\ Spent(stmt[h])
      PROVE  BoundInv'
  <2>1. on => ~stmt'[h].tidy \/ Fills(binds'[h], Unbound)
    BY <1>7, <1>v, IdleFills
  <2>2. BoundAt(h)'
    BY <1>2, <1>7, <2>1, SpentAt
  <2>3. Kept(h)
    BY <1>7, <1>v DEF Kept
  <2> QED BY <1>6, <2>2, <2>3
<1>8. ASSUME NEW sql \in {"read", "write", "opaque"}, Prepare(h, sql) PROVE BoundInv'
  <2>1. ~Alive(h) /\ stmt'[h] = NewStmt(h, sql) /\ binds' = binds /\ nbinds' = nbinds
    BY <1>8 DEF Prepare, extension, TypeOK
  <2>2. Spent(stmt[h])
    BY <2>1 DEF BoundInv, BoundAt
  <2>3. Spent(stmt'[h]) /\ stmt'[h].since <= nbinds'
    BY <1>2, <2>1, NewIs
  <2>4. stmt'[h].tidy => stmt[h].tidy
    BY <2>1, NewIs
  <2> QED BY <1>7, <2>1, <2>2, <2>3, <2>4
<1>9. ASSUME Free(h) PROVE BoundInv'
  <2>1. ~Held(h) /\ stmt'[h] = Gone(h) /\ binds' = binds /\ nbinds' = nbinds
    BY <1>9 DEF Free, extension, TypeOK
  <2>2. /\ Spent(stmt'[h]) /\ stmt'[h].since <= nbinds'
        /\ stmt'[h].tidy => stmt[h].tidy /\ Spent(stmt[h])
    BY <1>2, <2>1, GoneIs
  <2> QED BY <1>7, <2>1, <2>2
\* No query or execute is open on a handle that is not busy.
<1>b. ASSUME ~Busy(h), stmt'[h].sql = stmt[h].sql PROVE Kept(h) /\ ~Executing(h)
  <2>1. \A f \in Fibers : \A i \in DOMAIN stacks[f] : stacks[f][i] \in Open
    BY OpenCalls
  <2>2. \A f \in Fibers : \A i \in DOMAIN stacks'[f] :
          stacks'[f][i].h = h => stacks'[f][i].kind = "fetchAll"
    BY <1>2, <1>b, <2>1 DEF Busy
  <2> QED BY <1>b, <2>2, NotExecuting DEF Kept
<1>10. ASSUME NEW p \in Params, AssignParam(h, p) PROVE BoundInv'
  <2>1. /\ ~Busy(h) /\ Alive(h) /\ stmt' = [stmt EXCEPT ![h] = Assigned(@, p, FALSE)]
        /\ nbinds' = nbinds + 1
    BY <1>10 DEF AssignParam
  <2>2. /\ stmt'[h].sql = stmt[h].sql /\ stmt'[h].since = stmt[h].since
        /\ stmt'[h].bound = [stmt[h].bound EXCEPT ![p] = nbinds + 1]
        /\ ~stmt'[h].tidy
    BY <2>1 DEF Assigned, TypeOK, Stmt
  <2>n. nbinds' = nbinds + 1
    BY <2>1
  <2>3. \A x \in Params : stmt'[h].bound[x] <= nbinds'
    <3>1. stmt[h].bound \in [Params -> Nat]
      BY <1>s DEF Stmt
    <3> QED BY <1>s, <1>2, <2>n, <2>2, <3>1
  <2>4. stmt'[h].since <= nbinds'
    BY <1>s, <1>2, <2>n, <2>2
  <2>5. BoundAt(h)'
    BY <1>2, <2>1, <2>2, <2>3, <2>4 DEF BoundAt, Alive
  <2> QED BY <1>6, <1>b, <2>1, <2>2, <2>5
<1>11. ASSUME NEW p \in Params, NEW ok \in BOOLEAN, BindValue(h, p, ok) PROVE BoundInv'
  <2> DEFINE tidy == stmt[h].tidy /\ (p \in Names \/ p = Rebound(stmt[h]) + 1)
             e == [key |-> KeyOf(p), n |-> nbinds + 1]
  <2>1. /\ ~Busy(h) /\ Alive(h) /\ nbinds' = nbinds + 1
        /\ stmt' = [stmt EXCEPT ![h] = IF ok THEN Assigned(@, p, tidy)
                                      ELSE [@ EXCEPT !.tidy = FALSE]]
        /\ binds' = IF on THEN [binds EXCEPT ![h] = Append(@, e)] ELSE binds
    BY <1>11 DEF BindValue
  <2>t. tidy \in BOOLEAN
    BY <1>s DEF Stmt
  <2>2. /\ stmt'[h].sql = stmt[h].sql /\ stmt'[h].since = stmt[h].since
        /\ ok => stmt'[h].bound = [stmt[h].bound EXCEPT ![p] = nbinds + 1]
                 /\ stmt'[h].tidy = tidy
        /\ ~ok => stmt'[h].bound = stmt[h].bound /\ ~stmt'[h].tidy
    <3> HIDE DEF tidy
    <3>1. stmt[h] \in Stmt /\ stmt \in [Handles -> Stmt]
      BY DEF TypeOK
    <3>2. stmt' = [stmt EXCEPT ![h] = IF ok THEN Assigned(stmt[h], p, tidy)
                                      ELSE [stmt[h] EXCEPT !.tidy = FALSE]]
      BY <2>1
    <3>3. ok => stmt'[h] = Assigned(stmt[h], p, tidy)
      BY <3>1, <3>2
    <3>4. ~ok => stmt'[h] = [stmt[h] EXCEPT !.tidy = FALSE]
      BY <3>1, <3>2
    <3>5. CASE ok
      BY <2>t, <3>1, <3>3, <3>5 DEF Assigned, Stmt
    <3>6. CASE ~ok
      BY <3>1, <3>4, <3>6 DEF Stmt
    <3> QED BY <3>5, <3>6
  <2>n. nbinds' = nbinds + 1
    BY <2>1
  <2>3. \A x \in Params : stmt'[h].bound[x] <= nbinds'
    <3>1. CASE ok
      <4>1. stmt'[h].bound = [stmt[h].bound EXCEPT ![p] = nbinds + 1]
        BY <2>2, <3>1
      <4>2. stmt[h].bound \in [Params -> Nat]
        BY <1>s DEF Stmt
      <4> QED BY <1>s, <1>2, <2>n, <4>1, <4>2
    <3>2. CASE ~ok
      BY <1>s, <1>2, <2>n, <2>2, <3>2
    <3> QED BY <3>1, <3>2
  <2>4. stmt'[h].since <= nbinds'
    BY <1>s, <1>2, <2>n, <2>2
  <2>5. Kept(h) /\ ~Executing(h)
    BY <1>b, <2>1, <2>2
  <2>6. ASSUME on, stmt'[h].tidy PROVE Fills(binds'[h], Recent(stmt'[h]))
    <3>1. ok /\ stmt[h].tidy /\ (p \in Names \/ p = Rebound(stmt[h]) + 1)
      BY <2>2, <2>6
    <3>2. Fills(binds[h], Recent(stmt[h]))
      BY <2>5, <2>6, <3>1 DEF BoundInv, BoundAt
    <3>3. p \in Names \/ p = Len(Positional(binds[h])) + 1
      BY <1>s, <3>1, <3>2, ReboundIs
    <3>4. Recent(stmt[h]) \in [Params -> Nat] /\ nbinds + 1 \in Nat \ {0}
      BY <1>s, <1>2, RecentType
    <3>5. Fills(Append(binds[h], e), [Recent(stmt[h]) EXCEPT ![p] = nbinds + 1])
      BY <1>s, <3>2, <3>3, <3>4, FillsNext
    <3>6. Recent(stmt'[h]) = [Recent(stmt[h]) EXCEPT ![p] = nbinds + 1]
      <4>1. nbinds + 1 > stmt[h].since
        BY <1>s, <1>2
      <4>2. /\ stmt'[h].since = stmt[h].since
            /\ stmt'[h].bound = [stmt[h].bound EXCEPT ![p] = nbinds + 1]
            /\ stmt[h].bound \in [Params -> Nat]
        BY <1>s, <2>2, <3>1 DEF Stmt
      <4>3. ASSUME NEW x \in Params
            PROVE  Recent(stmt'[h])[x] = [Recent(stmt[h]) EXCEPT ![p] = nbinds + 1][x]
        BY <4>1, <4>2 DEF Recent
      <4> QED BY <4>3 DEF Recent
    <3>7. binds'[h] = Append(binds[h], e)
      BY <2>1, <2>6 DEF TypeOK
    <3> QED BY <3>5, <3>6, <3>7
  <2>7. BoundAt(h)'
    BY <1>2, <2>1, <2>2, <2>3, <2>4, <2>6 DEF BoundAt, Alive, Recent
  <2> QED BY <1>6, <2>5, <2>7
<1> QED BY <1>1, <1>8, <1>9, <1>10, <1>11

\* .. and the callbacks of the request and a bailout.
LEMMA RequestBound ==
  ASSUME TypeOK, TypeOK', PhaseInv, BoundInv, Rinit \/ Rshutdown \/ Bailout
  PROVE  BoundInv'
<1>e. DOMAIN <<>> = {}
  BY EmptySeq
<1>1. CASE Rinit
  <2>1. /\ phase' = "running" /\ stmt' = stmt /\ nbinds' = nbinds
        /\ \A h \in Handles : binds'[h] = <<>> /\ Spent(stmt[h]) /\ stmt[h].since <= nbinds
    BY <1>1 DEF Rinit, Reset, BoundInv, BoundAt
  <2>2. \A f \in Fibers : DOMAIN stacks'[f] = {}
    BY <1>1, <1>e DEF Rinit, PhaseInv, Quiet
  <2>3. ASSUME NEW h \in Handles PROVE BoundAt(h)'
    BY <2>1, FillsNone, SpentAt
  <2> QED BY <2>2, <2>3 DEF BoundInv
<1>2. ASSUME UNCHANGED <<on, stmt, binds, stacks, nbinds>>, phase' # "idle" PROVE BoundInv'
  <2>1. OnlyOld /\ nbinds <= nbinds'
    BY <1>2 DEF OnlyOld, TypeOK
  <2>2. \A h \in Handles : Kept(h) /\ SameBound(h) /\ (Executing(h) => Executing(h)')
    BY <1>2 DEF Kept, SameBound, Executing
  <2>3. \A h \in Handles : BoundAt(h)'
    BY <1>2, <2>1, <2>2, SameAt
  <2>4. \A f \in Fibers : \A i \in DOMAIN stacks'[f] : CallAt(f, i)'
    BY <1>2, <2>1, <2>2, CallsKept
  <2> QED BY <2>3, <2>4 DEF BoundInv
<1>3. CASE RshutdownDrain
  BY <1>2, <1>3 DEF RshutdownDrain
<1>4. ASSUME NEW q \in draining, FlushEmit(q) PROVE BoundInv'
  BY <1>2, <1>4 DEF FlushEmit, extension
<1>5. CASE RshutdownDone
  <2>1. /\ \A h \in Handles : stmt'[h] = NoStmt
        /\ ~on' /\ nbinds' \in Nat
    BY <1>5 DEF RshutdownDone, TypeOK
  <2>2. \A f \in Fibers : DOMAIN stacks'[f] = {}
    BY <1>5, <1>e DEF RshutdownDone, PhaseInv, Quiet
  <2>3. ASSUME NEW h \in Handles PROVE BoundAt(h)'
    <3>1. Spent(stmt'[h]) /\ stmt'[h].since <= nbinds' /\ stmt'[h].sql = "none"
      BY <2>1 DEF NoStmt, Spent, Unbound
    <3> QED BY <2>1, <3>1, SpentAt
  <2> QED BY <2>2, <2>3 DEF BoundInv
\* What a bailout abandons is untidy, or had the handle to itself.
<1>6. CASE Bailout
  <2>1. /\ UNCHANGED <<phase, on, binds, nbinds>> /\ phase = "running"
        /\ \A f \in Fibers : stacks'[f] = <<>>
    BY <1>6 DEF Bailout, extension
  <2>2. \A f \in Fibers : DOMAIN stacks'[f] = {}
    BY <1>e, <2>1
  <2>n. nbinds \in Nat /\ nbinds <= nbinds'
    BY <2>1 DEF TypeOK
  <2>3. ASSUME NEW h \in Handles PROVE BoundAt(h)'
    <3>o. ASSUME NEW kind, \E c \in Open : c.h = h /\ c.kind = kind
          PROVE  \E f \in Fibers : \E i \in DOMAIN stacks[f] :
                   stacks[f][i].h = h /\ stacks[f][i].kind = kind
      BY <3>o DEF Open
    <3>1. CASE \E c \in Open : c.h = h /\ c.kind = "query"
      <4>0. PICK f \in Fibers : \E i \in DOMAIN stacks[f] :
              stacks[f][i].h = h /\ stacks[f][i].kind = "query"
        BY <3>1, <3>o
      <4>1. PICK i \in DOMAIN stacks[f] : stacks[f][i].h = h /\ stacks[f][i].kind = "query"
        BY <4>0
      <4>2. \A g \in Fibers : \A j \in DOMAIN stacks[g] :
              stacks[g][j].h = h => g = f /\ j = i
        BY <4>1 DEF BoundInv, CallAt
      <4>3. ~Executing(h)
        BY <4>1, <4>2 DEF Executing
      <4>4. stmt'[h] = Gone(h)
        BY <1>6, <3>1 DEF Bailout
      <4>5. Spent(stmt'[h]) /\ stmt'[h].since <= nbinds'
        BY <2>1, <2>n, <4>4, GoneIs
      <4>6. on => ~stmt'[h].tidy \/ Fills(binds[h], Unbound)
        BY <4>3, <4>4, IdleFills, GoneIs
      <4> QED BY <2>1, <4>5, <4>6, SpentAt
    <3>2. CASE ~ \E c \in Open : c.h = h /\ c.kind = "query"
      <4>1. stmt'[h] = [stmt[h] EXCEPT
                         !.tidy = @ /\ ~ \E c \in Open : c.h = h /\ c.kind = "execute"]
        BY <1>6, <3>2 DEF Bailout
      <4>2. CASE \E c \in Open : c.h = h /\ c.kind = "execute"
        <5>0. PICK f \in Fibers : \E i \in DOMAIN stacks[f] :
                stacks[f][i].h = h /\ stacks[f][i].kind = "execute"
          BY <4>2, <3>o
        <5>1. PICK i \in DOMAIN stacks[f] : stacks[f][i].h = h /\ stacks[f][i].kind = "execute"
          BY <5>0
        <5>2. Spent(stmt[h])
          BY <5>1 DEF BoundInv, CallAt
        <5>3. stmt'[h] = [stmt[h] EXCEPT !.tidy = FALSE]
          BY <4>1, <4>2
        <5>4. /\ stmt'[h].bound = stmt[h].bound /\ stmt'[h].since = stmt[h].since
              /\ ~stmt'[h].tidy
          BY <5>3 DEF TypeOK, Stmt
        <5>5. Spent(stmt'[h]) /\ stmt'[h].since <= nbinds'
          BY <2>1, <5>2, <5>4 DEF Spent, BoundInv, BoundAt
        <5> QED BY <2>1, <5>4, <5>5, SpentAt
      <4>3. CASE ~ \E c \in Open : c.h = h /\ c.kind = "execute"
        <5>0. stmt[h] \in Stmt
          BY DEF TypeOK
        <5>1. stmt'[h] = [stmt[h] EXCEPT !.tidy = stmt[h].tidy]
          <6>1. stmt'[h] = [stmt[h] EXCEPT !.tidy = @ /\ TRUE]
            BY <4>1, <4>3
          <6>2. (stmt[h].tidy /\ TRUE) = stmt[h].tidy
            BY <5>0 DEF Stmt
          <6> QED BY <6>1, <6>2
        <5>2. SameBound(h)
          <6>1. stmt'[h] = stmt[h]
            BY <5>0, <5>1 DEF Stmt
          <6> QED BY <6>1 DEF SameBound
        <5>3. ~Executing(h)
          BY <4>3, OpenCalls DEF Executing
        <5> QED BY <2>1, <2>n, <5>2, <5>3, SameAt
      <4> QED BY <4>2, <4>3
    <3> QED BY <3>1, <3>2
  <2> QED BY <2>2, <2>3 DEF BoundInv
<1> QED BY <1>1, <1>3, <1>4, <1>5, <1>6 DEF Rshutdown

\* What the beginning of the call d does to the statements, and the values the
\* call runs with.
Binding(d) ==
  /\ \A g \in Handles : g # d.h => stmt'[g] = stmt[g]
  /\ nbinds <= nbinds'
  /\ \/ d.kind = "exec" /\ d.h = NoHandle /\ d.used = Unbound
     \/ d.kind = "fetchAll" /\ d.h \in Handles /\ Alive(d.h) /\ ~Busy(d.h) /\ stmt' = stmt
     \/ /\ d.kind \in {"query", "execute"} /\ d.h \in Handles
        /\ stmt'[d.h].sql # "none" /\ Spent(stmt'[d.h]) /\ stmt'[d.h].since <= nbinds'
        /\ \/ /\ d.kind = "query" /\ ~Alive(d.h) /\ d.used = Unbound
              /\ stmt'[d.h].tidy => stmt[d.h].tidy
           \/ /\ d.kind = "execute" /\ Alive(d.h) /\ ~Busy(d.h)
              /\ on /\ d.tidy => Fills(IF d.given THEN d.args ELSE binds[d.h], d.used)

\* Every call begins so.
LEMMA BeginBinds ==
  ASSUME TypeOK, BoundInv, NEW f \in Fibers, Begin(f)
  PROVE  \E d \in Call : Enter(f, d) /\ Binding(d)
<1> DEFINE Goal == \E d \in Call : Enter(f, d) /\ Binding(d)
<1>e. <<>> \in Seq(Bind)
  BY EmptySeq
<1>b. nbinds \in Nat /\ nbinds <= nbinds
  BY DEF TypeOK
<1>s. ASSUME NEW h \in Handles
      PROVE  /\ stmt[h] \in Stmt /\ stmt[h].bound \in [Params -> Nat] /\ stmt[h].since \in Nat
             /\ stmt[h].tidy \in BOOLEAN
             /\ \A p \in Params : stmt[h].bound[p] <= nbinds
  BY DEF TypeOK, Stmt, BoundInv, BoundAt
<1>1. ASSUME BeginExec(f) PROVE Goal
  <2> DEFINE d == Plain("exec", NoHandle)
  <2>1. Enter(f, d) /\ UNCHANGED <<stmt, nbinds>>
    BY <1>1 DEF BeginExec
  <2>2. d \in Call /\ d.kind = "exec" /\ d.h = NoHandle /\ d.used = Unbound
    BY PlainType DEF Plain
  <2> HIDE DEF d
  <2> QED BY <1>b, <2>1, <2>2 DEF Binding
<1>2. ASSUME NEW h \in Handles, NEW sql \in {"read", "write", "opaque"}, BeginQuery(f, h, sql) PROVE Goal
  <2> DEFINE d == Plain("query", h)
  <2>1. Enter(f, d) /\ nbinds' = nbinds /\ ~Alive(h) /\ stmt' = [stmt EXCEPT ![h] = NewStmt(h, sql)]
    BY <1>2 DEF BeginQuery
  <2>2. d \in Call /\ d.kind = "query" /\ d.h = h /\ d.used = Unbound
    BY PlainType DEF Plain
  <2> HIDE DEF d
  <2>3. stmt'[h] = NewStmt(h, sql) /\ \A g \in Handles : g # h => stmt'[g] = stmt[g]
    BY <2>1 DEF TypeOK
  <2>4. /\ Spent(stmt'[h]) /\ stmt'[h].sql # "none" /\ stmt'[h].since <= nbinds'
        /\ stmt'[h].tidy => stmt[h].tidy
    BY <1>b, <2>1, <2>3, NewIs
  <2> QED BY <1>b, <2>1, <2>2, <2>3, <2>4 DEF Binding
<1>3. ASSUME NEW h \in Handles, BeginExecute(f, h) PROVE Goal
  <2> DEFINE tidy == stmt[h].tidy /\ \A p \in Params : stmt[h].bound[p] # 0
                                                  => stmt[h].bound[p] > stmt[h].since
             d == [Plain("execute", h) EXCEPT !.used = stmt[h].bound, !.tidy = tidy]
  <2>1. /\ Enter(f, d) /\ nbinds' = nbinds /\ Alive(h) /\ ~Busy(h)
        /\ stmt' = [stmt EXCEPT ![h] = [@ EXCEPT !.since = nbinds, !.tidy = TRUE]]
    BY <1>3 DEF BeginExecute
  <2>t. tidy \in BOOLEAN
    BY <1>s
  <2>2. /\ d \in Call /\ d.kind = "execute" /\ d.h = h /\ ~d.given
        /\ d.used = stmt[h].bound /\ d.tidy = tidy
    <3> HIDE DEF tidy
    <3> QED BY <1>e, <1>s, <2>t, UnboundType DEF Plain, Call, CallOn
  <2> HIDE DEF d
  <2>3. /\ \A g \in Handles : g # h => stmt'[g] = stmt[g]
        /\ stmt'[h].sql = stmt[h].sql /\ stmt'[h].bound = stmt[h].bound
        /\ stmt'[h].since = nbinds /\ stmt'[h].tidy
    BY <2>1 DEF TypeOK, Stmt
  <2>4. Spent(stmt'[h]) /\ stmt'[h].sql # "none" /\ stmt'[h].since <= nbinds'
    BY <1>b, <1>s, <2>1, <2>3 DEF Spent, Alive
  <2>5. ASSUME on, d.tidy PROVE Fills(binds[h], d.used)
    <3>1. stmt[h].tidy /\ \A p \in Params : stmt[h].bound[p] # 0 => stmt[h].bound[p] > stmt[h].since
      BY <2>2, <2>5
    <3>2. Fills(binds[h], Recent(stmt[h]))
      BY <2>1, <2>5, <3>1, NotExecuting DEF BoundInv, BoundAt
    <3>3. ASSUME NEW p \in Params PROVE Recent(stmt[h])[p] = stmt[h].bound[p]
      BY <1>s, <3>1 DEF Recent
    <3>4. Recent(stmt[h]) = stmt[h].bound
      BY <1>s, <3>3, RecentType
    <3> QED BY <2>2, <3>2, <3>4
  <2> HIDE DEF tidy
  <2> QED BY <1>b, <2>1, <2>2, <2>3, <2>4, <2>5 DEF Binding
<1>4. ASSUME NEW h \in Handles, NEW ps \in ArrayKeys, BeginExecuteWith(f, h, ps) PROVE Goal
  <2> DEFINE value(p) == IF \E i \in DOMAIN ps : ps[i] = p
                         THEN nbinds + (CHOOSE i \in DOMAIN ps : ps[i] = p) ELSE 0
             bound == [p \in Params |-> value(p)]
             taken == IF Len(ps) <= ArrayCap THEN Len(ps) ELSE ArrayCap
             args  == [i \in 1..taken |-> [key |-> KeyOf(ps[i]), n |-> nbinds + i]]
             tidy  == InOrder(ps) /\ Len(ps) <= ArrayCap
             d == [Plain("execute", h) EXCEPT !.given = TRUE, !.used = bound,
                     !.tidy = tidy, !.args = args]
  <2>1. /\ ps \in Seq(Params) /\ Len(ps) \in Nat /\ DOMAIN ps = 1..Len(ps)
        /\ \A i, j \in DOMAIN ps : ps[i] = ps[j] => i = j
    BY SeqDef, LenProperties DEF ArrayKeys
  <2>2. bound \in [Params -> Nat] /\ \A p \in Params : bound[p] <= nbinds + Len(ps)
    <3> SUFFICES ASSUME NEW p \in Params PROVE value(p) \in Nat /\ value(p) <= nbinds + Len(ps)
      OBVIOUS
    <3> DEFINE k == CHOOSE i \in DOMAIN ps : ps[i] = p
    <3>1. CASE \E i \in DOMAIN ps : ps[i] = p
      <4>1. k \in DOMAIN ps
        BY <3>1
      <4>2. nbinds \in Nat /\ k \in Nat /\ k <= Len(ps)
        BY <2>1, <4>1 DEF TypeOK
      <4> HIDE DEF k
      <4>3. nbinds + k \in Nat /\ nbinds + k <= nbinds + Len(ps)
        BY <2>1, <4>2
      <4> QED BY <3>1, <4>3 DEF k
    <3>2. CASE ~ \E i \in DOMAIN ps : ps[i] = p
      <4>1. 0 \in Nat /\ 0 <= nbinds + Len(ps)
        BY <1>b, <2>1
      <4> QED BY <3>2, <4>1
    <3> QED BY <3>1, <3>2
  <2>3. args \in Seq(Bind)
    <3>1. \A i \in 1..Len(ps) : [key |-> KeyOf(ps[i]), n |-> nbinds + i] \in Bind
      BY <2>1, KeyType DEF TypeOK
    <3>2. taken \in Nat /\ \A i \in 1..taken : i \in 1..Len(ps)
      BY <2>1, QueriesAssumption
    <3> HIDE DEF taken
    <3>3. args \in [1..taken -> Bind]
      BY <3>1, <3>2
    <3> HIDE DEF args, bound
    <3> QED BY <3>2, <3>3, SeqDef
  <2>4. tidy \in BOOLEAN
    BY <2>1, QueriesAssumption DEF InOrder
  <2>5. tidy => Fills(args, bound)
    <3> SUFFICES ASSUME InOrder(ps), Len(ps) <= ArrayCap PROVE Fills(args, bound)
      OBVIOUS
    <3>1. taken = Len(ps)
      OBVIOUS
    <3>2. Fills([i \in 1..Len(ps) |-> [key |-> KeyOf(ps[i]), n |-> nbinds + i]], bound)
      BY <1>b, <2>1, ArgsFill
    <3> HIDE DEF bound, taken
    <3> QED BY <3>1, <3>2
  <2>6. /\ Enter(f, d) /\ nbinds' = nbinds + Len(ps) /\ Alive(h) /\ ~Busy(h)
        /\ stmt' = [stmt EXCEPT ![h] = [@ EXCEPT
                      !.since = nbinds + Len(ps), !.tidy = TRUE, !.bound = bound]]
    BY <1>4 DEF BeginExecuteWith
  <2> HIDE DEF bound, args, tidy
  <2>7. /\ d \in Call /\ d.kind = "execute" /\ d.h = h /\ d.given /\ d.args = args
        /\ d.used = bound /\ d.tidy = tidy
    BY <1>e, <2>2, <2>3, <2>4, UnboundType DEF Plain, Call, CallOn
  <2> HIDE DEF d
  <2>8. /\ \A g \in Handles : g # h => stmt'[g] = stmt[g]
        /\ stmt'[h].sql = stmt[h].sql /\ stmt'[h].bound = bound
        /\ stmt'[h].since = nbinds + Len(ps) /\ stmt'[h].tidy
    BY <2>6 DEF TypeOK, Stmt
  <2>9. nbinds + Len(ps) \in Nat /\ nbinds <= nbinds + Len(ps)
    BY <1>b, <2>1
  <2>10. Spent(stmt'[h]) /\ stmt'[h].sql # "none" /\ stmt'[h].since <= nbinds'
    BY <2>2, <2>6, <2>8, <2>9 DEF Spent, Alive
  <2>11. on /\ d.tidy => Fills(IF d.given THEN d.args ELSE binds[d.h], d.used)
    BY <2>5, <2>7
  <2> QED BY <2>6, <2>7, <2>8, <2>9, <2>10, <2>11 DEF Binding
<1>5. ASSUME NEW h \in Handles, BeginFetchAll(f, h) PROVE Goal
  <2> DEFINE of == IF stmt[h].cursor = 0 THEN calls + 1 ELSE stmt[h].cursor
             d == [Plain("fetchAll", h) EXCEPT !.of = of]
  <2>1. Enter(f, d) /\ stmt' = stmt /\ nbinds' = nbinds /\ Alive(h) /\ ~Busy(h)
    BY <1>5 DEF BeginFetchAll
  <2>2. of \in Nat
    BY DEF TypeOK, Stmt
  <2> HIDE DEF of
  <2>3. d \in Call /\ d.kind = "fetchAll" /\ d.h = h
    BY <1>e, <2>2, UnboundType DEF Plain, Call, CallOn
  <2> HIDE DEF d
  <2> QED BY <1>b, <2>1, <2>3 DEF Binding
<1> QED BY <1>1, <1>2, <1>3, <1>4, <1>5 DEF Begin

\* So the beginnings keep BINDS in step with the statements.
LEMMA BeginBound ==
  ASSUME TypeOK, TypeOK', BoundInv, NEW f \in Fibers, Begin(f)
  PROVE  BoundInv'
<1>1. PICK d \in Call : Enter(f, d) /\ Binding(d)
  BY BeginBinds
<1> DEFINE n == Len(stacks[f])
<1>2. /\ n \in Nat /\ DOMAIN stacks[f] = 1..n /\ DOMAIN stacks'[f] = 1..(n + 1)
      /\ \A i \in 1..n : stacks'[f][i] = stacks[f][i]
      /\ stacks'[f][n + 1].h = d.h /\ stacks'[f][n + 1].kind = d.kind
      /\ stacks'[f][n + 1].given = d.given /\ stacks'[f][n + 1].args = d.args
      /\ stacks'[f][n + 1].used = d.used /\ stacks'[f][n + 1].tidy = d.tidy
      /\ \A g \in Fibers \ {f} : stacks'[g] = stacks[g]
      /\ binds' = binds /\ on' = on /\ phase' = phase
  BY <1>1, EnterGrows
<1>p. phase' = "running"
  BY <1>1, <1>2 DEF Enter
<1> HIDE DEF n
\* A place on a stack is an old one, or the new call's.
<1>3. ASSUME NEW g \in Fibers, NEW j \in DOMAIN stacks'[g]
      PROVE  \/ j \in DOMAIN stacks[g] /\ stacks'[g][j] = stacks[g][j]
             \/ g = f /\ j = n + 1
  <2>1. CASE g = f
    BY <1>2, <2>1
  <2>2. CASE g # f
    BY <1>2, <2>2
  <2> QED BY <2>1, <2>2
<1>4. ASSUME NEW g \in Fibers, NEW j \in DOMAIN stacks[g]
      PROVE  j \in DOMAIN stacks'[g] /\ stacks'[g][j] = stacks[g][j]
  <2>1. CASE g = f
    BY <1>2, <2>1
  <2>2. CASE g # f
    BY <1>2, <2>2
  <2> QED BY <2>1, <2>2
<1>5. n + 1 \in DOMAIN stacks'[f]
  BY <1>2
<1>6. d.h = NoHandle \/ d.h \in Handles
  BY <1>1 DEF Binding
<1>7. d.kind = "query" => \A g \in Fibers : \A j \in DOMAIN stacks[g] : stacks[g][j].h # d.h
  BY <1>1 DEF Binding, BoundInv, CallAt
<1>8. d.kind \in {"execute", "fetchAll"} =>
        \A g \in Fibers : \A j \in DOMAIN stacks[g] :
          stacks[g][j].h = d.h => stacks[g][j].kind = "fetchAll"
  BY <1>1, OpenCalls DEF Binding, Busy
<1>9. d.kind \in {"exec", "query", "execute", "fetchAll"}
  BY <1>1 DEF Binding
<1>10. ASSUME NEW h \in Handles, Executing(h) PROVE Executing(h)'
  <2>1. PICK g \in Fibers : \E i \in DOMAIN stacks[g] :
          stacks[g][i].h = h /\ stacks[g][i].kind = "execute"
    BY <1>10 DEF Executing
  <2>2. PICK i \in DOMAIN stacks[g] : stacks[g][i].h = h /\ stacks[g][i].kind = "execute"
    BY <2>1
  <2>3. i \in DOMAIN stacks'[g] /\ stacks'[g][i] = stacks[g][i]
    BY <1>4
  <2> QED BY <2>2, <2>3 DEF Executing
<1>11. ASSUME NEW h \in Handles PROVE BoundAt(h)'
  <2>1. CASE h # d.h \/ d.kind = "fetchAll"
    <3>1. SameBound(h)
      BY <1>1, <2>1 DEF Binding, SameBound
    <3>2. nbinds <= nbinds' /\ binds'[h] = binds[h]
      BY <1>1, <1>2 DEF Binding
    <3> QED BY <1>2, <1>10, <3>1, <3>2, SameAt
  <2>2. CASE h = d.h /\ d.kind \in {"query", "execute"}
    <3>1. Spent(stmt'[h]) /\ stmt'[h].since <= nbinds'
      BY <1>1, <2>2 DEF Binding
    <3>2. ASSUME on, d.kind = "query", stmt'[h].tidy PROVE Fills(binds'[h], Unbound)
      <4>1. ~Alive(h)
        BY <1>1, <2>2, <3>2 DEF Binding
      <4>2. Spent(stmt[h]) /\ ~Executing(h)
        BY <4>1, NotExecuting DEF BoundInv, BoundAt
      <4>3. stmt[h].tidy
        BY <1>1, <2>2, <3>2 DEF Binding
      <4>4. Fills(binds[h], Unbound)
        BY <3>2, <4>2, <4>3, IdleFills
      <4> QED BY <1>2, <4>4
    <3>3. d.kind = "execute" => Executing(h)'
      BY <1>2, <1>5, <2>2 DEF Executing
    <3>4. on' => Executing(h)' \/ ~stmt'[h].tidy \/ Fills(binds'[h], Unbound)
      BY <1>2, <2>2, <3>2, <3>3
    <3> QED BY <1>p, <3>1, <3>4, SpentAt
  <2>3. CASE d.kind = "exec"
    <3>1. h # d.h
      BY <1>1, <2>3, QueriesAssumption DEF Binding
    <3> QED BY <2>1, <3>1
  <2> QED BY <1>9, <2>1, <2>2, <2>3
\* The statement of the new call, and of the old ones, is alive after the step.
<1>12. d.h \in Handles => stmt'[d.h].sql # "none"
  BY <1>1, QueriesAssumption DEF Binding, Alive
<1>13. \A g \in Handles : g # d.h => stmt'[g] = stmt[g]
  BY <1>1 DEF Binding
<1>14. ASSUME NEW g \in Fibers, NEW i \in DOMAIN stacks'[g] PROVE CallAt(g, i)'
  <2> DEFINE c == stacks'[g][i]
  <2>1. CASE i \in DOMAIN stacks[g] /\ c = stacks[g][i]
    <3>1. /\ c.h \in Handles => stmt[c.h].sql # "none"
          /\ c.kind \in {"query", "execute"} =>
               /\ Spent(stmt[c.h])
               /\ \A k \in Fibers : \A j \in DOMAIN stacks[k] :
                    stacks[k][j].h = c.h => \/ k = g /\ j = i
                                            \/ c.kind = "execute" /\ stacks[k][j].kind = "fetchAll"
          /\ on /\ c.kind # "fetchAll" /\ c.tidy => Fills(ShownOf(c), c.used)
      BY <2>1 DEF BoundInv, CallAt, Alive
    <3>2. (c.kind # "exec" => c.h \in Handles) /\ (c.kind = "exec" => c.h = NoHandle)
      BY <2>1, OpenCalls
    <3>3. c.kind \in {"query", "execute"} => d.h # c.h
      <4>1. d.kind = "query" => c.h # d.h
        BY <1>7, <2>1
      <4>2. d.kind \in {"execute", "fetchAll"} /\ c.h = d.h => c.kind = "fetchAll"
        BY <1>8, <2>1
      <4>3. d.kind = "exec" => d.h = NoHandle /\ NoHandle \notin Handles
        BY <1>1, QueriesAssumption DEF Binding
      <4> HIDE DEF c
      <4> QED BY <1>9, <3>2, <4>1, <4>2, <4>3
    <3> HIDE DEF c
    <3>4. c.h \in Handles => stmt'[c.h].sql # "none"
      BY <1>12, <1>13, <3>1
    <3>5. c.kind \in {"query", "execute"} => Spent(stmt'[c.h])
      BY <1>13, <3>1, <3>2, <3>3
    <3>6. ASSUME c.kind \in {"query", "execute"},
                 NEW k \in Fibers, NEW j \in DOMAIN stacks'[k], stacks'[k][j].h = c.h
          PROVE  \/ k = g /\ j = i
                 \/ c.kind = "execute" /\ stacks'[k][j].kind = "fetchAll"
      <4>1. j \in DOMAIN stacks[k] /\ stacks'[k][j] = stacks[k][j]
        BY <1>2, <1>3, <3>3, <3>6
      <4> QED BY <3>1, <3>6, <4>1
    <3>7. on' /\ c.kind # "fetchAll" /\ c.tidy =>
            Fills(IF c.kind # "execute" THEN <<>> ELSE IF c.given THEN c.args ELSE binds'[c.h],
                  c.used)
      BY <1>2, <3>1 DEF ShownOf
    <3> QED BY <3>4, <3>5, <3>6, <3>7 DEF CallAt, ShownOf, Alive, c
  <2>2. CASE g = f /\ i = n + 1
    <3>1. /\ c.h = d.h /\ c.kind = d.kind /\ c.given = d.given /\ c.args = d.args
          /\ c.used = d.used /\ c.tidy = d.tidy
      BY <1>2, <2>2
    <3> HIDE DEF c
    <3>2. d.kind \in {"query", "execute"} => Spent(stmt'[d.h])
      BY <1>1 DEF Binding
    <3>3. ASSUME d.kind \in {"query", "execute"},
                 NEW k \in Fibers, NEW j \in DOMAIN stacks'[k], stacks'[k][j].h = d.h
          PROVE  \/ k = g /\ j = i
                 \/ d.kind = "execute" /\ stacks'[k][j].kind = "fetchAll"
      BY <1>3, <1>7, <1>8, <2>2, <3>3
    <3>4. on' /\ d.kind # "fetchAll" /\ d.tidy =>
            Fills(IF d.kind # "execute" THEN <<>> ELSE IF d.given THEN d.args ELSE binds'[d.h],
                  d.used)
      <4>1. d.kind = "execute" /\ on /\ d.tidy =>
              Fills(IF d.given THEN d.args ELSE binds[d.h], d.used)
        BY <1>1 DEF Binding
      <4>2. d.kind \in {"exec", "query"} => d.used = Unbound
        BY <1>1 DEF Binding
      <4> QED BY <1>2, <1>9, <4>1, <4>2, FillsNone
    <3> QED BY <1>12, <3>1, <3>2, <3>3, <3>4 DEF CallAt, ShownOf, Alive, c
  <2> QED BY <1>3, <2>1, <2>2
<1> QED BY <1>11, <1>14 DEF BoundInv

\* It holds at first ..
LEMMA InitBound == Init => BoundInv
<1> SUFFICES ASSUME Init PROVE BoundInv
  OBVIOUS
<1>1. \A f \in Fibers : DOMAIN stacks[f] = {}
  BY EmptySeq DEF Init
<1>2. ASSUME NEW h \in Handles PROVE BoundAt(h)
  BY DEF Init, BoundAt, NoStmt, Spent, Unbound, Alive
<1> QED BY <1>1, <1>2 DEF BoundInv

\* .. and after every step.
LEMMA NextBound ==
  ASSUME TypeOK, TypeOK', PhaseInv, BoundInv, [Next]_vars
  PROVE  BoundInv'
<1>1. CASE UNCHANGED vars
  <2>1. OnlyOld /\ nbinds <= nbinds'
    BY <1>1 DEF vars, OnlyOld, TypeOK
  <2>2. \A h \in Handles : Kept(h) /\ SameBound(h) /\ (Executing(h) => Executing(h)')
    BY <1>1 DEF vars, extension, Kept, SameBound, Executing
  <2>u. UNCHANGED <<phase, on, binds>>
    BY <1>1 DEF vars, extension
  <2>3. \A h \in Handles : BoundAt(h)'
    BY <2>1, <2>2, <2>u, SameAt
  <2>4. \A f \in Fibers : \A i \in DOMAIN stacks'[f] : CallAt(f, i)'
    BY <2>1, <2>2, <2>u, CallsKept
  <2> QED BY <2>3, <2>4 DEF BoundInv
<1> QED BY <1>1, StatementsBound, BeginBound, EndBound, RequestBound DEF Next

\* A query known shows the values its execution ran with.
KnownShown == \A q \in Known : \A i \in DOMAIN ran :
                ran[i].call = q.call /\ ran[i].tidy => Show(q.binds) = ran[i].used

\* So does the query of a call that ends.
LEMMA ExecutedShown ==
  ASSUME TypeOK, BoundInv, NEW f \in Fibers, NEW q, Ending(f), NewOf(f, q),
         Last(stacks[f]).tidy
  PROVE  Show(q.binds) = Last(stacks[f]).used
<1> DEFINE c == Last(stacks[f])
           n == Len(stacks[f])
<1>1. stacks[f] # <<>> /\ stacks' = [stacks EXCEPT ![f] = Front(@)] /\ on /\ Timed(c)
  BY DEF Ending
<1>2. n \in DOMAIN stacks[f] /\ c = stacks[f][n] /\ c \in Call
  BY <1>1, EndPlaces, LeaveShrinks
<1>3. PICK bs \in Seq(Bind), fb \in Nat : q = Stamped(c.id, bs, fb) /\ bs = ShownOf(c)
  BY DEF NewOf
<1> HIDE DEF n
<1>4. c.kind # "fetchAll"
  BY <1>1 DEF Timed
<1>5. Fills(ShownOf(c), c.used)
  BY <1>1, <1>2, <1>4 DEF BoundInv, CallAt
<1>6. q.binds = bs
  BY <1>3 DEF Stamped
<1>7. c.used \in [Params -> Nat]
  BY <1>2 DEF Call, CallOn
<1> QED BY <1>3, <1>5, <1>6, <1>7, FillsShow

\* What a query shows is kept by every step.
LEMMA NextShown ==
  ASSUME TypeOK, PhaseInv, IdInv, StampKept, BoundInv, KnownShown, [Next]_vars
  PROVE  KnownShown'
<1>u. ASSUME Known' \subseteq Known, ran' = ran PROVE KnownShown'
  BY <1>u DEF KnownShown
<1>f. frames' = frames => Told' = Told
  BY DEF Told, FrameSet
<1>1. CASE Rinit
  BY <1>1, RinitKnows DEF KnownShown
<1>2. CASE Rshutdown
  BY <1>2, <1>u, ShutdownKeeps
<1>3. CASE NothingNew
  BY <1>3, <1>u DEF NothingNew, Known, Waiting, Told, FrameSet
<1>x. ASSUME NEW f \in Fibers, NEW q \in Query, NEW h \in Handles \cup {NoHandle},
             NEW d \in BOOLEAN, NEW r, Executed(f, q, h, d, r), Known' \subseteq Known \cup {q}
      PROVE  KnownShown'
  <2> DEFINE l == Len(ran)
  <2>1. /\ l \in Nat /\ DOMAIN ran = 1..l /\ DOMAIN ran' = 1..(l + 1)
        /\ \A i \in 1..l : ran'[i] = ran[i]
        /\ ran'[l + 1].call = q.call
        /\ ran'[l + 1].used = Last(stacks[f]).used
        /\ ran'[l + 1].tidy = Last(stacks[f]).tidy
    BY <1>x, ExecutedStamp
  <2>2. q.call \notin RanIds /\ q.call \notin Ids(Known)
    BY <1>x, FreshCall
  <2>3. Last(stacks[f]).tidy => Show(q.binds) = Last(stacks[f]).used
    BY <1>x, ExecutedShown DEF Executed
  <2> HIDE DEF l
  <2> SUFFICES ASSUME NEW p \in Known', NEW i \in DOMAIN ran', ran'[i].call = p.call, ran'[i].tidy
               PROVE  Show(p.binds) = ran'[i].used
    BY DEF KnownShown
  <2>4. i \in 1..l \/ i = l + 1
    BY <2>1
  <2>5. CASE p \in Known
    <3>1. p.call \in Ids(Known)
      BY <2>5 DEF Ids
    <3>2. i \in 1..l
      BY <2>1, <2>2, <2>4, <3>1
    <3> QED BY <2>1, <2>5, <3>2 DEF KnownShown
  <2>6. CASE p = q
    <3>1. i = l + 1
      BY <2>1, <2>2, <2>4, <2>6 DEF RanIds
    <3> QED BY <2>1, <2>3, <2>6, <3>1
  <2> QED BY <1>x, <2>5, <2>6
<1>4. ASSUME NEW f \in Fibers, NEW q \in Query, ToldAtOnce(f, q) PROVE KnownShown'
  <2>1. PICK h \in Handles \cup {NoHandle}, r \in Nat :
          Executed(f, q, h, FALSE, r) /\ Emit(q, r) /\ pending' = pending
    BY <1>4 DEF ToldAtOnce
  <2>2. Known' \subseteq Known \cup {q}
    BY <2>1, EmitKnown DEF Executed, Known, Waiting
  <2> QED BY <1>x, <2>1, <2>2
<1>5. ASSUME NEW f \in Fibers, NEW h \in Handles, NEW q \in Query, Deferred(f, h, q)
      PROVE  KnownShown'
  <2>1. Executed(f, q, h, TRUE, q.fallback)
    BY <1>5 DEF Deferred
  <2>2. Known' \subseteq Known \cup {q}
    BY <1>5, <1>f, DeferKnown DEF Deferred, Executed, Known
  <2> QED BY <1>x, <2>1, <2>2
<1>6. ASSUME NEW f \in Fibers, NEW h \in Handles, NEW r \in Nat, Fetched(f, h, r) PROVE KnownShown'
  <2>1. pending[h] \in Query /\ pending[h] \in Waiting
    BY <1>6 DEF Fetched, TypeOK, Waiting
  <2>2. Told' \subseteq Told \cup {pending[h]}
    BY <1>6, <2>1, EmitKnown DEF Fetched
  <2>3. Waiting' \subseteq Waiting
    BY <1>6 DEF Fetched, Undefer, Waiting, TypeOK
  <2>4. Known' \subseteq Known /\ ran' = ran
    BY <1>6, <2>1, <2>2, <2>3 DEF Known, Fetched
  <2> QED BY <1>u, <2>4
<1> QED BY <1>1, <1>2, <1>3, <1>4, <1>5, <1>6, StepKinds DEF Kinds

(* `sql_full` shows the values the statement ran with (queries.rs:158, 169,  *)
(* 335-353), although BINDS is keyed by a handle that PHP reuses and forgets  *)
(* the numbers of the positions: if every value was bound since the statement *)
(* last executed, in the order of the positions, by a bind that succeeded or  *)
(* in an array of at most ArrayCap entries, and no earlier statement or       *)
(* bailout left binds under the handle.                                       *)
THEOREM ShownAreUsed == Spec => []ShownIsUsed
<1> DEFINE I == TypeOK /\ PhaseInv /\ IdInv /\ StampKept /\ BoundInv /\ KnownShown
<1>1. Init => I
  BY InitType, InitPhase, InitId, InitKnows, InitBound DEF StampKept, KnownShown
<1>2. I /\ [Next]_vars => I'
  BY NextType, NextPhase, NextId, NextStamp, NextBound, NextShown
<1>3. I => ShownIsUsed
  <2> SUFFICES ASSUME StampKept, KnownShown, NEW q \in Known, Truth(q.call).tidy
               PROVE  Show(q.binds) = Truth(q.call).used
    BY DEF ShownIsUsed
  <2>1. \E i \in DOMAIN ran : ran[i].call = q.call
    BY DEF StampKept
  <2> DEFINE k == CHOOSE i \in DOMAIN ran : ran[i].call = q.call
  <2>2. k \in DOMAIN ran /\ ran[k].call = q.call
    BY <2>1
  <2>3. Truth(q.call) = ran[k]
    BY DEF Truth
  <2> HIDE DEF k
  <2> QED BY <2>2, <2>3 DEF KnownShown
<1> QED BY <1>1, <1>2, <1>3, PTL DEF Spec
=============================================================================
