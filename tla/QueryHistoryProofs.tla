------------------------- MODULE QueryHistoryProofs -------------------------
(* Theorems about what the query observer tells of the executions of a       *)
(* request, for every value of the constants.                                *)
EXTENDS QueriesProofs

-----------------------------------------------------------------------------
(* What a step does to the queries and to the history.                       *)

\* The innermost call of f ends and is recorded, with the query q made of it;
\* if it succeeded, the count r taken then is null or counts its own rows, and
\* the rows of a deferred one are its statement's.
Executed(f, q, h, deferred, r) ==
  /\ Ending(f) /\ NewOf(f, q) /\ q \in Query
  /\ \E ok \in BOOLEAN : /\ Record(Last(stacks[f]), h, deferred, ok)
                         /\ ok => r \in {0, q.call}
                         /\ ok /\ deferred => stmt'[h].cursor = q.call
                         /\ ok \/ "fail" \in AppMay
  /\ UNCHANGED <<draining, phase, on, mark>>

\* It is told at once, or waits under its handle.
ToldAtOnce(f, q) ==
  \E h \in Handles \cup {NoHandle}, r \in Nat :
    Executed(f, q, h, FALSE, r) /\ Emit(q, r) /\ pending' = pending
Deferred(f, h, q) ==
  /\ Executed(f, q, h, TRUE, q.fallback) /\ Defer(h, q) /\ frames' = frames
  /\ h = Last(stacks[f]).h /\ Last(stacks[f]).kind \in {"query", "execute"}

\* A waiting query is told when its rows are fetched.
Fetched(f, h, r) ==
  /\ on /\ pending[h] # NoQuery /\ Undefer(h) /\ Emit(pending[h], r)
  /\ stacks[f] # <<>> /\ Last(stacks[f]).kind = "fetchAll" /\ Last(stacks[f]).h = h
  /\ r \in {Last(stacks[f]).of, pending[h].fallback}
  /\ UNCHANGED <<draining, ran, phase, on, mark>>

\* Nothing is told, deferred or recorded.
NothingNew == UNCHANGED <<pending, draining, frames, ran, phase, on, mark>>

Kinds ==
  \/ NothingNew
  \/ \E f \in Fibers, q \in Query : ToldAtOnce(f, q)
  \/ \E f \in Fibers, h \in Handles, q \in Query : Deferred(f, h, q)
  \/ \E f \in Fibers, h \in Handles, r \in Nat : Fetched(f, h, r)

\* Every end of a call is one of these four.
LEMMA EndKinds == ASSUME TypeOK, NEW f \in Fibers, End(f) PROVE Kinds
<1> DEFINE c == Last(stacks[f])
<1>e. <<>> \in Seq(Bind)
  BY EmptySeq
<1>k. ASSUME NEW kind, Leave(f, kind)
      PROVE  /\ c \in Call /\ c.kind = kind /\ c.id \in Nat /\ c.of \in Nat
             /\ c.args \in Seq(Bind) /\ (kind # "exec" => c.h \in Handles)
             /\ UNCHANGED <<draining, phase, on, mark>>
             /\ (on /\ PopStart /\ kind # "fetchAll" => Ending(f))
  <2>1. /\ c \in Call /\ c.kind = kind /\ (kind # "exec" => c.h \in Handles)
    BY <1>k, LeaveType
  <2> HIDE DEF c
  <2>2. c.id \in Nat /\ c.of \in Nat /\ c.args \in Seq(Bind)
    BY <2>1 DEF Call, CallOn
  <2>3. on /\ PopStart /\ kind # "fetchAll" => Ending(f)
    BY <1>k, <2>1 DEF Ending, Leave, Timed, c
  <2> QED BY <1>k, <2>1, <2>2, <2>3 DEF Leave
<1>w. ASSUME NEW kind, Leave(f, kind)
      PROVE  /\ kind # "execute" => <<>> = ShownOf(c)
             /\ kind = "execute" => (IF c.given THEN c.args ELSE binds[c.h]) = ShownOf(c)
  BY <1>k, <1>w DEF ShownOf
<1>n. ASSUME NEW kind, Leave(f, kind), kind # "fetchAll", on, PopStart,
             NEW bs \in Seq(Bind), NEW fb \in Nat, bs = ShownOf(c),
             bs = <<>> \/ bs = c.args \/ (c.h \in Handles /\ bs = binds[c.h]),
             NEW h, NEW d \in BOOLEAN, NEW ok \in BOOLEAN, Record(c, h, d, ok),
             NEW r \in Nat, ok => r \in {0, c.id}, ok \/ "fail" \in AppMay,
             ok /\ d => stmt'[h].cursor = c.id
      PROVE  /\ Stamped(c.id, bs, fb) \in Query /\ Stamped(c.id, bs, fb).fallback = fb
             /\ Executed(f, Stamped(c.id, bs, fb), h, d, r)
  <2>1. /\ Stamped(c.id, bs, fb) \in Query
        /\ Stamped(c.id, bs, fb).fallback = fb /\ Stamped(c.id, bs, fb).call = c.id
    BY <1>k, <1>n, StampedType DEF Stamped
  <2>2. NewOf(f, Stamped(c.id, bs, fb))
    BY <1>n DEF NewOf
  <2> QED BY <1>k, <1>n, <2>1, <2>2 DEF Executed
<1>u. ASSUME NEW kind, Leave(f, kind), UNCHANGED <<pending, frames, ran>> PROVE Kinds
  BY <1>k, <1>u DEF Kinds, NothingNew
<1> HIDE DEF c
<1>o. ASSUME NEW q \in Query, NEW h \in Handles \cup {NoHandle}, NEW r \in Nat,
             Executed(f, q, h, FALSE, r), Emit(q, r), pending' = pending
      PROVE  Kinds
  BY <1>o DEF Kinds, ToldAtOnce
<1>d. ASSUME NEW q \in Query, NEW h \in Handles,
             Executed(f, q, h, TRUE, q.fallback), Defer(h, q), frames' = frames,
             h = c.h, c.kind \in {"query", "execute"}
      PROVE  Kinds
  BY <1>d DEF Kinds, Deferred, c
<1>1. ASSUME NEW ok \in BOOLEAN, EndExec(f, ok) PROVE Kinds
  <2>1. Leave(f, "exec") /\ pending' = pending
    BY <1>1 DEF EndExec
  <2>2. CASE UNCHANGED <<frames, ran>>
    BY <1>u, <2>1, <2>2
  <2>3. CASE /\ on /\ PopStart /\ Emit(Stamped(c.id, <<>>, 0), IF ok THEN c.id ELSE 0)
             /\ Record(c, NoHandle, FALSE, ok)
    <3> DEFINE r == IF ok THEN c.id ELSE 0
    <3>1. r \in Nat /\ (ok => r \in {0, c.id}) /\ (ok \/ "fail" \in AppMay)
      BY <1>1, <1>k, <2>1 DEF EndExec
    <3>2. Emit(Stamped(c.id, <<>>, 0), r)
      BY <2>3
    <3> HIDE DEF r
    <3>4. <<>> = ShownOf(c)
      BY <1>w, <2>1
    <3>3. Stamped(c.id, <<>>, 0) \in Query /\ Executed(f, Stamped(c.id, <<>>, 0), NoHandle, FALSE, r)
      BY <1>e, <1>n, <2>1, <2>3, <3>1, <3>4
    <3> QED BY <1>o, <2>1, <3>1, <3>2, <3>3
  <2> QED BY <1>1, <2>2, <2>3 DEF EndExec, c
<1>2. ASSUME NEW counted \in BOOLEAN, EndQuery(f, counted) PROVE Kinds
  <2> DEFINE fb == IF counted THEN c.id ELSE 0
  <2>1. Leave(f, "query") /\ frames' = frames
    BY <1>2 DEF EndQuery
  <2>2. CASE UNCHANGED <<pending, ran>>
    BY <1>u, <2>1, <2>2
  <2>3. CASE /\ on /\ PopStart /\ Defer(c.h, Stamped(c.id, <<>>, fb))
             /\ Record(c, c.h, TRUE, TRUE)
    <3>1. fb \in Nat /\ fb \in {0, c.id} /\ c.h \in Handles /\ c.kind \in {"query", "execute"}
      BY <1>k, <2>1
    <3> HIDE DEF fb
    <3>2. stmt'[c.h].cursor = c.id
      BY <1>2, <3>1 DEF EndQuery, TypeOK, Stmt, c
    <3>3. /\ Stamped(c.id, <<>>, fb) \in Query /\ Stamped(c.id, <<>>, fb).fallback = fb
          /\ Executed(f, Stamped(c.id, <<>>, fb), c.h, TRUE, fb)
      <4>1. <<>> = ShownOf(c)
        BY <1>w, <2>1
      <4> QED BY <1>e, <1>n, <2>1, <2>3, <3>1, <3>2, <4>1
    <3> QED BY <1>d, <2>1, <2>3, <3>1, <3>3
  <2> QED BY <1>2, <2>2, <2>3 DEF EndQuery, c
<1>3. ASSUME EndQueryFailed(f) PROVE Kinds
  <2>1. Leave(f, "query") /\ pending' = pending
    BY <1>3 DEF EndQueryFailed
  <2>2. CASE UNCHANGED <<frames, ran>>
    BY <1>u, <2>1, <2>2
  <2>3. CASE /\ on /\ PopStart /\ Emit(Stamped(c.id, <<>>, 0), 0)
             /\ Record(c, NoHandle, FALSE, FALSE)
    <3>1. "fail" \in AppMay
      BY <1>3 DEF EndQueryFailed
    <3>2. <<>> = ShownOf(c)
      BY <1>w, <2>1
    <3> QED BY <1>e, <1>n, <1>o, <2>1, <2>3, <3>1, <3>2
  <2> QED BY <1>3, <2>2, <2>3 DEF EndQueryFailed, c
<1>4. ASSUME NEW ok \in BOOLEAN, EndNoSql(f, ok) PROVE Kinds
  BY <1>4, <1>u DEF EndNoSql, NoSql
<1>5. ASSUME NEW ok \in BOOLEAN, NEW counted \in BOOLEAN, EndExecute(f, ok, counted)
      PROVE  Kinds
  <2> DEFINE shown == IF c.given THEN c.args ELSE binds[c.h]
             rows == IF counted THEN IF ok THEN c.id ELSE stmt[c.h].cursor ELSE 0
  <2>1. Leave(f, "execute")
    BY <1>5 DEF EndExecute
  <2>2. \/ UNCHANGED <<pending, frames, ran>>
        \/ /\ on /\ PopStart /\ Defer(c.h, Stamped(c.id, shown, rows))
           /\ Record(c, c.h, TRUE, ok) /\ frames' = frames
           /\ ok \/ "fail" \in AppMay
        \/ /\ on /\ PopStart /\ Emit(Stamped(c.id, shown, 0), rows)
           /\ Record(c, c.h, FALSE, ok) /\ pending' = pending
           /\ ok \/ "fail" \in AppMay
    BY <1>5 DEF EndExecute, ClearBinds, c
  <2>3. c.h \in Handles
    BY <1>k, <2>1
  <2>4. rows \in Nat /\ (ok => rows \in {0, c.id}) /\ shown \in Seq(Bind)
    BY <1>k, <2>1, <2>3 DEF TypeOK, Stmt
  <2>5. /\ shown = c.args \/ (c.h \in Handles /\ shown = binds[c.h])
        /\ shown = ShownOf(c)
    BY <1>w, <2>1, <2>3
  <2>10. ok => stmt'[c.h].cursor = c.id
    <3>1. stmt' = [stmt EXCEPT ![c.h] = [@ EXCEPT
             !.cursor = IF ok THEN c.id ELSE stmt[c.h].cursor,
             !.unread = ok /\ stmt[c.h].sql = "read"]]
      BY <1>5 DEF EndExecute, c
    <3> QED BY <2>3, <3>1 DEF TypeOK, Stmt
  <2> HIDE DEF shown, rows
  <2>6. CASE UNCHANGED <<pending, frames, ran>>
    BY <1>u, <2>1, <2>6
  <2>9. ASSUME on, PopStart, NEW d \in BOOLEAN, NEW fb \in Nat, Record(c, c.h, d, ok),
               ok \/ "fail" \in AppMay
        PROVE  /\ Stamped(c.id, shown, fb) \in Query /\ Stamped(c.id, shown, fb).fallback = fb
               /\ Executed(f, Stamped(c.id, shown, fb), c.h, d, rows)
    <3>1. shown \in Seq(Bind) /\ c \in Call /\ c.id \in Nat
      BY <1>k, <2>1, <2>4
    <3>2. /\ Stamped(c.id, shown, fb) \in Query
          /\ Stamped(c.id, shown, fb).fallback = fb /\ Stamped(c.id, shown, fb).call = c.id
      BY <2>9, <3>1, StampedType DEF Stamped
    <3>3. NewOf(f, Stamped(c.id, shown, fb))
      BY <2>5, <2>9, <3>1 DEF NewOf, c
    <3>4. Ending(f) /\ UNCHANGED <<draining, phase, on, mark>>
      <4>1. on /\ PopStart /\ "execute" # "fetchAll"
        BY <2>9
      <4> HIDE DEF Leave, PopStart, Ending
      <4> QED BY <1>k, <2>1, <4>1
    <3> QED BY <2>4, <2>9, <2>10, <3>2, <3>3, <3>4 DEF Executed, c
  <2>7. CASE /\ on /\ PopStart /\ Defer(c.h, Stamped(c.id, shown, rows))
             /\ Record(c, c.h, TRUE, ok) /\ frames' = frames
             /\ ok \/ "fail" \in AppMay
    <3>1. /\ Stamped(c.id, shown, rows) \in Query /\ Stamped(c.id, shown, rows).fallback = rows
          /\ Executed(f, Stamped(c.id, shown, rows), c.h, TRUE, rows)
      BY <2>4, <2>7, <2>9
    <3>2. c.kind \in {"query", "execute"}
      BY <1>k, <2>1
    <3> QED BY <1>d, <2>1, <2>3, <2>7, <3>1, <3>2
  <2>8. CASE /\ on /\ PopStart /\ Emit(Stamped(c.id, shown, 0), rows)
             /\ Record(c, c.h, FALSE, ok) /\ pending' = pending
             /\ ok \/ "fail" \in AppMay
    <3>1. 0 \in Nat
      OBVIOUS
    <3>2. /\ Stamped(c.id, shown, 0) \in Query
          /\ Executed(f, Stamped(c.id, shown, 0), c.h, FALSE, rows)
      BY <2>8, <2>9, <3>1
    <3> QED BY <1>o, <2>3, <2>4, <2>8, <3>2
  <2> QED BY <2>2, <2>6, <2>7, <2>8
<1>6. ASSUME NEW ok \in BOOLEAN, EndFetchAll(f, ok) PROVE Kinds
  <2> DEFINE p == pending[c.h]
             r == IF ok THEN c.of ELSE p.fallback
  <2>1. Leave(f, "fetchAll") /\ ran' = ran
    BY <1>6 DEF EndFetchAll
  <2>2. c.h \in Handles /\ c.of \in Nat
    BY <1>k, <2>1
  <2>3. CASE UNCHANGED <<pending, frames>>
    BY <1>u, <2>1, <2>3
  <2>4. CASE on /\ p # NoQuery /\ Undefer(c.h) /\ Emit(p, r)
    <3>1. r \in Nat /\ r \in {c.of, p.fallback}
      BY <2>2, <2>4 DEF TypeOK, Query
    <3> HIDE DEF r
    <3>2. stacks[f] # <<>> /\ c.kind = "fetchAll"
      BY <1>k, <2>1 DEF Leave
    <3>3. Fetched(f, c.h, r)
      BY <1>k, <2>1, <2>4, <3>1, <3>2 DEF Fetched, c
    <3> QED BY <2>2, <3>1, <3>3 DEF Kinds
  <2> QED BY <1>6, <2>3, <2>4 DEF EndFetchAll, DeferredOf, c
<1> QED BY <1>1, <1>2, <1>3, <1>4, <1>5, <1>6 DEF End

\* And every step is one of them, or one of the request callbacks.
LEMMA StepKinds ==
  ASSUME TypeOK, [Next]_vars
  PROVE  Kinds \/ Rinit \/ Rshutdown
<1>1. CASE UNCHANGED vars
  BY <1>1 DEF vars, extension, Kinds, NothingNew
<1>2. CASE Statements
  BY <1>2 DEF Statements, Prepare, Free, AssignParam, BindValue, extension, Kinds, NothingNew
<1>3. ASSUME NEW f \in Fibers, Begin(f) PROVE Kinds
  <2>1. PICK c \in Call : Enter(f, c)
    BY <1>3, BeginType
  <2> QED BY <2>1 DEF Enter, Kinds, NothingNew
<1>4. CASE Bailout
  BY <1>4 DEF Bailout, extension, Kinds, NothingNew
<1> QED BY <1>1, <1>2, <1>3, <1>4, EndKinds DEF Next

-----------------------------------------------------------------------------
(* The sequences that grow.                                                  *)

\* Recording a call appends to the history.
LEMMA RecordGrows ==
  ASSUME TypeOK, NEW c \in Call, NEW h \in Handles \cup {NoHandle},
         NEW d \in BOOLEAN, NEW ok \in BOOLEAN, Record(c, h, d, ok)
  PROVE  /\ Len(ran) \in Nat /\ DOMAIN ran = 1..Len(ran)
         /\ DOMAIN ran' = 1..(Len(ran) + 1)
         /\ \A i \in 1..Len(ran) : ran'[i] = ran[i]
         /\ ran'[Len(ran) + 1].call = c.id
         /\ ran'[Len(ran) + 1].h = h
         /\ ran'[Len(ran) + 1].deferred = d
         /\ ran'[Len(ran) + 1].used = c.used /\ ran'[Len(ran) + 1].tidy = c.tidy
<1> DEFINE r == [call |-> c.id, h |-> h, deferred |-> d, ok |-> ok,
                 used |-> c.used, tidy |-> c.tidy]
<1>1. r \in Ran /\ r.call = c.id /\ r.h = h /\ r.deferred = d
      /\ r.used = c.used /\ r.tidy = c.tidy
  BY DEF Call, CallOn, Ran
<1>2. ran' = Append(ran, r)
  BY DEF Record
<1> HIDE DEF r
<1>3. ran \in Seq(Ran) /\ Len(ran) \in Nat /\ DOMAIN ran = 1..Len(ran)
  BY LenProperties DEF TypeOK
<1> QED BY <1>1, <1>2, <1>3, AppendProperties, LenProperties

\* A frame handed over is appended to the frames.
LEMMA EmitGrows ==
  ASSUME TypeOK, on, NEW q \in Query, NEW r \in Nat, Emit(q, r)
  PROVE  /\ Len(frames) \in Nat /\ DOMAIN frames = 1..Len(frames)
         /\ DOMAIN frames' = 1..(Len(frames) + 1)
         /\ \A i \in 1..Len(frames) : frames'[i] = frames[i]
         /\ frames'[Len(frames) + 1].q = q
         /\ Told' = Told \cup {q}
         /\ FrameSet' = FrameSet \cup {[q |-> q, rows |-> r]}
<1> DEFINE x == [q |-> q, rows |-> r]
<1>1. x \in Frame /\ x.q = q /\ frames' = Append(frames, x)
  BY DEF Frame, Emit
<1> HIDE DEF x
<1>2. frames \in Seq(Frame) /\ Len(frames) \in Nat /\ DOMAIN frames = 1..Len(frames)
  BY LenProperties DEF TypeOK
<1>3. /\ DOMAIN frames' = 1..(Len(frames) + 1)
      /\ \A i \in 1..Len(frames) : frames'[i] = frames[i]
      /\ frames'[Len(frames) + 1] = x
  BY <1>1, <1>2, AppendProperties, LenProperties
<1>4. FrameSet' = FrameSet \cup {x}
  BY <1>2, <1>3 DEF FrameSet
<1>5. Told' = Told \cup {q}
  BY <1>1, <1>4 DEF Told
<1> QED BY <1>1, <1>2, <1>3, <1>4, <1>5 DEF x

-----------------------------------------------------------------------------
(* The calls that are open.                                                  *)

\* A call that begins is put on top of its fiber's stack.
LEMMA EnterGrows ==
  ASSUME TypeOK, NEW f \in Fibers, NEW c \in Call, Enter(f, c)
  PROVE  LET n == Len(stacks[f]) IN
         /\ n \in Nat /\ DOMAIN stacks[f] = 1..n /\ DOMAIN stacks'[f] = 1..(n + 1)
         /\ \A i \in 1..n : stacks'[f][i] = stacks[f][i]
         /\ stacks'[f][n + 1].id = calls + 1
         /\ stacks'[f][n + 1].args = c.args /\ stacks'[f][n + 1].h = c.h
         /\ stacks'[f][n + 1].kind = c.kind /\ stacks'[f][n + 1].of = c.of
         /\ stacks'[f][n + 1].given = c.given /\ stacks'[f][n + 1].used = c.used
         /\ stacks'[f][n + 1].tidy = c.tidy
         /\ \A g \in Fibers \ {f} : stacks'[g] = stacks[g]
         /\ calls \in Nat /\ calls' = calls + 1
         /\ UNCHANGED <<frames, ran, pending, draining, phase, on, binds, mark>>
<1> DEFINE d == [c EXCEPT !.id = calls + 1, !.top = Len(starts')]
           s == stacks[f]
<1>1. calls \in Nat /\ s \in Seq(Call) /\ Len(s) \in Nat /\ DOMAIN s = 1..Len(s)
  BY LenProperties DEF TypeOK
<1>2. d \in Call /\ d.id = calls + 1 /\ d.args = c.args
      /\ d.h = c.h /\ d.kind = c.kind /\ d.of = c.of
      /\ d.given = c.given /\ d.used = c.used /\ d.tidy = c.tidy
  <2> DEFINE k == calls + 1
             t == Len(starts')
  <2>1. t \in Nat /\ k \in Nat
    BY <1>1, EnterType, LenProperties
  <2> HIDE DEF k, t
  <2>2. LET e == [c EXCEPT !.id = k, !.top = t]
        IN  e \in Call /\ e.id = k /\ e.args = c.args
            /\ e.h = c.h /\ e.kind = c.kind /\ e.of = c.of
            /\ e.given = c.given /\ e.used = c.used /\ e.tidy = c.tidy
    BY <2>1 DEF Call, CallOn
  <2> QED BY <2>2 DEF k, t
<1>3. stacks' = [stacks EXCEPT ![f] = Append(s, d)]
  BY DEF Enter
<1> HIDE DEF d
<1>4. stacks'[f] = Append(s, d) /\ \A g \in Fibers \ {f} : stacks'[g] = stacks[g]
  BY <1>3 DEF TypeOK
<1>5. /\ DOMAIN Append(s, d) = 1..(Len(s) + 1)
      /\ \A i \in 1..Len(s) : Append(s, d)[i] = s[i]
      /\ Append(s, d)[Len(s) + 1] = d
  BY <1>1, <1>2, AppendProperties, LenProperties
<1> QED BY <1>1, <1>2, <1>4, <1>5 DEF Enter

\* A call that ends is taken from the top of its fiber's stack.
LEMMA LeaveShrinks ==
  ASSUME TypeOK, NEW f \in Fibers, stacks[f] # <<>>,
         stacks' = [stacks EXCEPT ![f] = Front(@)]
  PROVE  LET n == Len(stacks[f]) IN
         /\ n \in Nat \ {0} /\ DOMAIN stacks[f] = 1..n /\ DOMAIN stacks'[f] = 1..(n - 1)
         /\ \A i \in 1..(n - 1) : stacks'[f][i] = stacks[f][i]
         /\ \A g \in Fibers \ {f} : stacks'[g] = stacks[g]
         /\ Last(stacks[f]) = stacks[f][n]
         /\ Last(stacks[f]) \in Call
<1>1. stacks[f] \in Seq(Call) /\ DOMAIN stacks[f] = 1..Len(stacks[f])
  BY LenProperties DEF TypeOK
<1>2. stacks'[f] = Front(stacks[f]) /\ \A g \in Fibers \ {f} : stacks'[g] = stacks[g]
  BY DEF TypeOK
<1> QED BY <1>1, <1>2, FrontProperties, LenProperties DEF Last

\* The ends leave the stack like that.
LEMMA EndLeaves ==
  ASSUME NEW f \in Fibers, End(f)
  PROVE  /\ stacks[f] # <<>> /\ stacks' = [stacks EXCEPT ![f] = Front(@)]
         /\ UNCHANGED <<on, phase, draining, calls, nbinds, mark>>
         /\ starts' = starts \/ PopStart
<1>1. \E kind : Leave(f, kind)
  BY DEF End, EndExec, EndQuery, EndQueryFailed, EndNoSql, NoSql, EndExecute, EndFetchAll
<1>2. starts' = starts \/ PopStart
  BY DEF End, EndExec, EndQuery, EndQueryFailed, EndNoSql, NoSql, EndExecute, EndFetchAll
<1> QED BY <1>1, <1>2 DEF Leave

(* Serial numbers: an open call has its own, and no execution told of has it. *)
RanIds == {ran[i].call : i \in DOMAIN ran}
IdInv ==
  /\ \A f, g \in Fibers : \A i \in DOMAIN stacks[f], j \in DOMAIN stacks[g] :
       stacks[f][i].id = stacks[g][j].id => f = g /\ i = j
  /\ \A f \in Fibers : \A i \in DOMAIN stacks[f] :
       stacks[f][i].id <= calls /\ stacks[f][i].id \notin RanIds
  /\ \A n \in RanIds : n <= calls

\* It holds at first.
LEMMA InitId == Init => IdInv
<1> SUFFICES ASSUME Init PROVE IdInv
  OBVIOUS
<1>1. \A f \in Fibers : DOMAIN stacks[f] = {}
  BY EmptySeq DEF Init
<1>2. RanIds = {}
  BY DEF Init, RanIds
<1> QED BY <1>1, <1>2 DEF IdInv

\* Beginning a call takes the next number.
LEMMA EnterId ==
  ASSUME TypeOK, IdInv, NEW f \in Fibers, NEW c \in Call, Enter(f, c)
  PROVE  IdInv'
<1> DEFINE n == Len(stacks[f])
<1>1. /\ n \in Nat /\ DOMAIN stacks[f] = 1..n /\ DOMAIN stacks'[f] = 1..(n + 1)
      /\ \A i \in 1..n : stacks'[f][i] = stacks[f][i]
      /\ stacks'[f][n + 1].id = calls + 1
      /\ \A g \in Fibers \ {f} : stacks'[g] = stacks[g]
      /\ calls \in Nat /\ calls' = calls + 1 /\ ran' = ran
  BY EnterGrows
<1>2. RanIds' = RanIds /\ \A m \in RanIds : m \in Nat
  <2>1. \A i \in DOMAIN ran : ran[i].call \in Nat
    <3>1. \A i \in DOMAIN ran : ran[i] \in Ran
      BY LenProperties, ElementOfSeq DEF TypeOK
    <3> QED BY <3>1 DEF Ran
  <2> QED BY <1>1, <2>1 DEF RanIds
<1>3. \A g \in Fibers : \A j \in DOMAIN stacks[g] : stacks[g][j].id \in Nat
  BY LenProperties, ElementOfSeq DEF TypeOK, Call, CallOn
<1> HIDE DEF n
\* A place on a stack is an old one, or the new call's.
<1>4. ASSUME NEW g \in Fibers, NEW j \in DOMAIN stacks'[g]
      PROVE  \/ j \in DOMAIN stacks[g] /\ stacks'[g][j] = stacks[g][j]
             \/ g = f /\ j = n + 1 /\ stacks'[g][j].id = calls + 1
  <2>1. CASE g = f
    BY <1>1, <2>1
  <2>2. CASE g # f
    BY <1>1, <2>2
  <2> QED BY <2>1, <2>2
<1>5. \A g \in Fibers : \A j \in DOMAIN stacks[g] :
        stacks[g][j].id # calls + 1 /\ stacks[g][j].id <= calls + 1
  BY <1>1, <1>3 DEF IdInv
<1>6. calls + 1 \notin RanIds /\ \A m \in RanIds : m <= calls + 1
  BY <1>1, <1>2 DEF IdInv
<1>7. ASSUME NEW g \in Fibers, NEW h \in Fibers,
             NEW i \in DOMAIN stacks'[g], NEW j \in DOMAIN stacks'[h],
             stacks'[g][i].id = stacks'[h][j].id
      PROVE  g = h /\ i = j
  BY <1>4, <1>5, <1>7 DEF IdInv
<1>8. ASSUME NEW g \in Fibers, NEW i \in DOMAIN stacks'[g]
      PROVE  stacks'[g][i].id <= calls' /\ stacks'[g][i].id \notin RanIds'
  <2>1. calls + 1 <= calls + 1
    BY <1>1
  <2> QED BY <1>1, <1>2, <1>4, <1>5, <1>6, <2>1 DEF IdInv
<1> QED BY <1>1, <1>2, <1>6, <1>7, <1>8 DEF IdInv

\* Ending one gives its number to the history, if to anything.
LEMMA LeaveId ==
  ASSUME TypeOK, IdInv, NEW f \in Fibers, stacks[f] # <<>>,
         stacks' = [stacks EXCEPT ![f] = Front(@)], calls' = calls,
         RanIds' \subseteq RanIds \cup {Last(stacks[f]).id}
  PROVE  IdInv'
<1> DEFINE n == Len(stacks[f])
<1>1. /\ n \in Nat \ {0} /\ DOMAIN stacks[f] = 1..n /\ DOMAIN stacks'[f] = 1..(n - 1)
      /\ \A i \in 1..(n - 1) : stacks'[f][i] = stacks[f][i]
      /\ \A g \in Fibers \ {f} : stacks'[g] = stacks[g]
      /\ Last(stacks[f]) = stacks[f][n]
  BY LeaveShrinks
<1> HIDE DEF n
<1>2. n \in DOMAIN stacks[f]
  BY <1>1
<1>3. ASSUME NEW g \in Fibers, NEW j \in DOMAIN stacks'[g]
      PROVE  /\ j \in DOMAIN stacks[g] /\ stacks'[g][j] = stacks[g][j]
             /\ ~(g = f /\ j = n)
  <2>1. CASE g = f
    BY <1>1, <2>1
  <2>2. CASE g # f
    BY <1>1, <2>2
  <2> QED BY <2>1, <2>2
<1>4. \A g \in Fibers : \A j \in DOMAIN stacks'[g] : stacks'[g][j].id # stacks[f][n].id
  BY <1>2, <1>3 DEF IdInv
<1>5. stacks[f][n].id <= calls
  BY <1>2 DEF IdInv
<1> QED BY <1>1, <1>3, <1>4, <1>5 DEF IdInv

\* What an end records is the call that ends.
LEMMA EndRecords ==
  ASSUME TypeOK, NEW f \in Fibers, End(f)
  PROVE  \/ ran' = ran
         \/ \E h \in Handles \cup {NoHandle}, d, ok \in BOOLEAN : Record(Last(stacks[f]), h, d, ok)
<1> DEFINE c == Last(stacks[f])
<1>1. ASSUME NEW kind, Leave(f, kind), kind # "exec" PROVE c.h \in Handles
  BY <1>1, LeaveType
<1> HIDE DEF c
<1>2. ASSUME NEW ok \in BOOLEAN, EndExec(f, ok)
      PROVE  ran' = ran \/ Record(c, NoHandle, FALSE, ok)
  BY <1>2 DEF EndExec, c
<1>3. ASSUME NEW counted \in BOOLEAN, EndQuery(f, counted)
      PROVE  ran' = ran \/ (c.h \in Handles /\ Record(c, c.h, TRUE, TRUE))
  BY <1>1, <1>3 DEF EndQuery, c
<1>4. ASSUME EndQueryFailed(f) PROVE ran' = ran \/ Record(c, NoHandle, FALSE, FALSE)
  BY <1>4 DEF EndQueryFailed, c
<1>5. ASSUME NEW ok \in BOOLEAN, NEW counted \in BOOLEAN, EndExecute(f, ok, counted)
      PROVE  \/ ran' = ran
             \/ c.h \in Handles /\ (Record(c, c.h, TRUE, ok) \/ Record(c, c.h, FALSE, ok))
  BY <1>1, <1>5 DEF EndExecute, c
<1> QED BY <1>2, <1>3, <1>4, <1>5 DEF End, EndNoSql, NoSql, EndFetchAll, c

\* So numbers stay unique.
LEMMA NextId == TypeOK /\ IdInv /\ [Next]_vars => IdInv'
<1> SUFFICES ASSUME TypeOK, IdInv, [Next]_vars PROVE IdInv'
  OBVIOUS
<1>u. ASSUME UNCHANGED <<stacks, calls>>, ran' = ran \/ ran' = <<>> PROVE IdInv'
  <2>1. RanIds' \subseteq RanIds
    BY <1>u DEF RanIds
  <2> QED BY <1>u, <2>1 DEF IdInv
<1>1. CASE UNCHANGED vars
  BY <1>1, <1>u DEF vars, extension
<1>2. CASE Rinit \/ Rshutdown
  BY <1>2, <1>u DEF Rinit, Rshutdown, RshutdownDrain, FlushEmit, RshutdownDone, extension
<1>3. CASE Statements
  BY <1>3, <1>u DEF Statements, Prepare, Free, AssignParam, BindValue, extension
<1>4. ASSUME NEW f \in Fibers, Begin(f) PROVE IdInv'
  BY <1>4, BeginType, EnterId
<1>5. ASSUME NEW f \in Fibers, End(f) PROVE IdInv'
  <2>1. RanIds' \subseteq RanIds \cup {Last(stacks[f]).id}
    <3>1. CASE ran' = ran
      BY <3>1 DEF RanIds
    <3>2. ASSUME NEW h \in Handles \cup {NoHandle}, NEW d \in BOOLEAN, NEW ok \in BOOLEAN,
                 Record(Last(stacks[f]), h, d, ok)
          PROVE  RanIds' \subseteq RanIds \cup {Last(stacks[f]).id}
      <4>1. Last(stacks[f]) \in Call
        BY <1>5, EndLeaves, LeaveShrinks
      <4> HIDE DEF RanIds
      <4>2. /\ Len(ran) \in Nat /\ DOMAIN ran = 1..Len(ran)
            /\ DOMAIN ran' = 1..(Len(ran) + 1)
            /\ \A i \in 1..Len(ran) : ran'[i] = ran[i]
            /\ ran'[Len(ran) + 1].call = Last(stacks[f]).id
        BY <3>2, <4>1, RecordGrows
      <4> QED BY <4>2 DEF RanIds
    <3> QED BY <1>5, <3>1, <3>2, EndRecords
  <2> QED BY <1>5, <2>1, EndLeaves, LeaveId
<1>6. CASE Bailout
  <2>1. \A f \in Fibers : DOMAIN stacks'[f] = {}
    BY <1>6, EmptySeq DEF Bailout
  <2>2. RanIds' = RanIds /\ calls' = calls
    BY <1>6 DEF Bailout, RanIds
  <2> QED BY <2>1, <2>2 DEF IdInv
<1> QED BY <1>1, <1>2, <1>3, <1>4, <1>5, <1>6 DEF Next

-----------------------------------------------------------------------------
(* What waits, and when: only a running, observed request has deferred reads, *)
(* and only its shutdown drains them.                                        *)
PhaseInv ==
  /\ phase # "flushing" => draining = {}
  /\ phase # "running" => Quiet /\ \A h \in Handles : pending[h] = NoQuery
  /\ ~on => Waiting = {}

\* It holds at first ..
LEMMA InitPhase == Init => PhaseInv
  BY DEF Init, PhaseInv, Quiet, Waiting

\* .. and after every step.
LEMMA NextPhase == TypeOK /\ PhaseInv /\ [Next]_vars => PhaseInv'
<1> SUFFICES ASSUME TypeOK, PhaseInv, [Next]_vars PROVE PhaseInv'
  OBVIOUS
<1>q. ASSUME phase # "running" PROVE ~ \E f \in Fibers : End(f)
  <2>1. Quiet
    BY <1>q DEF PhaseInv
  <2> QED BY <2>1, EndLeaves DEF Quiet
<1>1. CASE UNCHANGED vars
  BY <1>1 DEF vars, extension, PhaseInv, Quiet, Waiting
<1>2. CASE Rinit
  BY <1>2 DEF Rinit, Reset, PhaseInv, Quiet, Waiting
<1>3. CASE Statements
  <2>1. phase' = "running" /\ UNCHANGED <<phase, on, pending, draining>>
    BY <1>3 DEF Statements, Prepare, Free, AssignParam, BindValue, extension
  <2> QED BY <2>1 DEF PhaseInv, Waiting
<1>4. ASSUME NEW f \in Fibers, Begin(f) PROVE PhaseInv'
  <2>1. PICK c \in Call : Enter(f, c)
    BY <1>4, BeginType
  <2> QED BY <2>1 DEF Enter, PhaseInv, Waiting
<1>5. ASSUME NEW f \in Fibers, End(f) PROVE PhaseInv'
  <2>1. phase = "running" /\ UNCHANGED <<phase, on, draining>>
    BY <1>5, <1>q, EndLeaves
  <2>2. on \/ pending' = pending \/ \A h \in Handles : pending'[h] = pending[h]
    <3>1. Kinds
      BY <1>5, EndKinds
    <3> QED BY <3>1 DEF Kinds, NothingNew, ToldAtOnce, Deferred, Fetched, Executed, Ending
  <2>3. ~on => Waiting' = Waiting
    BY <2>1, <2>2 DEF Waiting
  <2> QED BY <2>1, <2>3 DEF PhaseInv
<1>6. CASE Bailout
  BY <1>6 DEF Bailout, extension, PhaseInv, Waiting
<1>7. CASE RshutdownDrain
  <2>1. Waiting' \subseteq Waiting
    BY <1>7 DEF RshutdownDrain, Waiting
  <2> QED BY <1>7, <2>1 DEF RshutdownDrain, PhaseInv, Quiet
<1>8. ASSUME NEW q \in draining, FlushEmit(q) PROVE PhaseInv'
  <2>1. Waiting' \subseteq Waiting
    BY <1>8 DEF FlushEmit, extension, Waiting
  <2> QED BY <1>8, <2>1 DEF FlushEmit, extension, PhaseInv, Quiet
<1>9. CASE RshutdownDone
  BY <1>9 DEF RshutdownDone, extension, PhaseInv, Quiet, Waiting
<1> QED BY <1>1, <1>2, <1>3, <1>4, <1>5, <1>6, <1>7, <1>8, <1>9 DEF Next, Rshutdown

\* The shutdown of a request makes no query and forgets none.
LEMMA ShutdownKeeps ==
  ASSUME TypeOK, PhaseInv, Rshutdown
  PROVE  Known' = Known /\ ran' = ran
<1>1. CASE RshutdownDrain
  <2>1. draining = {} /\ frames' = frames /\ ran' = ran
    BY <1>1 DEF RshutdownDrain, PhaseInv
  <2>2. Waiting' = Waiting
    BY <1>1, <2>1 DEF RshutdownDrain, Waiting
  <2> QED BY <2>1, <2>2 DEF Known, Told, FrameSet
<1>2. ASSUME NEW q \in draining, FlushEmit(q) PROVE Known' = Known /\ ran' = ran
  <2>1. q \in Query /\ q.fallback \in Nat /\ on
    BY DEF TypeOK, Query, PhaseInv, Waiting
  <2>2. Told' = Told \cup {q}
    BY <1>2, <2>1, EmitGrows DEF FlushEmit
  <2>3. Waiting \subseteq Waiting' \cup {q} /\ Waiting' \subseteq Waiting /\ q \in Waiting
    BY <1>2 DEF FlushEmit, extension, Waiting
  <2> QED BY <1>2, <2>2, <2>3 DEF Known, FlushEmit
<1>3. CASE RshutdownDone
  BY <1>3 DEF RshutdownDone, extension, Known, Waiting, Told, FrameSet
<1> QED BY <1>1, <1>2, <1>3 DEF Rshutdown

\* A request begins with nothing known.
LEMMA RinitKnows == PhaseInv /\ Rinit => Known' = {} /\ ran' = <<>>
  BY DEF Rinit, Reset, PhaseInv, Known, Waiting, Told, FrameSet

-----------------------------------------------------------------------------
(* Stamps.                                                                   *)

\* A query just made is stamped with the place of its call in the history.
LEMMA ExecutedStamp ==
  ASSUME TypeOK, NEW f \in Fibers, NEW q \in Query,
         NEW h \in Handles \cup {NoHandle}, NEW d \in BOOLEAN, NEW r, Executed(f, q, h, d, r)
  PROVE  /\ q.call = Last(stacks[f]).id /\ q.ts = Len(ran) + 1
         /\ Len(ran) \in Nat /\ DOMAIN ran = 1..Len(ran) /\ DOMAIN ran' = 1..(Len(ran) + 1)
         /\ \A i \in 1..Len(ran) : ran'[i] = ran[i]
         /\ ran'[Len(ran) + 1].call = q.call
         /\ ran'[Len(ran) + 1].h = h
         /\ ran'[Len(ran) + 1].deferred = d
         /\ ran'[Len(ran) + 1].used = Last(stacks[f]).used
         /\ ran'[Len(ran) + 1].tidy = Last(stacks[f]).tidy
<1> DEFINE c == Last(stacks[f])
<1>1. c \in Call
  BY LeaveShrinks DEF Executed, Ending
<1>2. q.call = c.id /\ q.ts = Len(ran) + 1
  BY DEF Executed, NewOf, Stamped
<1>3. PICK ok \in BOOLEAN : Record(c, h, d, ok)
  BY DEF Executed
<1> HIDE DEF c
<1> QED BY <1>1, <1>2, <1>3, RecordGrows DEF c

\* A stamp kept is kept by every step.
LEMMA NextStamp == TypeOK /\ PhaseInv /\ StampKept /\ [Next]_vars => StampKept'
<1> SUFFICES ASSUME TypeOK, PhaseInv, StampKept, [Next]_vars PROVE StampKept'
  OBVIOUS
<1>u. ASSUME Known' \subseteq Known, ran' = ran PROVE StampKept'
  BY <1>u DEF StampKept
<1>f. frames' = frames => Told' = Told
  BY DEF Told, FrameSet
<1>1. CASE Rinit
  BY <1>1, RinitKnows DEF StampKept
<1>2. CASE Rshutdown
  BY <1>2, <1>u, ShutdownKeeps
<1>3. CASE NothingNew
  BY <1>3, <1>u DEF NothingNew, Known, Waiting, Told, FrameSet
<1>x. ASSUME NEW f \in Fibers, NEW q \in Query, NEW h \in Handles \cup {NoHandle},
             NEW d \in BOOLEAN, NEW r, Executed(f, q, h, d, r), Known' \subseteq Known \cup {q}
      PROVE  StampKept'
  <2>1. /\ q.ts = Len(ran) + 1
        /\ Len(ran) \in Nat /\ DOMAIN ran = 1..Len(ran) /\ DOMAIN ran' = 1..(Len(ran) + 1)
        /\ \A i \in 1..Len(ran) : ran'[i] = ran[i]
        /\ ran'[Len(ran) + 1].call = q.call
    BY <1>x, ExecutedStamp
  <2>2. ASSUME NEW p \in Known PROVE \E i \in DOMAIN ran' : ran'[i].call = p.call /\ p.ts = i
    <3>1. PICK i \in DOMAIN ran : ran[i].call = p.call /\ p.ts = i
      BY DEF StampKept
    <3>2. i \in DOMAIN ran' /\ ran'[i] = ran[i]
      BY <2>1
    <3> QED BY <3>1, <3>2
  <2>3. \E i \in DOMAIN ran' : ran'[i].call = q.call /\ q.ts = i
    <3>1. Len(ran) + 1 \in DOMAIN ran'
      BY <2>1
    <3> QED BY <2>1, <3>1
  <2> QED BY <1>x, <2>2, <2>3 DEF StampKept
<1>4. ASSUME NEW f \in Fibers, NEW q \in Query, ToldAtOnce(f, q) PROVE StampKept'
  <2>1. PICK h \in Handles \cup {NoHandle}, r \in Nat :
          Executed(f, q, h, FALSE, r) /\ Emit(q, r) /\ pending' = pending
    BY <1>4 DEF ToldAtOnce
  <2>2. Known' \subseteq Known \cup {q}
    BY <2>1, EmitKnown DEF Executed, Known, Waiting
  <2> QED BY <1>x, <2>1, <2>2
<1>5. ASSUME NEW f \in Fibers, NEW h \in Handles, NEW q \in Query, Deferred(f, h, q)
      PROVE  StampKept'
  <2>1. Executed(f, q, h, TRUE, q.fallback)
    BY <1>5 DEF Deferred
  <2>2. Known' \subseteq Known \cup {q}
    BY <1>5, <1>f, DeferKnown DEF Deferred, Executed, Known
  <2> QED BY <1>x, <2>1, <2>2
<1>6. ASSUME NEW f \in Fibers, NEW h \in Handles, NEW r \in Nat, Fetched(f, h, r) PROVE StampKept'
  <2>1. pending[h] \in Query /\ pending[h] \in Waiting
    BY <1>6 DEF Fetched, TypeOK, Waiting
  <2>2. Told' \subseteq Told \cup {pending[h]}
    BY <1>6, <2>1, EmitKnown DEF Fetched
  <2>3. Waiting' \subseteq Waiting
    BY <1>6 DEF Fetched, Undefer, Waiting, TypeOK
  <2>4. Known' \subseteq Known /\ ran' = ran
    BY <1>6, <2>1, <2>2, <2>3 DEF Known, Fetched
  <2> QED BY <1>u, <2>4
<1> QED BY <1>1, <1>2, <1>3, <1>4, <1>5, <1>6, StepKinds DEF Kinds

\* Nothing is known at first.
LEMMA InitKnows == Init => Known = {} /\ ran = <<>>
  BY DEF Init, Known, Waiting, Told, FrameSet

(* The `ts` of every frame, deferred or not, is that of its execution's end  *)
(* (queries.rs:134), however late it is told: sorting by it gives the order  *)
(* of the executions, for any use of the statements.                         *)
THEOREM StampsAreKept == Spec => []StampKept
<1>1. Init => TypeOK /\ PhaseInv /\ StampKept
  BY InitType, InitPhase, InitKnows DEF StampKept
<1>2. TypeOK /\ PhaseInv /\ StampKept /\ [Next]_vars => TypeOK' /\ PhaseInv' /\ StampKept'
  BY NextType, NextPhase, NextStamp
<1> QED BY <1>1, <1>2, PTL DEF Spec

-----------------------------------------------------------------------------
(* Each execution is told once.                                              *)

\* Why: there is one query for each execution, waiting in one place or told.
SoleInv == /\ FramedOnce
           /\ \A p, q \in Known : p.call = q.call => p = q

\* The query of a call that ends is of an execution not known before.
LEMMA FreshCall ==
  ASSUME TypeOK, IdInv, StampKept, NEW f \in Fibers, NEW q \in Query,
         NEW h \in Handles \cup {NoHandle}, NEW d \in BOOLEAN, NEW r, Executed(f, q, h, d, r)
  PROVE  q.call \notin RanIds /\ q.call \notin Ids(Known)
<1>1. q.call = Last(stacks[f]).id
  BY ExecutedStamp
<1>2. /\ Last(stacks[f]) = stacks[f][Len(stacks[f])]
      /\ Len(stacks[f]) \in DOMAIN stacks[f]
  <2> DEFINE n == Len(stacks[f])
  <2>1. /\ n \in Nat \ {0} /\ DOMAIN stacks[f] = 1..n
        /\ Last(stacks[f]) = stacks[f][n]
    BY LeaveShrinks DEF Executed, Ending
  <2> HIDE DEF n
  <2>2. n \in DOMAIN stacks[f]
    BY <2>1
  <2> QED BY <2>1, <2>2 DEF n
<1>3. q.call \notin RanIds
  BY <1>1, <1>2 DEF IdInv
<1>4. Ids(Known) \subseteq RanIds
  BY DEF StampKept, Ids, RanIds
<1> QED BY <1>3, <1>4

\* A query that is told for the first time keeps the parts of FramedOnce.
LEMMA TellOnce ==
  ASSUME TypeOK, SoleInv, on, NEW q \in Query, NEW r \in Nat, Emit(q, r),
         q.call \notin Ids(Told), q.call \notin Ids(Waiting'), Waiting' \subseteq Waiting,
         \A h \in Handles : pending'[h] \in {pending[h], NoQuery}
  PROVE  FramedOnce'
<1>1. /\ Len(frames) \in Nat /\ DOMAIN frames = 1..Len(frames)
      /\ DOMAIN frames' = 1..(Len(frames) + 1)
      /\ \A i \in 1..Len(frames) : frames'[i] = frames[i]
      /\ frames'[Len(frames) + 1].q = q
      /\ Told' = Told \cup {q}
  BY EmitGrows
<1>2. \A i \in 1..Len(frames) : frames[i].q.call # q.call
  BY <1>1 DEF Told, FrameSet, Ids
<1>3. \A i, j \in DOMAIN frames' : frames'[i].q.call = frames'[j].q.call => i = j
  <2> SUFFICES ASSUME NEW i \in DOMAIN frames', NEW j \in DOMAIN frames',
                      frames'[i].q.call = frames'[j].q.call
               PROVE  i = j
    OBVIOUS
  <2>1. (i \in 1..Len(frames) \/ i = Len(frames) + 1) /\ (j \in 1..Len(frames) \/ j = Len(frames) + 1)
    BY <1>1
  <2> QED BY <1>1, <1>2, <2>1 DEF SoleInv, FramedOnce
<1>4. Ids(Told') \cap Ids(Waiting') = {}
  BY <1>1 DEF SoleInv, FramedOnce, Ids
<1>5. \A g, h \in {h \in Handles : pending'[h] # NoQuery} :
        pending'[g].call = pending'[h].call => g = h
  BY DEF SoleInv, FramedOnce
<1> QED BY <1>3, <1>4, <1>5 DEF FramedOnce, Ids

\* The shutdown tells what waits, each once.
LEMMA ShutdownSole ==
  ASSUME TypeOK, PhaseInv, SoleInv, Rshutdown
  PROVE  SoleInv'
<1>1. Known' = Known
  BY ShutdownKeeps
<1>2. CASE RshutdownDrain
  <2>1. draining = {} /\ frames' = frames /\ \A h \in Handles : pending'[h] = NoQuery
    BY <1>2 DEF RshutdownDrain, PhaseInv
  <2>2. Waiting' = Waiting /\ Told' = Told
    BY <1>2, <2>1 DEF RshutdownDrain, Waiting, Told, FrameSet
  <2> QED BY <1>1, <2>1, <2>2 DEF SoleInv, FramedOnce, Ids
<1>3. ASSUME NEW q \in draining, FlushEmit(q) PROVE SoleInv'
  <2>1. q \in Query /\ q.fallback \in Nat /\ on /\ q \in Waiting
    BY DEF TypeOK, Query, PhaseInv, Waiting
  <2>2. Waiting = draining /\ Waiting' = draining \ {q} /\ pending' = pending
    BY <1>3 DEF FlushEmit, extension, PhaseInv, Waiting
  <2>3. q.call \notin Ids(Told)
    BY <2>1 DEF SoleInv, FramedOnce, Ids
  <2>4. q.call \notin Ids(Waiting')
    BY <2>1, <2>2 DEF SoleInv, Known, Ids
  <2>5. FramedOnce'
    BY <1>3, <2>1, <2>2, <2>3, <2>4, TellOnce DEF FlushEmit
  <2> QED BY <1>1, <2>5 DEF SoleInv
<1>4. CASE RshutdownDone
  BY <1>1, <1>4 DEF RshutdownDone, extension, SoleInv, FramedOnce, Waiting, Told, FrameSet, Ids
<1> QED BY <1>2, <1>3, <1>4 DEF Rshutdown

\* Every step leaves one query to each execution, in one place.
LEMMA NextSole ==
  ASSUME TypeOK, PhaseInv, IdInv, StampKept, SoleInv, [Next]_vars
  PROVE  SoleInv'
<1>f. frames' = frames => Told' = Told
  BY DEF Told, FrameSet
<1>1. CASE Rinit
  <2>1. Known' = {} /\ frames' = <<>> /\ \A h \in Handles : pending'[h] = NoQuery
    BY <1>1, RinitKnows DEF Rinit, Reset
  <2> QED BY <2>1 DEF SoleInv, FramedOnce, Known, Ids
<1>2. CASE NothingNew
  BY <1>2 DEF NothingNew, SoleInv, FramedOnce, Known, Waiting, Told, FrameSet, Ids
<1>3. ASSUME NEW f \in Fibers, NEW q \in Query, ToldAtOnce(f, q) PROVE SoleInv'
  <2>1. PICK h \in Handles \cup {NoHandle}, r \in Nat :
          Executed(f, q, h, FALSE, r) /\ Emit(q, r) /\ pending' = pending
    BY <1>3 DEF ToldAtOnce
  <2>2. q.call \notin Ids(Known)
    BY <2>1, FreshCall
  <2>3. on /\ Waiting' = Waiting
    BY <2>1 DEF Executed, Ending, Waiting
  <2>4. q.call \notin Ids(Told) /\ q.call \notin Ids(Waiting')
    BY <2>2, <2>3 DEF Known, Ids
  <2>5. FramedOnce'
    BY <2>1, <2>3, <2>4, TellOnce
  <2>6. Known' \subseteq Known \cup {q}
    BY <2>1, <2>3, EmitKnown DEF Known
  <2> QED BY <2>2, <2>5, <2>6 DEF SoleInv, Ids
<1>4. ASSUME NEW f \in Fibers, NEW h \in Handles, NEW q \in Query, Deferred(f, h, q)
      PROVE  SoleInv'
  <2>1. Executed(f, q, h, TRUE, q.fallback) /\ Defer(h, q) /\ frames' = frames /\ Told' = Told
    BY <1>4, <1>f DEF Deferred
  <2>2. q.call \notin Ids(Known)
    BY <2>1, FreshCall
  <2>3. Waiting' \subseteq Waiting \cup {q}
    BY <2>1, DeferKnown DEF Executed
  <2>4. Ids(Told') \cap Ids(Waiting') = {}
    BY <2>1, <2>2, <2>3 DEF SoleInv, FramedOnce, Ids, Known
  <2>5. /\ pending'[h] = q /\ \A g \in Handles \ {h} : pending'[g] = pending[g]
        /\ \A g \in Handles : pending[g] # NoQuery => pending[g].call # q.call
    BY <2>1, <2>2 DEF Defer, TypeOK, Ids, Known, Waiting
  <2>6. \A g, k \in {k \in Handles : pending'[k] # NoQuery} :
          pending'[g].call = pending'[k].call => g = k
    BY <2>5 DEF SoleInv, FramedOnce
  <2>7. FramedOnce'
    BY <2>1, <2>4, <2>6 DEF SoleInv, FramedOnce, Ids
  <2> QED BY <2>1, <2>2, <2>3, <2>7 DEF SoleInv, Ids, Known
<1>5. ASSUME NEW f \in Fibers, NEW h \in Handles, NEW r \in Nat, Fetched(f, h, r) PROVE SoleInv'
  <2> DEFINE q == pending[h]
  <2>1. q \in Query /\ q \in Waiting /\ on /\ Emit(q, r) /\ draining' = draining
    BY <1>5 DEF Fetched, TypeOK, Waiting
  <2>2. draining = {}
    BY <1>5 DEF Fetched, PhaseInv
  <2>3. pending'[h] = NoQuery /\ \A g \in Handles \ {h} : pending'[g] = pending[g]
    BY <1>5 DEF Fetched, Undefer, TypeOK
  <2>4. Waiting' \subseteq Waiting
    BY <2>1, <2>3 DEF Waiting
  <2>5. q.call \notin Ids(Told)
    BY <2>1 DEF SoleInv, FramedOnce, Ids
  <2>6. \A g \in Handles : pending'[g] # NoQuery => pending'[g].call # q.call
    BY <1>5, <2>3 DEF SoleInv, FramedOnce, Fetched
  <2>7. q.call \notin Ids(Waiting')
    BY <2>1, <2>2, <2>6 DEF Ids, Waiting
  <2>8. FramedOnce'
    <3>1. \A g \in Handles : pending'[g] \in {pending[g], NoQuery}
      BY <2>3
    <3> QED BY <2>1, <2>4, <2>5, <2>7, <3>1, TellOnce
  <2>9. Known' \subseteq Known
    BY <2>1, <2>4, EmitKnown DEF Known
  <2> QED BY <2>8, <2>9 DEF SoleInv
<1> QED BY <1>1, <1>2, <1>3, <1>4, <1>5, StepKinds, ShutdownSole DEF Kinds

(* An execution is told at most once, and not while it still waits: what     *)
(* fetchAll takes from PENDING, what flush() drains and what an end emits    *)
(* never overlap (queries.rs:202, 224, 143), for any use of the statements, any   *)
(* number of fibers, and through bailouts.                                   *)
THEOREM ToldOnce == Spec => []FramedOnce
<1> DEFINE I == TypeOK /\ PhaseInv /\ IdInv /\ StampKept /\ SoleInv
<1>1. Init => I
  <2> SUFFICES ASSUME Init PROVE SoleInv /\ StampKept
    BY InitType, InitPhase, InitId
  <2>1. frames = <<>> /\ \A h \in Handles : pending[h] = NoQuery
    BY DEF Init
  <2> QED BY <2>1, InitKnows DEF SoleInv, FramedOnce, StampKept, Known, Ids
<1>2. I /\ [Next]_vars => I'
  BY NextType, NextPhase, NextId, NextStamp, NextSole
<1>3. I => FramedOnce
  BY DEF SoleInv
<1> QED BY <1>1, <1>2, <1>3, PTL DEF Spec

-----------------------------------------------------------------------------
(* What goes missing.                                                        *)

\* Why: what waits under a handle is an execution deferred under that handle.
LostInv ==
  /\ LostOnlyToOverwrite
  /\ \A h \in Handles : \A i \in DOMAIN ran :
       pending[h] # NoQuery /\ ran[i].call = pending[h].call => ran[i].deferred /\ ran[i].h = h

\* Every step forgets only what a new deferral under the same handle replaces.
LEMMA NextLost ==
  ASSUME TypeOK, PhaseInv, IdInv, StampKept, LostInv, [Next]_vars
  PROVE  LostInv'
<1>f. frames' = frames => Told' = Told
  BY DEF Told, FrameSet
<1>u. ASSUME Known \subseteq Known', ran' = ran,
             \A h \in Handles : pending'[h] \in {pending[h], NoQuery}
      PROVE  LostInv'
  <2>1. Ids(Known) \subseteq Ids(Known')
    BY <1>u DEF Ids
  <2>2. LostOnlyToOverwrite'
    BY <1>u, <2>1 DEF LostInv, LostOnlyToOverwrite, Ids
  <2> QED BY <1>u, <2>2 DEF LostInv
<1>1. CASE Rinit
  <2>1. ran' = <<>> /\ DOMAIN <<>> = {}
    BY <1>1, EmptySeq DEF Rinit
  <2> QED BY <2>1 DEF LostInv, LostOnlyToOverwrite
<1>2. CASE Rshutdown
  <2>1. \A h \in Handles : pending'[h] \in {pending[h], NoQuery}
    BY <1>2 DEF Rshutdown, RshutdownDrain, FlushEmit, RshutdownDone, extension
  <2> QED BY <1>2, <1>u, <2>1, ShutdownKeeps
<1>3. CASE NothingNew
  BY <1>3, <1>u, <1>f DEF NothingNew, Known, Waiting
<1>4. ASSUME NEW f \in Fibers, NEW q \in Query, ToldAtOnce(f, q) PROVE LostInv'
  <2>1. PICK h \in Handles \cup {NoHandle}, r \in Nat :
          Executed(f, q, h, FALSE, r) /\ Emit(q, r) /\ pending' = pending
    BY <1>4 DEF ToldAtOnce
  <2>2. /\ Len(ran) \in Nat /\ DOMAIN ran = 1..Len(ran) /\ DOMAIN ran' = 1..(Len(ran) + 1)
        /\ \A i \in 1..Len(ran) : ran'[i] = ran[i]
        /\ ran'[Len(ran) + 1].call = q.call
    BY <2>1, ExecutedStamp
  <2>3. q.call \notin Ids(Known)
    BY <2>1, FreshCall
  <2>4. on /\ Waiting' = Waiting
    BY <2>1 DEF Executed, Ending, Waiting
  <2>5. Told' = Told \cup {q}
    BY <2>1, <2>4, EmitGrows
  <2>6. Ids(Known') = Ids(Known) \cup {q.call}
    BY <2>4, <2>5 DEF Known, Ids
  <2>7. \A i \in DOMAIN ran' : i \in DOMAIN ran \/ i = Len(ran) + 1
    BY <2>2
  <2>8. LostOnlyToOverwrite'
    <3> SUFFICES ASSUME NEW i \in DOMAIN ran'
                 PROVE  \/ ran'[i].call \in Ids(Known')
                        \/ ran'[i].deferred /\ \E j \in DOMAIN ran' :
                             j > i /\ ran'[j].deferred /\ ran'[j].h = ran'[i].h
      BY DEF LostOnlyToOverwrite, Ids
    <3>1. CASE i = Len(ran) + 1
      BY <2>2, <2>6, <3>1
    <3>2. CASE i \in DOMAIN ran
      <4>1. \/ ran[i].call \in Ids(Known)
            \/ ran[i].deferred
               /\ \E j \in DOMAIN ran : j > i /\ ran[j].deferred /\ ran[j].h = ran[i].h
        BY <3>2 DEF LostInv, LostOnlyToOverwrite
      <4> QED BY <2>2, <2>6, <3>2, <4>1
    <3> QED BY <2>7, <3>1, <3>2
  <2>9. \A h2 \in Handles : pending[h2] # NoQuery => pending[h2].call # q.call
    BY <2>3 DEF Ids, Known, Waiting
  <2> QED BY <2>1, <2>2, <2>7, <2>8, <2>9 DEF LostInv
<1>5. ASSUME NEW f \in Fibers, NEW h \in Handles, NEW q \in Query, Deferred(f, h, q)
      PROVE  LostInv'
  <2>1. Executed(f, q, h, TRUE, q.fallback) /\ Defer(h, q) /\ Told' = Told /\ draining' = draining
    BY <1>5, <1>f DEF Deferred, Executed
  <2>2. /\ Len(ran) \in Nat /\ DOMAIN ran = 1..Len(ran) /\ DOMAIN ran' = 1..(Len(ran) + 1)
        /\ \A i \in 1..Len(ran) : ran'[i] = ran[i]
        /\ ran'[Len(ran) + 1].call = q.call
        /\ ran'[Len(ran) + 1].h = h
        /\ ran'[Len(ran) + 1].deferred = TRUE
    BY <2>1, ExecutedStamp
  <2>3. q.call \notin Ids(Known) /\ q.call \notin RanIds
    BY <2>1, FreshCall
  <2>4. /\ pending'[h] = q /\ \A g \in Handles \ {h} : pending'[g] = pending[g]
        /\ q # NoQuery
    BY <2>1, NoQueryAssumption DEF Defer, TypeOK
  <2>5. \A i \in DOMAIN ran' : i \in DOMAIN ran \/ i = Len(ran) + 1
    BY <2>2
  <2>6. ASSUME NEW i \in DOMAIN ran'
        PROVE  \/ ran'[i].call \in Ids(Known')
               \/ ran'[i].deferred /\ \E j \in DOMAIN ran' :
                                        j > i /\ ran'[j].deferred /\ ran'[j].h = ran'[i].h
    <3>1. q \in Known'
      BY <2>4 DEF Known, Waiting
    <3>2. CASE i = Len(ran) + 1
      BY <2>2, <3>1, <3>2 DEF Ids
    <3>3. CASE i \in DOMAIN ran /\ ran[i].call \in Ids(Known)
      <4>1. PICK p \in Known : p.call = ran[i].call
        BY <3>3 DEF Ids
      <4>2. CASE p \in Known'
        BY <2>2, <3>3, <4>1, <4>2 DEF Ids
      <4>3. CASE p \notin Known'
        <5>1. pending[h] # NoQuery /\ pending[h].call = ran[i].call
          BY <2>1, <2>4, <4>1, <4>3 DEF Known, Waiting
        <5>2. ran[i].deferred /\ ran[i].h = h
          BY <3>3, <5>1 DEF LostInv
        <5>3. Len(ran) + 1 \in DOMAIN ran' /\ Len(ran) + 1 > i
          BY <2>2, <3>3
        <5> QED BY <2>2, <3>3, <5>2, <5>3
      <4> QED BY <4>2, <4>3
    <3>4. CASE i \in DOMAIN ran /\ ran[i].call \notin Ids(Known)
      <4>1. /\ ran[i].deferred
            /\ \E j \in DOMAIN ran : j > i /\ ran[j].deferred /\ ran[j].h = ran[i].h
        BY <3>4 DEF LostInv, LostOnlyToOverwrite
      <4> QED BY <2>2, <3>4, <4>1
    <3> QED BY <2>5, <3>2, <3>3, <3>4
  <2>7. LostOnlyToOverwrite'
    BY <2>6 DEF LostOnlyToOverwrite, Ids
  <2>8. ASSUME NEW g \in Handles, NEW i \in DOMAIN ran',
               pending'[g] # NoQuery, ran'[i].call = pending'[g].call
        PROVE  ran'[i].deferred /\ ran'[i].h = g
    <3>1. CASE i = Len(ran) + 1 /\ g = h
      BY <2>2, <3>1
    <3>2. CASE i = Len(ran) + 1 /\ g # h
      BY <2>2, <2>3, <2>4, <2>8, <3>2 DEF Ids, Known, Waiting
    <3>3. CASE i \in DOMAIN ran /\ g = h
      BY <2>2, <2>3, <2>4, <2>8, <3>3 DEF RanIds
    <3>4. CASE i \in DOMAIN ran /\ g # h
      BY <2>2, <2>4, <2>8, <3>4 DEF LostInv
    <3> QED BY <2>5, <3>1, <3>2, <3>3, <3>4
  <2> QED BY <2>7, <2>8 DEF LostInv
<1>6. ASSUME NEW f \in Fibers, NEW h \in Handles, NEW r \in Nat, Fetched(f, h, r) PROVE LostInv'
  <2> DEFINE q == pending[h]
  <2>1. q \in Query /\ on /\ Emit(q, r) /\ draining' = draining
    BY <1>6 DEF Fetched, TypeOK
  <2>2. pending'[h] = NoQuery /\ \A g \in Handles \ {h} : pending'[g] = pending[g]
    BY <1>6 DEF Fetched, Undefer, TypeOK
  <2>3. Told' = Told \cup {q}
    BY <2>1, EmitGrows
  <2>4. Waiting \subseteq Waiting' \cup {q}
    BY <2>1, <2>2 DEF Waiting
  <2> QED BY <1>6, <1>u, <2>2, <2>3, <2>4 DEF Known, Fetched
<1> QED BY <1>1, <1>2, <1>3, <1>4, <1>5, <1>6, StepKinds DEF Kinds

(* Whatever the application does, an execution that ended is told or waits to *)
(* be, unless a later one was deferred under the same handle: PENDING holds   *)
(* one read per handle (queries.rs:173, 253), and nothing else loses one.     *)
THEOREM OnlyOverwritesLose == Spec => []LostOnlyToOverwrite
<1> DEFINE I == TypeOK /\ PhaseInv /\ IdInv /\ StampKept /\ LostInv
<1>1. Init => I
  <2> SUFFICES ASSUME Init PROVE LostInv /\ StampKept
    BY InitType, InitPhase, InitId
  <2>1. ran = <<>> /\ DOMAIN <<>> = {}
    BY EmptySeq DEF Init
  <2> QED BY <2>1, InitKnows DEF LostInv, LostOnlyToOverwrite, StampKept
<1>2. I /\ [Next]_vars => I'
  BY NextType, NextPhase, NextId, NextStamp, NextLost
<1>3. I => LostOnlyToOverwrite
  BY DEF LostInv
<1> QED BY <1>1, <1>2, <1>3, PTL DEF Spec

-----------------------------------------------------------------------------
(* Each start times one query.                                               *)

\* A step makes at most one query, that of the call that ends.
LEMMA KnownGrows ==
  ASSUME TypeOK, PhaseInv, [Next]_vars
  PROVE  \/ Known' \subseteq Known
         \/ \E f \in Fibers, q \in Query :
              Ending(f) /\ NewOf(f, q) /\ mark' = mark /\ Known' \subseteq Known \cup {q}
<1>f. frames' = frames => Told' = Told
  BY DEF Told, FrameSet
<1>1. CASE Rinit
  BY <1>1, RinitKnows
<1>2. CASE Rshutdown
  BY <1>2, ShutdownKeeps
<1>3. CASE NothingNew
  BY <1>3 DEF NothingNew, Known, Waiting, Told, FrameSet
<1>4. ASSUME NEW f \in Fibers, NEW q \in Query, ToldAtOnce(f, q)
      PROVE  Ending(f) /\ NewOf(f, q) /\ mark' = mark /\ Known' \subseteq Known \cup {q}
  <2>1. PICK h \in Handles \cup {NoHandle}, r \in Nat :
          Executed(f, q, h, FALSE, r) /\ Emit(q, r) /\ pending' = pending
    BY <1>4 DEF ToldAtOnce
  <2> QED BY <2>1, EmitKnown DEF Executed, Known, Waiting
<1>5. ASSUME NEW f \in Fibers, NEW h \in Handles, NEW q \in Query, Deferred(f, h, q)
      PROVE  Ending(f) /\ NewOf(f, q) /\ mark' = mark /\ Known' \subseteq Known \cup {q}
  BY <1>5, <1>f, DeferKnown DEF Deferred, Executed, Known
<1>6. ASSUME NEW f \in Fibers, NEW h \in Handles, NEW r \in Nat, Fetched(f, h, r) PROVE Known' \subseteq Known
  <2>1. pending[h] \in Query /\ pending[h] \in Waiting
    BY <1>6 DEF Fetched, TypeOK, Waiting
  <2>2. Told' \subseteq Told \cup {pending[h]}
    BY <1>6, <2>1, EmitKnown DEF Fetched
  <2>3. Waiting' \subseteq Waiting
    BY <1>6 DEF Fetched, Undefer, Waiting, TypeOK
  <2> QED BY <2>1, <2>2, <2>3 DEF Known
<1> QED BY <1>1, <1>2, <1>3, <1>4, <1>5, <1>6, StepKinds DEF Kinds

\* What a step does to STARTS, and that serial numbers and marks only grow.
LEMMA StartKinds ==
  ASSUME TypeOK, [Next]_vars
  PROVE  /\ \/ starts' = starts
            \/ starts' = <<>>
            \/ PopStart
            \/ starts' = Append(starts, calls + 1) /\ calls' = calls + 1
         /\ calls \in Nat /\ calls' \in Nat /\ calls <= calls'
<1>c. calls \in Nat /\ calls <= calls
  BY DEF TypeOK
<1>1. CASE UNCHANGED vars
  BY <1>c, <1>1 DEF vars, extension
<1>2. CASE Rinit \/ Rshutdown
  BY <1>c, <1>2 DEF Rinit, Reset, Rshutdown, RshutdownDrain, FlushEmit, RshutdownDone, extension
<1>3. CASE Statements
  BY <1>c, <1>3 DEF Statements, Prepare, Free, AssignParam, BindValue, extension
<1>4. ASSUME NEW f \in Fibers, Begin(f)
      PROVE  /\ starts' = starts \/ starts' = Append(starts, calls + 1)
             /\ calls' = calls + 1
  BY <1>4, BeginType DEF Enter
<1>5. ASSUME NEW f \in Fibers, End(f) PROVE (starts' = starts \/ PopStart) /\ calls' = calls
  BY <1>5, EndLeaves
<1>6. CASE Bailout
  BY <1>c, <1>6 DEF Bailout, extension
<1>7. calls + 1 \in Nat /\ calls <= calls + 1
  BY <1>c
<1> QED BY <1>c, <1>1, <1>2, <1>3, <1>4, <1>5, <1>6, <1>7 DEF Next

\* The starts a pop leaves, and the one it takes.
LEMMA PopTakes ==
  ASSUME TypeOK, PopStart
  PROVE  /\ DOMAIN starts' \subseteq DOMAIN starts
         /\ \A i \in DOMAIN starts' : starts'[i] = starts[i]
         /\ \/ Timer = 0 /\ starts = <<>>
            \/ \E k \in DOMAIN starts : Timer = starts[k] /\ k \notin DOMAIN starts'
<1>1. CASE starts = <<>>
  BY <1>1 DEF PopStart, Timer
<1>2. CASE starts # <<>>
  <2> DEFINE n == Len(starts)
  <2>1. starts \in Seq(Nat) /\ starts' = Front(starts) /\ Timer = Last(starts)
    BY <1>2 DEF PopStart, Timer, TypeOK
  <2>2. /\ n \in Nat \ {0} /\ DOMAIN starts = 1..n
        /\ DOMAIN starts' = 1..(n - 1) /\ \A i \in 1..(n - 1) : starts'[i] = starts[i]
        /\ Timer = starts[n]
    BY <1>2, <2>1, FrontProperties, LenProperties DEF Last
  <2> HIDE DEF n
  <2>3. n \in DOMAIN starts /\ n \notin DOMAIN starts'
    BY <2>2
  <2> QED BY <2>2, <2>3
<1> QED BY <1>1, <1>2

\* Why: the starts are distinct, and none is the time of a query already.
StartInv ==
  /\ TimerUsedOnce
  /\ \A i, j \in DOMAIN starts : starts[i] = starts[j] => i = j
  /\ \A i \in DOMAIN starts : starts[i] <= calls
  /\ \A q \in Known : /\ q.timer <= calls
                      /\ q.timer # 0 => \A i \in DOMAIN starts : q.timer # starts[i]

\* Every step keeps them so.
LEMMA NextStart == TypeOK /\ PhaseInv /\ StartInv /\ [Next]_vars => StartInv'
<1> SUFFICES ASSUME TypeOK, PhaseInv, StartInv, [Next]_vars PROVE StartInv'
  OBVIOUS
<1>1. /\ \/ starts' = starts
         \/ starts' = <<>>
         \/ PopStart
         \/ starts' = Append(starts, calls + 1) /\ calls' = calls + 1
      /\ calls \in Nat /\ calls' \in Nat /\ calls <= calls'
  BY StartKinds
<1>t. /\ starts \in Seq(Nat) /\ Len(starts) \in Nat /\ DOMAIN starts = 1..Len(starts)
      /\ \A i \in DOMAIN starts : starts[i] \in Nat
      /\ \A q \in Known : q.timer \in Nat
  <2>1. starts \in Seq(Nat)
    BY DEF TypeOK
  <2>2. Known \subseteq Query
    <3>1. Waiting \subseteq Query
      BY DEF TypeOK, Waiting
    <3>2. \A i \in DOMAIN frames : frames[i] \in Frame
      BY LenProperties, ElementOfSeq DEF TypeOK
    <3> QED BY <3>1, <3>2 DEF Known, Told, FrameSet, Frame
  <2> QED BY <2>1, <2>2, LenProperties, ElementOfSeq DEF Query
\* The starts after a step are old ones, or the new call's.
<1>2. /\ \A i, j \in DOMAIN starts' : starts'[i] = starts'[j] => i = j
      /\ \A i \in DOMAIN starts' : starts'[i] <= calls'
      /\ \A i \in DOMAIN starts' : (\E j \in DOMAIN starts : starts'[i] = starts[j])
                                   \/ starts'[i] = calls + 1
  <2>1. CASE starts' = starts
    BY <1>1, <1>t, <2>1 DEF StartInv
  <2>2. CASE starts' = <<>>
    BY <2>2, EmptySeq
  <2>3. CASE PopStart
    BY <1>1, <1>t, <2>3, PopTakes DEF StartInv
  <2>4. CASE starts' = Append(starts, calls + 1) /\ calls' = calls + 1
    <3>1. calls + 1 \in Nat
      BY <1>1
    <3>2. /\ DOMAIN starts' = 1..(Len(starts) + 1)
          /\ \A i \in 1..Len(starts) : starts'[i] = starts[i]
          /\ starts'[Len(starts) + 1] = calls + 1
      BY <1>t, <2>4, <3>1, AppendProperties, LenProperties
    <3>3. \A i \in DOMAIN starts : starts[i] # calls + 1 /\ starts[i] <= calls + 1
      BY <1>1, <1>t DEF StartInv
    <3>4. \A i \in DOMAIN starts' : i \in DOMAIN starts \/ i = Len(starts) + 1
      BY <1>t, <3>2
    <3>5. \A i \in DOMAIN starts' : starts'[i] <= calls'
      BY <1>1, <1>t, <2>4, <3>2, <3>3, <3>4
    <3> QED BY <1>t, <3>2, <3>3, <3>4, <3>5 DEF StartInv
  <2> QED BY <1>1, <2>1, <2>2, <2>3, <2>4
\* So an old time is none of them.
<1>3. ASSUME NEW q \in Known
      PROVE  /\ q.timer <= calls'
             /\ q.timer # 0 => \A i \in DOMAIN starts' : q.timer # starts'[i]
  <2>1. q.timer \in Nat /\ q.timer <= calls
    BY <1>t DEF StartInv
  <2>2. q.timer <= calls' /\ q.timer # calls + 1
    BY <1>1, <2>1
  <2> QED BY <1>2, <2>2 DEF StartInv
<1>4. CASE Known' \subseteq Known
  <2>1. TimerUsedOnce'
    BY <1>4 DEF StartInv, TimerUsedOnce
  <2> QED BY <1>2, <1>3, <1>4, <2>1 DEF StartInv
<1>5. ASSUME NEW f \in Fibers, NEW q \in Query,
             Ending(f), NewOf(f, q), Known' \subseteq Known \cup {q}
      PROVE  StartInv'
  <2>1. PopStart /\ q.timer = Timer
    BY <1>5 DEF Ending, NewOf, Stamped
  <2>2. /\ DOMAIN starts' \subseteq DOMAIN starts
        /\ \A i \in DOMAIN starts' : starts'[i] = starts[i]
        /\ q.timer = 0 \/ \E k \in DOMAIN starts : q.timer = starts[k] /\ k \notin DOMAIN starts'
    BY <2>1, PopTakes
  <2>3. q.timer # 0 => \A i \in DOMAIN starts' : q.timer # starts'[i]
    BY <2>2 DEF StartInv
  <2>4. q.timer <= calls'
    <3>1. q.timer = 0 \/ (q.timer \in Nat /\ q.timer <= calls)
      BY <1>t, <2>2 DEF StartInv
    <3> QED BY <1>1, <3>1
  <2>5. \A p \in Known : p.timer # 0 => p.timer # q.timer
    BY <2>2 DEF StartInv
  <2>6. TimerUsedOnce'
    BY <1>5, <2>5 DEF StartInv, TimerUsedOnce
  <2> QED BY <1>2, <1>3, <1>5, <2>3, <2>4, <2>6 DEF StartInv
<1> QED BY <1>4, <1>5, KnownGrows

(* Whatever fibers do to the order of the calls, STARTS (queries.rs:76) gives *)
(* each start to at most one query: a wrong time is another call's, never one *)
(* shown twice.                                                              *)
THEOREM StartsAreUsedOnce == Spec => []TimerUsedOnce
<1> DEFINE I == TypeOK /\ PhaseInv /\ StartInv
<1>1. Init => I
  <2> SUFFICES ASSUME Init PROVE StartInv
    BY InitType, InitPhase
  <2>1. DOMAIN starts = {}
    BY EmptySeq DEF Init
  <2> QED BY <2>1, InitKnows DEF StartInv, TimerUsedOnce
<1>2. I /\ [Next]_vars => I'
  BY NextType, NextPhase, NextStart
<1>3. I => TimerUsedOnce
  BY DEF StartInv
<1> QED BY <1>1, <1>2, <1>3, PTL DEF Spec

-----------------------------------------------------------------------------
(* Nothing is carried over.                                                  *)

\* Why: neither the observer nor a call that is open holds anything older than
\* the request.
CarryInv ==
  /\ NoCarryOver
  /\ mark.calls <= calls /\ mark.binds <= nbinds
  /\ \A i \in DOMAIN starts : starts[i] > mark.calls
  /\ \A h \in Handles : \A i \in DOMAIN binds[h] : binds[h][i].n > mark.binds
  /\ \A f \in Fibers : \A i \in DOMAIN stacks[f] :
       /\ stacks[f][i].id > mark.calls
       /\ \A k \in DOMAIN stacks[f][i].args : stacks[f][i].args[k].n > mark.binds

\* What a step does to BINDS and to the count of binds.
LEMMA BindKinds ==
  ASSUME TypeOK, [Next]_vars, ~Rinit
  PROVE  /\ mark' = mark
         /\ nbinds \in Nat /\ nbinds' \in Nat /\ nbinds <= nbinds'
         /\ \/ binds' = binds
            \/ \E h \in Handles : ClearBinds(h)
            \/ \E h \in Handles, b \in Bind :
                 b.n = nbinds + 1 /\ binds' = [binds EXCEPT ![h] = Append(@, b)]
<1>c. nbinds \in Nat /\ nbinds <= nbinds /\ nbinds + 1 \in Nat /\ nbinds <= nbinds + 1
  BY DEF TypeOK
<1>1. CASE UNCHANGED vars
  BY <1>c, <1>1 DEF vars, extension
<1>2. CASE Rshutdown \/ Bailout
  BY <1>c, <1>2 DEF Rshutdown, RshutdownDrain, FlushEmit, RshutdownDone, Bailout, extension
<1>3. CASE Statements
  <2>1. ASSUME NEW h \in Handles, NEW p \in Params, NEW ok \in BOOLEAN, BindValue(h, p, ok)
        PROVE  /\ mark' = mark /\ nbinds' = nbinds + 1
               /\ \/ binds' = binds
                  \/ \E b \in Bind : /\ b.n = nbinds + 1
                                     /\ binds' = [binds EXCEPT ![h] = Append(@, b)]
    <3> DEFINE b == [key |-> KeyOf(p), n |-> nbinds + 1]
    <3>1. b \in Bind /\ b.n = nbinds + 1
      BY <1>c, KeyType
    <3>2. binds' = binds \/ binds' = [binds EXCEPT ![h] = Append(@, b)]
      BY <2>1 DEF BindValue
    <3> HIDE DEF b
    <3> QED BY <2>1, <3>1, <3>2 DEF BindValue
  <2>2. ASSUME NEW h \in Handles,
               \/ \E sql \in {"read", "write", "opaque"} : Prepare(h, sql)
               \/ Free(h)
               \/ \E p \in Params : AssignParam(h, p)
        PROVE  binds' = binds /\ mark' = mark /\ (nbinds' = nbinds \/ nbinds' = nbinds + 1)
    BY <2>2 DEF Prepare, Free, AssignParam, extension
  <2> QED BY <1>c, <1>3, <2>1, <2>2 DEF Statements
<1>4. ASSUME NEW f \in Fibers, Begin(f)
      PROVE  mark' = mark /\ binds' = binds /\ nbinds' \in Nat /\ nbinds <= nbinds'
  BY <1>4, BeginType DEF Enter, TypeOK
<1>5. ASSUME NEW f \in Fibers, End(f)
      PROVE  /\ mark' = mark /\ nbinds' = nbinds
             /\ binds' = binds \/ \E h \in Handles : ClearBinds(h)
  <2>1. ASSUME NEW ok \in BOOLEAN, NEW counted \in BOOLEAN, EndExecute(f, ok, counted)
        PROVE  binds' = binds \/ \E h \in Handles : ClearBinds(h)
    <3>1. Last(stacks[f]).h \in Handles
      BY <2>1, LeaveType DEF EndExecute
    <3> QED BY <2>1, <3>1 DEF EndExecute
  <2>2. binds' = binds \/ \E ok, counted \in BOOLEAN : EndExecute(f, ok, counted)
    BY <1>5 DEF End, EndExec, EndQuery, EndQueryFailed, EndNoSql, NoSql, EndFetchAll
  <2> QED BY <1>5, <2>1, <2>2, EndLeaves
<1> QED BY <1>c, <1>1, <1>2, <1>3, <1>4, <1>5 DEF Next

\* So the binds held stay of this request.
LEMMA BindsOwn ==
  ASSUME TypeOK, CarryInv, [Next]_vars, ~Rinit
  PROVE  \A h \in Handles : \A i \in DOMAIN binds'[h] : binds'[h][i].n > mark.binds
<1>1. /\ nbinds \in Nat /\ mark.binds \in Nat /\ mark.binds <= nbinds
      /\ \A h \in Handles : \A i \in DOMAIN binds[h] : binds[h][i].n > mark.binds
      /\ \A h \in Handles : binds[h] \in Seq(Bind)
  BY DEF CarryInv, TypeOK
<1>2. CASE binds' = binds
  BY <1>1, <1>2
<1>3. ASSUME NEW h \in Handles, ClearBinds(h)
      PROVE  \A g \in Handles : \A i \in DOMAIN binds'[g] : binds'[g][i].n > mark.binds
  <2>1. \A g \in Handles : binds'[g] = <<>> \/ binds'[g] = binds[g]
    BY <1>3 DEF ClearBinds, TypeOK
  <2> QED BY <1>1, <2>1, EmptySeq
<1>4. ASSUME NEW h \in Handles, NEW b \in Bind,
             b.n = nbinds + 1, binds' = [binds EXCEPT ![h] = Append(@, b)]
      PROVE  \A g \in Handles : \A i \in DOMAIN binds'[g] : binds'[g][i].n > mark.binds
  <2> DEFINE s == binds[h]
  <2>1. s \in Seq(Bind) /\ Len(s) \in Nat /\ DOMAIN s = 1..Len(s)
    BY <1>1, LenProperties
  <2>2. /\ binds'[h] = Append(s, b)
        /\ \A g \in Handles \ {h} : binds'[g] = binds[g]
    BY <1>4 DEF TypeOK
  <2>3. /\ DOMAIN Append(s, b) = 1..(Len(s) + 1)
        /\ \A i \in 1..Len(s) : Append(s, b)[i] = s[i]
        /\ Append(s, b)[Len(s) + 1] = b
    BY <2>1, AppendProperties, LenProperties
  <2>4. b.n > mark.binds
    BY <1>1, <1>4
  <2>5. \A i \in DOMAIN s : s[i].n > mark.binds
    BY <1>1
  <2> HIDE DEF s
  <2>6. \A i \in DOMAIN Append(s, b) : Append(s, b)[i].n > mark.binds
    <3> SUFFICES ASSUME NEW i \in 1..(Len(s) + 1) PROVE Append(s, b)[i].n > mark.binds
      BY <2>3
    <3>1. i \in 1..Len(s) \/ i = Len(s) + 1
      BY <2>1
    <3> QED BY <2>1, <2>3, <2>4, <2>5, <3>1
  <2> QED BY <1>1, <2>2, <2>6
<1> QED BY <1>2, <1>3, <1>4, BindKinds

\* So do the calls that are open.
LEMMA OpenOwn ==
  ASSUME TypeOK, CarryInv, [Next]_vars, ~Rinit
  PROVE  \A f \in Fibers : \A i \in DOMAIN stacks'[f] :
           /\ stacks'[f][i].id > mark.calls
           /\ \A k \in DOMAIN stacks'[f][i].args : stacks'[f][i].args[k].n > mark.binds
<1> DEFINE Own(c) == c.id > mark.calls /\ \A k \in DOMAIN c.args : c.args[k].n > mark.binds
<1>1. /\ \A f \in Fibers : \A i \in DOMAIN stacks[f] : Own(stacks[f][i])
      /\ mark.calls \in Nat /\ calls \in Nat /\ mark.calls <= calls
      /\ mark.binds \in Nat /\ nbinds \in Nat /\ mark.binds <= nbinds
  BY DEF CarryInv, TypeOK
<1> SUFFICES \A f \in Fibers : \A i \in DOMAIN stacks'[f] : Own(stacks'[f][i])
  OBVIOUS
<1>u. ASSUME stacks' = stacks PROVE \A f \in Fibers : \A i \in DOMAIN stacks'[f] : Own(stacks'[f][i])
  BY <1>u, <1>1
<1>2. CASE UNCHANGED vars \/ Statements \/ Rshutdown
  <2>1. stacks' = stacks
    BY <1>2 DEF vars, extension, Statements, Prepare, Free, AssignParam, BindValue,
                Rshutdown, RshutdownDrain, FlushEmit, RshutdownDone
  <2> QED BY <1>u, <2>1
<1>3. CASE Bailout
  <2>1. \A f \in Fibers : stacks'[f] = <<>>
    BY <1>3 DEF Bailout
  <2> QED BY <2>1, EmptySeq
<1>4. ASSUME NEW f \in Fibers, Begin(f)
      PROVE  \A g \in Fibers : \A i \in DOMAIN stacks'[g] : Own(stacks'[g][i])
  <2>1. PICK c \in Call : Enter(f, c) /\ Newer(c)
    BY <1>4, BeginType
  <2> DEFINE n == Len(stacks[f])
  <2>2. /\ n \in Nat /\ DOMAIN stacks[f] = 1..n /\ DOMAIN stacks'[f] = 1..(n + 1)
        /\ \A i \in 1..n : stacks'[f][i] = stacks[f][i]
        /\ stacks'[f][n + 1].id = calls + 1
        /\ stacks'[f][n + 1].args = c.args
        /\ \A g \in Fibers \ {f} : stacks'[g] = stacks[g]
    BY <2>1, EnterGrows
  <2> HIDE DEF n
  <2>3. \A k \in DOMAIN c.args : c.args[k].n > mark.binds
    <3>1. c.args \in Seq(Bind)
      BY DEF Call, CallOn
    <3>2. \A k \in DOMAIN c.args : c.args[k].n \in Nat
      <4>1. \A k \in DOMAIN c.args : c.args[k] \in Bind
        BY <3>1, LenProperties, ElementOfSeq
      <4> QED BY <4>1 DEF Bind
    <3> QED BY <1>1, <2>1, <3>2 DEF Newer
  <2>4. Own(stacks'[f][n + 1])
    BY <1>1, <2>2, <2>3
  <2> HIDE DEF Own
  <2>5. \A i \in 1..(n + 1) : i \in 1..n \/ i = n + 1
    BY <2>2
  <2>6. \A i \in DOMAIN stacks'[f] : Own(stacks'[f][i])
    BY <1>1, <2>2, <2>4, <2>5
  <2> QED BY <1>1, <2>2, <2>6
<1>5. ASSUME NEW f \in Fibers, End(f)
      PROVE  \A g \in Fibers : \A i \in DOMAIN stacks'[g] : Own(stacks'[g][i])
  <2> HIDE DEF Own
  <2>1. \A g \in Fibers : \A i \in DOMAIN stacks'[g] :
          i \in DOMAIN stacks[g] /\ stacks'[g][i] = stacks[g][i]
    <3> DEFINE n == Len(stacks[f])
    <3>1. /\ n \in Nat \ {0} /\ DOMAIN stacks[f] = 1..n /\ DOMAIN stacks'[f] = 1..(n - 1)
          /\ \A i \in 1..(n - 1) : stacks'[f][i] = stacks[f][i]
          /\ \A g \in Fibers \ {f} : stacks'[g] = stacks[g]
      BY <1>5, EndLeaves, LeaveShrinks
    <3> HIDE DEF n
    <3> QED BY <3>1
  <2> QED BY <1>1, <2>1
<1> QED BY <1>2, <1>3, <1>4, <1>5 DEF Next

\* And so do the starts.
LEMMA StartsOwn ==
  ASSUME TypeOK, CarryInv, [Next]_vars, ~Rinit
  PROVE  \A i \in DOMAIN starts' : starts'[i] > mark.calls
<1>1. /\ calls \in Nat /\ mark.calls \in Nat /\ mark.calls <= calls
      /\ starts \in Seq(Nat) /\ Len(starts) \in Nat /\ DOMAIN starts = 1..Len(starts)
      /\ \A i \in DOMAIN starts : starts[i] > mark.calls
  BY LenProperties DEF CarryInv, TypeOK
<1>2. CASE starts' = starts \/ starts' = <<>>
  BY <1>1, <1>2, EmptySeq
<1>3. CASE PopStart
  BY <1>1, <1>3, PopTakes
<1>4. CASE starts' = Append(starts, calls + 1)
  <2>1. calls + 1 \in Nat /\ calls + 1 > mark.calls
    BY <1>1
  <2>2. /\ DOMAIN starts' = 1..(Len(starts) + 1)
        /\ \A i \in 1..Len(starts) : starts'[i] = starts[i]
        /\ starts'[Len(starts) + 1] = calls + 1
    BY <1>1, <1>4, <2>1, AppendProperties, LenProperties
  <2>3. \A i \in DOMAIN starts' : i \in 1..Len(starts) \/ i = Len(starts) + 1
    BY <1>1, <2>2
  <2> QED BY <1>1, <2>1, <2>2, <2>3
<1> QED BY <1>2, <1>3, <1>4, StartKinds

\* Every step but the beginning of a request keeps the request's own things.
LEMMA NextCarry ==
  ASSUME TypeOK, PhaseInv, CarryInv, [Next]_vars
  PROVE  CarryInv'
<1>1. CASE Rinit
  <2>1. /\ starts' = <<>> /\ \A h \in Handles : binds'[h] = <<>>
        /\ \A f \in Fibers : stacks'[f] = <<>>
        /\ mark' = [calls |-> calls, binds |-> nbinds] /\ calls' = calls /\ nbinds' = nbinds
    BY <1>1 DEF Rinit, Reset, PhaseInv, Quiet
  <2>2. Known' = {}
    BY <1>1, RinitKnows
  <2>3. calls <= calls /\ nbinds <= nbinds
    BY DEF TypeOK
  <2>4. DOMAIN <<>> = {}
    BY EmptySeq
  <2>5. mark'.calls <= calls' /\ mark'.binds <= nbinds'
    BY <2>1, <2>3
  <2> QED BY <2>1, <2>2, <2>4, <2>5 DEF CarryInv, NoCarryOver
<1>2. CASE ~Rinit
  <2>1. /\ mark' = mark /\ nbinds \in Nat /\ nbinds' \in Nat /\ nbinds <= nbinds'
        /\ calls \in Nat /\ calls' \in Nat /\ calls <= calls'
        /\ mark.calls \in Nat /\ mark.binds \in Nat
    BY <1>2, BindKinds, StartKinds DEF TypeOK
  <2>2. mark'.calls <= calls' /\ mark'.binds <= nbinds'
    BY <2>1 DEF CarryInv
  <2>3. NoCarryOver'
    <3>1. CASE Known' \subseteq Known
      BY <2>1, <3>1 DEF CarryInv, NoCarryOver
    <3>2. ASSUME NEW f \in Fibers, NEW q \in Query,
                 Ending(f), NewOf(f, q), Known' \subseteq Known \cup {q}
          PROVE  NoCarryOver'
      <4> DEFINE c == Last(stacks[f])
                 n == Len(stacks[f])
      <4>1. n \in Nat \ {0} /\ DOMAIN stacks[f] = 1..n /\ c = stacks[f][n]
        BY <3>2, LeaveShrinks DEF Ending
      <4> HIDE DEF n
      <4>2. n \in DOMAIN stacks[f]
        BY <4>1
      <4>3. c.id > mark.calls /\ \A k \in DOMAIN c.args : c.args[k].n > mark.binds
        BY <4>1, <4>2 DEF CarryInv
      <4>4. PICK bs \in Seq(Bind), fb \in Nat :
              /\ q = Stamped(c.id, bs, fb)
              /\ bs = <<>> \/ bs = c.args \/ (c.h \in Handles /\ bs = binds[c.h])
        BY <3>2 DEF NewOf
      <4>5. q.call = c.id /\ q.timer = Timer /\ q.binds = bs
        BY <4>4 DEF Stamped
      <4> HIDE DEF c
      <4>6. \A i \in DOMAIN q.binds : q.binds[i].n > mark.binds
        BY <4>3, <4>4, <4>5, EmptySeq DEF CarryInv
      <4>7. q.timer = 0 \/ q.timer > mark.calls
        BY <3>2, <4>5, PopTakes DEF Ending, CarryInv
      <4> QED BY <2>1, <3>2, <4>3, <4>5, <4>6, <4>7 DEF CarryInv, NoCarryOver
    <3> QED BY <3>1, <3>2, KnownGrows
  <2> QED BY <1>2, <2>1, <2>2, <2>3, BindsOwn, OpenOwn, StartsOwn DEF CarryInv
<1> QED BY <1>1, <1>2

\* At first there is nothing.
LEMMA InitCarry == Init => CarryInv
<1> SUFFICES ASSUME Init PROVE CarryInv
  OBVIOUS
<1>1. /\ starts = <<>> /\ \A h \in Handles : binds[h] = <<>>
      /\ \A f \in Fibers : stacks[f] = <<>>
      /\ calls = 0 /\ nbinds = 0 /\ mark.calls = 0 /\ mark.binds = 0
  BY DEF Init
<1>2. DOMAIN <<>> = {}
  BY EmptySeq
<1> QED BY <1>1, <1>2, InitKnows DEF CarryInv, NoCarryOver

(* No start, bind or deferred read of an earlier request reaches a frame of a *)
(* later one, although handles are reused and a bailout leaves entries in all *)
(* three thread-locals: reset() (queries.rs:84) empties them in time.        *)
THEOREM NothingCarriedOver == Spec => []NoCarryOver
<1> DEFINE I == TypeOK /\ PhaseInv /\ CarryInv
<1>1. Init => I
  BY InitType, InitPhase, InitCarry
<1>2. I /\ [Next]_vars => I'
  BY NextType, NextPhase, NextCarry
<1>3. I => NoCarryOver
  BY DEF CarryInv
<1> QED BY <1>1, <1>2, <1>3, PTL DEF Spec

=============================================================================
