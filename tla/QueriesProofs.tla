---------------------------- MODULE QueriesProofs ----------------------------
(* Theorems about the query observer, for every value of the constants.      *)
EXTENDS Queries, SequenceLemmas, SequenceTheorems, TLAPS

-----------------------------------------------------------------------------
(* Types.                                                                    *)

\* No parameter is bound: a function on the parameters.
LEMMA UnboundType == Unbound \in [Params -> Nat]
  BY DEF Unbound

\* The key that on_bind derives for a parameter makes a bind.
LEMMA KeyType == ASSUME NEW p \in Params, NEW n \in Nat
                 PROVE  [key |-> KeyOf(p), n |-> n] \in Bind
  BY DEF KeyOf, Bind, Params

(* A query stamped now has the type of a query.                              *)
LEMMA StampedType ==
  ASSUME TypeOK, NEW id \in Nat, NEW bs \in Seq(Bind), NEW fb \in Nat
  PROVE  Stamped(id, bs, fb) \in Query /\ Stamped(id, bs, fb).call = id
<1>1. Len(ran) \in Nat
  BY LenProperties DEF TypeOK
<1>2. Timer \in Nat
  <2>1. CASE starts = <<>>  BY <2>1 DEF Timer
  <2>2. CASE starts # <<>>  BY <2>2, FrontProperties DEF Timer, TypeOK
  <2> QED BY <2>1, <2>2
<1> QED BY <1>1, <1>2 DEF Stamped, Query

(* Handing a frame over keeps the type of the history of frames.             *)
LEMMA EmitType ==
  ASSUME TypeOK, NEW q \in Query, NEW r \in Nat, Emit(q, r)
  PROVE  frames' \in Seq(Frame)
<1>1. [q |-> q, rows |-> r] \in Frame
  BY DEF Frame
<1> QED BY <1>1, AppendProperties DEF Emit, TypeOK

\* on_end's pop of STARTS leaves a stack of starts.
LEMMA PopType == ASSUME TypeOK, PopStart PROVE starts' \in Seq(Nat)
  BY FrontProperties DEF PopStart, TypeOK

\* on_end's insert into PENDING keeps its type.
LEMMA DeferType ==
  ASSUME TypeOK, NEW h \in Handles, NEW q \in Query, Defer(h, q)
  PROVE  pending' \in [Handles -> Query \cup {NoQuery}]
  BY DEF Defer, TypeOK

\* Recording an execution keeps the type of the history.
LEMMA RecordType ==
  ASSUME TypeOK, NEW c \in Call, NEW h \in Handles \cup {NoHandle},
         NEW d \in BOOLEAN, NEW ok \in BOOLEAN, Record(c, h, d, ok)
  PROVE  ran' \in Seq(Ran)
<1>1. [call |-> c.id, h |-> h, deferred |-> d, ok |-> ok,
       used |-> c.used, tidy |-> c.tidy] \in Ran
  BY DEF Call, CallOn, Ran
<1> QED BY <1>1, AppendProperties DEF Record, TypeOK

(* Beginning a call.                                                         *)
LEMMA EnterType ==
  ASSUME TypeOK, NEW f \in Fibers, NEW c \in Call, Enter(f, c)
  PROVE  /\ starts' \in Seq(Nat)
         /\ stacks' \in [Fibers -> Seq(Call)]
         /\ calls' \in Nat
<1>1. calls + 1 \in Nat /\ starts \in Seq(Nat)
  BY DEF TypeOK
<1>2. starts' \in Seq(Nat)
  BY <1>1, AppendProperties DEF Enter
<1>3. [c EXCEPT !.id = calls + 1, !.top = Len(starts')] \in Call
  <2>1. Len(starts') \in Nat
    BY <1>2, LenProperties
  <2> QED BY <1>1, <2>1 DEF Call, CallOn
<1>4. stacks[f] \in Seq(Call)
  BY DEF TypeOK
<1>5. Append(stacks[f], [c EXCEPT !.id = calls + 1, !.top = Len(starts')]) \in Seq(Call)
  BY <1>3, <1>4, AppendProperties
<1> QED BY <1>1, <1>2, <1>5 DEF Enter, TypeOK

(* Ending a call.                                                            *)
LEMMA LeaveType ==
  ASSUME TypeOK, NEW f \in Fibers, NEW kind, Leave(f, kind)
  PROVE  /\ stacks' \in [Fibers -> Seq(Call)]
         /\ Last(stacks[f]) \in Call
         /\ Last(stacks[f]).kind = kind
         /\ kind # "exec" => Last(stacks[f]).h \in Handles
<1>1. stacks[f] \in Seq(Call) /\ stacks[f] # <<>>
  BY DEF TypeOK, Leave
<1>2. Front(stacks[f]) \in Seq(Call) /\ Last(stacks[f]) \in Call
  BY <1>1, FrontProperties
<1>3. kind # "exec" => Last(stacks[f]).h \in Handles
  BY <1>2 DEF Leave, Call, CallOn
<1> QED BY <1>2, <1>3 DEF Leave, TypeOK

\* A call that binds nothing is a call.
LEMMA PlainType ==
  ASSUME NEW kind, NEW h,
         \/ kind = "exec" /\ h = NoHandle
         \/ kind \in {"query", "execute", "fetchAll"} /\ h \in Handles
  PROVE  Plain(kind, h) \in Call
<1>1. <<>> \in Seq(Bind)
  BY EmptySeq
<1> QED BY <1>1, UnboundType DEF Plain, Call, CallOn

\* A handle without a statement maps to one that holds nothing.
LEMMA NoStmtType == NoStmt \in Stmt
  BY UnboundType DEF NoStmt, Stmt

\* So does a handle whose statement is gone ..
LEMMA GoneType ==
  ASSUME TypeOK, NEW h \in Handles
  PROVE  Gone(h) \in Stmt
<1>1. (stmt[h].tidy /\ Spent(stmt[h])) \in BOOLEAN
  OBVIOUS
<1> QED BY <1>1, NoStmtType DEF Gone, Stmt

\* .. and a statement just prepared is a statement.
LEMMA NewStmtType ==
  ASSUME TypeOK, NEW h \in Handles, NEW sql \in {"read", "write", "opaque"}
  PROVE  NewStmt(h, sql) \in Stmt
<1>1. stmt[h].tidy \in BOOLEAN
  BY DEF TypeOK, Stmt
<1> QED BY <1>1, NoStmtType DEF NewStmt, Stmt

(* Giving a handle another statement.                                        *)
LEMMA StmtType ==
  ASSUME TypeOK, NEW h \in Handles, NEW s \in Stmt, stmt' = [stmt EXCEPT ![h] = s]
  PROVE  stmt' \in [Handles -> Stmt]
  BY DEF TypeOK

\* A statement with one more parameter bound is a statement.
LEMMA AssignedType ==
  ASSUME TypeOK, NEW s \in Stmt, NEW p \in Params, NEW tidy \in BOOLEAN
  PROVE  Assigned(s, p, tidy) \in Stmt
<1>1. nbinds + 1 \in Nat /\ s.bound \in [Params -> Nat]
  BY DEF TypeOK, Stmt
<1>2. [s.bound EXCEPT ![p] = nbinds + 1] \in [Params -> Nat]
  BY <1>1
<1> QED BY <1>2 DEF Assigned, Stmt

\* The initial state is well typed.
LEMMA InitType == Init => TypeOK
<1> SUFFICES ASSUME Init PROVE TypeOK
  OBVIOUS
<1>1. \A S : <<>> \in Seq(S)
  BY EmptySeq
<1>2. stmt \in [Handles -> Stmt]
  BY NoStmtType DEF Init
<1> QED BY <1>1, <1>2 DEF Init, TypeOK

(* The request callbacks keep the types.                                     *)
LEMMA RequestType == TypeOK /\ (Rinit \/ Rshutdown \/ Bailout) => TypeOK'
<1> SUFFICES ASSUME TypeOK, Rinit \/ Rshutdown \/ Bailout PROVE TypeOK'
  OBVIOUS
<1>e. \A S : <<>> \in Seq(S)
  BY EmptySeq
<1>1. CASE Rinit
  BY <1>1, <1>e DEF Rinit, Reset, TypeOK
<1>2. CASE RshutdownDrain
  BY <1>2 DEF RshutdownDrain, TypeOK
<1>3. ASSUME NEW q \in draining, FlushEmit(q) PROVE TypeOK'
  <2>1. q \in Query /\ q.fallback \in Nat
    BY DEF TypeOK, Query
  <2>2. frames' \in Seq(Frame)
    BY <1>3, <2>1, EmitType DEF FlushEmit
  <2> QED BY <1>3, <2>2 DEF FlushEmit, extension, TypeOK
<1>4. CASE RshutdownDone
  BY <1>4, NoStmtType DEF RshutdownDone, extension, TypeOK
<1>5. CASE Bailout
  <2>1. \A h \in Handles : \E t \in BOOLEAN :
           stmt'[h] = Gone(h) \/ stmt'[h] = [stmt[h] EXCEPT !.tidy = @ /\ t]
    BY <1>5 DEF Bailout
  <2>2. \A h \in Handles : stmt'[h] \in Stmt
    <3> SUFFICES ASSUME NEW h \in Handles PROVE stmt'[h] \in Stmt
      OBVIOUS
    <3>1. PICK t \in BOOLEAN :
             stmt'[h] = Gone(h) \/ stmt'[h] = [stmt[h] EXCEPT !.tidy = @ /\ t]
      BY <2>1
    <3>2. [stmt[h] EXCEPT !.tidy = @ /\ t] \in Stmt
      BY DEF TypeOK, Stmt
    <3> QED BY <3>1, <3>2, GoneType
  <2>3. stmt' \in [Handles -> Stmt]
    BY <1>5, <2>2 DEF Bailout
  <2> QED BY <1>5, <1>e, <2>3 DEF Bailout, extension, TypeOK
<1> QED BY <1>1, <1>2, <1>3, <1>4, <1>5 DEF Rshutdown

(* What the application does to its statements keeps the types.              *)
LEMMA StatementsType == TypeOK /\ Statements => TypeOK'
<1> SUFFICES ASSUME TypeOK, NEW h \in Handles,
                    \/ \E sql \in {"read", "write", "opaque"} : Prepare(h, sql)
                    \/ Free(h)
                    \/ \E p \in Params : AssignParam(h, p)
                    \/ \E p \in Params, ok \in BOOLEAN : BindValue(h, p, ok)
             PROVE  TypeOK'
  BY DEF Statements
<1>1. ASSUME NEW sql \in {"read", "write", "opaque"}, Prepare(h, sql) PROVE TypeOK'
  BY <1>1, NewStmtType DEF Prepare, extension, TypeOK
<1>2. CASE Free(h)
  BY <1>2, GoneType DEF Free, extension, TypeOK
<1>3. ASSUME NEW p \in Params, AssignParam(h, p) PROVE TypeOK'
  <2>1. nbinds' \in Nat
    BY <1>3 DEF AssignParam, TypeOK
  <2>2. stmt' \in [Handles -> Stmt]
    BY <1>3, AssignedType, StmtType DEF AssignParam, TypeOK
  <2> QED BY <1>3, <2>1, <2>2 DEF AssignParam, extension, TypeOK
<1>4. ASSUME NEW p \in Params, NEW ok \in BOOLEAN, BindValue(h, p, ok) PROVE TypeOK'
  <2>1. nbinds' \in Nat /\ nbinds + 1 \in Nat
    BY SMTT(30), <1>4 DEF BindValue, TypeOK
  <2>2. stmt' \in [Handles -> Stmt]
    <3>1. stmt[h] \in Stmt /\ stmt[h].tidy \in BOOLEAN
      BY DEF TypeOK, Stmt
    <3>2. [stmt[h] EXCEPT !.tidy = FALSE] \in Stmt
      BY <3>1 DEF Stmt
    <3>3. (stmt[h].tidy /\ (p \in Names \/ p = Rebound(stmt[h]) + 1)) \in BOOLEAN
      BY <3>1
    <3>4. Assigned(stmt[h], p, stmt[h].tidy /\ (p \in Names \/ p = Rebound(stmt[h]) + 1)) \in Stmt
      BY <3>1, <3>3, AssignedType
    <3> QED BY <1>4, <3>2, <3>4, StmtType DEF BindValue
  <2>3. binds' \in [Handles -> Seq(Bind)]
    <3>1. Append(binds[h], [key |-> KeyOf(p), n |-> nbinds + 1]) \in Seq(Bind)
      BY <2>1, KeyType, AppendProperties DEF TypeOK
    <3> QED BY <1>4, <3>1 DEF BindValue, TypeOK
  <2> QED BY <1>4, <2>1, <2>2, <2>3 DEF BindValue, TypeOK
<1> QED BY <1>1, <1>2, <1>3, <1>4

(* The values that a call brings with it are newer than any bound before.    *)
Newer(c) == \A k \in DOMAIN c.args : c.args[k].n > nbinds

(* Statements keep their SQL and their rows, whatever is bound to them.       *)
SameRows(h) == /\ stmt'[h].sql = stmt[h].sql /\ stmt'[h].unread = stmt[h].unread
               /\ stmt'[h].cursor = stmt[h].cursor

(* Which calls begin, and on what.                                           *)
Begins(c) ==
  \/ /\ c.kind = "exec" /\ c.h = NoHandle
     /\ \A g \in Handles : SameRows(g)
  \/ /\ c.kind = "query" /\ c.h \in Handles /\ ~Alive(c.h)
     /\ \E sql \in {"read", "write", "opaque"} : stmt' = [stmt EXCEPT ![c.h] = NewStmt(c.h, sql)]
  \/ /\ c.kind = "execute" /\ c.h \in Handles /\ Alive(c.h) /\ ~Busy(c.h)
     /\ "reexecute" \in AppMay \/ (~stmt[c.h].unread /\ ~Held(c.h))
     /\ \A g \in Handles : SameRows(g)
  \/ /\ c.kind = "fetchAll" /\ c.h \in Handles /\ Alive(c.h) /\ ~Busy(c.h)
     /\ c.of = stmt[c.h].cursor \/ stmt[c.h].cursor = 0
     /\ \A g \in Handles : SameRows(g)

(* So do the beginnings ..                                                   *)
LEMMA BeginType ==
  ASSUME TypeOK, NEW f \in Fibers, Begin(f)
  PROVE  /\ TypeOK'
         /\ \E d \in Call : Enter(f, d) /\ Newer(d) /\ Begins(d)
         /\ nbinds <= nbinds'
<1> DEFINE Goal == TypeOK' /\ (\E d \in Call : Enter(f, d) /\ Newer(d) /\ Begins(d))
                  /\ nbinds <= nbinds'
<1>e. <<>> \in Seq(Bind) /\ DOMAIN <<>> = {}
  BY EmptySeq
<1>b. nbinds <= nbinds
  BY DEF TypeOK
<1>t. ASSUME NEW c \in Call, Enter(f, c), stmt' \in [Handles -> Stmt], nbinds' \in Nat,
             nbinds <= nbinds', c.args = <<>> \/ Newer(c), Begins(c)
      PROVE  Goal
  BY <1>e, <1>t, EnterType DEF Enter, Newer, TypeOK
<1> HIDE DEF Goal
<1>1. ASSUME BeginExec(f) PROVE Goal
  <2>1. Enter(f, Plain("exec", NoHandle)) /\ UNCHANGED <<stmt, nbinds>>
    BY <1>1 DEF BeginExec
  <2> DEFINE c == Plain("exec", NoHandle)
  <2>2. c \in Call /\ c.args = <<>> /\ c.kind = "exec" /\ c.h = NoHandle
    BY PlainType DEF Plain
  <2> HIDE DEF c
  <2>3. Begins(c)
    BY <2>1, <2>2 DEF Begins, SameRows
  <2> QED BY <1>b, <1>t, <2>1, <2>2, <2>3 DEF c, TypeOK
<1>2. ASSUME NEW h \in Handles, NEW sql \in {"read", "write", "opaque"}, BeginQuery(f, h, sql)
      PROVE  Goal
  <2>1. Enter(f, Plain("query", h)) /\ nbinds' = nbinds
    BY <1>2 DEF BeginQuery
  <2> DEFINE c == Plain("query", h)
  <2>2. c \in Call /\ c.args = <<>> /\ c.kind = "query" /\ c.h = h
    BY PlainType DEF Plain
  <2>3. stmt' \in [Handles -> Stmt]
    BY <1>2, NewStmtType, StmtType DEF BeginQuery
  <2> HIDE DEF c
  <2>4. Begins(c)
    BY <1>2, <2>2 DEF Begins, BeginQuery
  <2> QED BY <1>b, <1>t, <2>1, <2>2, <2>3, <2>4 DEF c, TypeOK
<1>3. ASSUME NEW h \in Handles, BeginExecute(f, h) PROVE Goal
  <2> DEFINE tidy == stmt[h].tidy /\ \A p \in Params : stmt[h].bound[p] # 0
                                                  => stmt[h].bound[p] > stmt[h].since
             c == [Plain("execute", h) EXCEPT !.used = stmt[h].bound, !.tidy = tidy]
  <2>1. stmt[h].bound \in [Params -> Nat] /\ stmt[h].tidy \in BOOLEAN
    BY DEF TypeOK, Stmt
  <2>2. tidy \in BOOLEAN
    BY <2>1
  <2>3. c \in Call /\ c.args = <<>> /\ c.kind = "execute" /\ c.h = h
    <3> HIDE DEF tidy
    <3> QED BY <1>e, <2>1, <2>2, UnboundType DEF Plain, Call, CallOn
  <2>4. stmt' \in [Handles -> Stmt]
    BY ZenonT(60), <1>3 DEF BeginExecute, TypeOK, Stmt
  <2>5. Enter(f, c)
    BY <1>3 DEF BeginExecute
  <2>6. nbinds' \in Nat /\ nbinds <= nbinds'
    BY <1>b, <1>3 DEF BeginExecute, TypeOK
  <2> HIDE DEF c
  <2>7. \A g \in Handles : SameRows(g)
    BY <1>3 DEF BeginExecute, SameRows, TypeOK, Stmt
  <2>8. Begins(c)
    BY <1>3, <2>3, <2>7 DEF Begins, BeginExecute
  <2> QED BY <1>t, <2>3, <2>4, <2>5, <2>6, <2>8
<1>4. ASSUME NEW h \in Handles, NEW ps \in ArrayKeys, BeginExecuteWith(f, h, ps)
      PROVE  Goal
  <2> DEFINE value(p) == IF \E i \in DOMAIN ps : ps[i] = p
                         THEN nbinds + (CHOOSE i \in DOMAIN ps : ps[i] = p) ELSE 0
             bound == [p \in Params |-> value(p)]
             taken == IF Len(ps) <= ArrayCap THEN Len(ps) ELSE ArrayCap
             args  == [i \in 1..taken |-> [key |-> KeyOf(ps[i]), n |-> nbinds + i]]
             tidy  == InOrder(ps) /\ Len(ps) <= ArrayCap
             c == [Plain("execute", h) EXCEPT !.given = TRUE, !.used = bound,
                     !.tidy = tidy, !.args = args]
  <2>1. ps \in Seq(Params) /\ Len(ps) \in Nat /\ DOMAIN ps = 1..Len(ps)
    BY SeqDef, LenProperties DEF ArrayKeys
  <2>14. taken \in Nat /\ taken <= Len(ps)
    BY <2>1, QueriesAssumption
  <2>2. bound \in [Params -> Nat]
    <3> SUFFICES ASSUME NEW p \in Params PROVE value(p) \in Nat
      OBVIOUS
    <3> DEFINE k == CHOOSE i \in DOMAIN ps : ps[i] = p
    <3>1. CASE \E i \in DOMAIN ps : ps[i] = p
      <4>1. k \in DOMAIN ps
        BY <3>1
      <4>2. nbinds \in Nat /\ k \in Nat
        BY <2>1, <4>1 DEF TypeOK
      <4> HIDE DEF k
      <4>3. nbinds + k \in Nat
        BY <4>2
      <4> QED BY <3>1, <4>3 DEF k
    <3>2. CASE ~ \E i \in DOMAIN ps : ps[i] = p
      BY <3>2
    <3> QED BY <3>1, <3>2
  <2>3. args \in Seq(Bind)
    <3>1. \A i \in 1..taken : [key |-> KeyOf(ps[i]), n |-> nbinds + i] \in Bind
      BY <2>1, <2>14, KeyType DEF TypeOK
    <3>2. args \in [1..taken -> Bind]
      BY <3>1
    <3> HIDE DEF taken, args
    <3> QED BY ZenonT(60), <2>14, <3>2, SeqDef
  <2>4. tidy \in BOOLEAN
    BY DEF InOrder
  <2>5. Enter(f, c)
    BY <1>4 DEF BeginExecuteWith
  <2>6. nbinds' \in Nat /\ nbinds' = nbinds + Len(ps)
    BY SMTT(30), <1>4, <2>1 DEF BeginExecuteWith, TypeOK
  <2>7. stmt' = [stmt EXCEPT ![h] = [@ EXCEPT
                  !.since = nbinds + Len(ps), !.tidy = TRUE, !.bound = bound]]
    BY <1>4 DEF BeginExecuteWith
  <2>10. \A k \in DOMAIN args : args[k].n > nbinds
    BY <2>14 DEF TypeOK
  <2>11. nbinds <= nbinds'
    BY <2>1, <2>6 DEF TypeOK
  <2> HIDE DEF bound, args, tidy
  <2>8. c \in Call /\ c.args = args /\ c.kind = "execute" /\ c.h = h
    BY <1>e, <2>2, <2>3, <2>4, UnboundType DEF Plain, Call, CallOn
  <2>9. stmt' \in [Handles -> Stmt]
    BY ZenonT(60), <2>2, <2>6, <2>7 DEF TypeOK, Stmt
  <2> HIDE DEF c
  <2>12. \A g \in Handles : SameRows(g)
    BY <2>7 DEF SameRows, TypeOK, Stmt
  <2>13. Begins(c)
    BY <1>4, <2>8, <2>12 DEF Begins, BeginExecuteWith
  <2> QED BY <1>t, <2>5, <2>6, <2>8, <2>9, <2>10, <2>11, <2>13 DEF Newer
<1>5. ASSUME NEW h \in Handles, BeginFetchAll(f, h) PROVE Goal
  <2> DEFINE c == [Plain("fetchAll", h) EXCEPT
                     !.of = IF stmt[h].cursor = 0 THEN calls + 1 ELSE stmt[h].cursor]
  <2> DEFINE of == IF stmt[h].cursor = 0 THEN calls + 1 ELSE stmt[h].cursor
  <2>o. of \in Nat
    BY DEF TypeOK, Stmt
  <2> HIDE DEF of
  <2>1. /\ [Plain("fetchAll", h) EXCEPT !.of = of] \in Call
        /\ [Plain("fetchAll", h) EXCEPT !.of = of].args = <<>>
        /\ [Plain("fetchAll", h) EXCEPT !.of = of].kind = "fetchAll"
        /\ [Plain("fetchAll", h) EXCEPT !.of = of].h = h
        /\ [Plain("fetchAll", h) EXCEPT !.of = of].of = of
    BY <1>e, <2>o, UnboundType DEF Plain, Call, CallOn
  <2>2. Enter(f, c) /\ stmt' = stmt /\ nbinds' = nbinds
    BY <1>5 DEF BeginFetchAll
  <2>3. /\ c \in Call /\ c.args = <<>> /\ c.kind = "fetchAll" /\ c.h = h
        /\ c.of = stmt[h].cursor \/ stmt[h].cursor = 0
    BY <2>1 DEF of
  <2> HIDE DEF c
  <2>4. Begins(c)
    BY <1>5, <2>2, <2>3 DEF Begins, BeginFetchAll, SameRows
  <2> QED BY <1>b, <1>t, <2>2, <2>3, <2>4 DEF TypeOK
<1> QED BY <1>1, <1>2, <1>3, <1>4, <1>5 DEF Begin, Goal

(* .. and the endings of calls.                                              *)
LEMMA EndType == ASSUME TypeOK, NEW f \in Fibers, End(f) PROVE TypeOK'
<1> DEFINE c == Last(stacks[f])
<1>e. <<>> \in Seq(Bind)
  BY EmptySeq
<1>k. ASSUME NEW kind, Leave(f, kind)
      PROVE  /\ c \in Call /\ c.kind = kind /\ c.id \in Nat /\ c.of \in Nat
             /\ c.args \in Seq(Bind) /\ c.h \in Handles \cup {NoHandle}
             /\ c.given \in BOOLEAN /\ (kind # "exec" => c.h \in Handles)
             /\ stacks' \in [Fibers -> Seq(Call)]
  BY SMTT(30), <1>k, LeaveType DEF c, Call, CallOn
<1> HIDE DEF c
<1>t. ASSUME NEW kind, Leave(f, kind), starts' \in Seq(Nat),
             binds' \in [Handles -> Seq(Bind)],
             pending' \in [Handles -> Query \cup {NoQuery}],
             frames' \in Seq(Frame), stmt' \in [Handles -> Stmt], ran' \in Seq(Ran)
      PROVE  TypeOK'
  <2>1. stacks' \in [Fibers -> Seq(Call)]
    BY <1>t, <1>k
  <2> QED BY <1>t, <2>1 DEF Leave, TypeOK
<1>1. ASSUME NEW ok \in BOOLEAN, EndExec(f, ok) PROVE TypeOK'
  <2>1. Leave(f, "exec") /\ UNCHANGED <<binds, pending, stmt>>
    BY <1>1 DEF EndExec
  <2>2. CASE ~on
    BY <1>1, <1>t, <2>1, <2>2 DEF EndExec, TypeOK
  <2>3. CASE on
    <3>1. /\ PopStart /\ Emit(Stamped(c.id, <<>>, 0), IF ok THEN c.id ELSE 0)
          /\ Record(c, NoHandle, FALSE, ok)
      BY <1>1, <2>3 DEF EndExec, c
    <3>2. Stamped(c.id, <<>>, 0) \in Query
      BY <1>e, <1>k, <2>1, StampedType
    <3>3. frames' \in Seq(Frame)
      BY <1>k, <2>1, <3>1, <3>2, EmitType
    <3>4. ran' \in Seq(Ran)
      BY <1>k, <2>1, <3>1, RecordType
    <3> QED BY <1>t, <2>1, <3>1, <3>3, <3>4, PopType DEF TypeOK
  <2> QED BY <2>2, <2>3 DEF TypeOK
<1>2. ASSUME NEW counted \in BOOLEAN, EndQuery(f, counted) PROVE TypeOK'
  <2>1. Leave(f, "query") /\ UNCHANGED <<binds, frames>>
    BY <1>2 DEF EndQuery
  <2>2. stmt' \in [Handles -> Stmt]
    <3>1. stmt' = [stmt EXCEPT ![c.h] = [@ EXCEPT !.cursor = c.id, !.unread = TRUE]]
      BY <1>2 DEF EndQuery, c
    <3>2. stmt[c.h] \in Stmt /\ c.id \in Nat
      BY <1>k, <2>1 DEF TypeOK
    <3>3. [stmt[c.h] EXCEPT !.cursor = c.id, !.unread = TRUE] \in Stmt
      BY <3>2 DEF Stmt
    <3> QED BY <1>k, <2>1, <3>1, <3>3, StmtType
  <2>3. CASE ~on
    BY <1>2, <1>t, <2>1, <2>2, <2>3 DEF EndQuery, TypeOK
  <2>4. CASE on
    <3>1. /\ PopStart /\ Defer(c.h, Stamped(c.id, <<>>, IF counted THEN c.id ELSE 0))
          /\ Record(c, c.h, TRUE, TRUE)
      BY <1>2, <2>4 DEF EndQuery, c
    <3>2. Stamped(c.id, <<>>, IF counted THEN c.id ELSE 0) \in Query
      BY <1>e, <1>k, <2>1, StampedType
    <3>3. pending' \in [Handles -> Query \cup {NoQuery}]
      BY <3>1, <3>2 DEF Defer, TypeOK
    <3>4. ran' \in Seq(Ran)
      BY <1>k, <2>1, <3>1, RecordType
    <3> QED BY <1>t, <2>1, <2>2, <3>1, <3>3, <3>4, PopType DEF TypeOK
  <2> QED BY <2>3, <2>4 DEF TypeOK
<1>3. CASE EndQueryFailed(f)
  <2>1. Leave(f, "query") /\ UNCHANGED <<binds, pending>>
    BY <1>3 DEF EndQueryFailed
  <2>2. stmt' \in [Handles -> Stmt]
    <3>1. c.h \in Handles /\ Gone(c.h) \in Stmt
      BY <1>k, <2>1, GoneType
    <3>2. stmt' = [stmt EXCEPT ![c.h] = Gone(c.h)]
      BY <1>3 DEF EndQueryFailed, c
    <3> QED BY <3>1, <3>2, StmtType
  <2>3. CASE ~on
    BY <1>3, <1>t, <2>1, <2>2, <2>3 DEF EndQueryFailed, TypeOK
  <2>4. CASE on
    <3>1. /\ PopStart /\ Emit(Stamped(c.id, <<>>, 0), 0)
          /\ Record(c, NoHandle, FALSE, FALSE)
      BY <1>3, <2>4 DEF EndQueryFailed, c
    <3>2. Stamped(c.id, <<>>, 0) \in Query
      BY <1>e, <1>k, <2>1, StampedType
    <3>3. frames' \in Seq(Frame)
      BY <3>1, <3>2, EmitType
    <3>4. ran' \in Seq(Ran)
      BY <1>k, <2>1, <3>1, RecordType
    <3> QED BY <1>t, <2>1, <2>2, <3>1, <3>3, <3>4, PopType DEF TypeOK
  <2> QED BY <2>3, <2>4 DEF TypeOK
<1>4. ASSUME NEW ok \in BOOLEAN, EndNoSql(f, ok) PROVE TypeOK'
  <2>1. UNCHANGED <<binds, pending, frames, ran>>
    BY <1>4 DEF EndNoSql, NoSql
  <2>3. starts' \in Seq(Nat)
    BY <1>4, PopType DEF EndNoSql, TypeOK
  <2>4. CASE Leave(f, "exec") /\ UNCHANGED stmt
    BY <1>t, <2>1, <2>3, <2>4 DEF TypeOK
  <2>5. CASE /\ Leave(f, "query")
             /\ stmt' = [stmt EXCEPT ![c.h] = IF ok THEN [@ EXCEPT !.cursor = c.id] ELSE Gone(c.h)]
    <3>1. c.h \in Handles /\ c.id \in Nat
      BY <1>k, <2>5
    <3>2. [stmt[c.h] EXCEPT !.cursor = c.id] \in Stmt
      <4>1. stmt[c.h] \in Stmt
        BY <3>1 DEF TypeOK
      <4>2. \A s \in Stmt : \A n \in Nat : [s EXCEPT !.cursor = n] \in Stmt
        BY DEF Stmt
      <4> QED BY <3>1, <4>1, <4>2
    <3>3. stmt' \in [Handles -> Stmt]
      BY <2>5, <3>1, <3>2, GoneType, StmtType
    <3> QED BY <1>t, <2>1, <2>3, <2>5, <3>3 DEF TypeOK
  <2> QED BY <1>4, <2>4, <2>5 DEF EndNoSql, NoSql, c
<1>5. ASSUME NEW ok \in BOOLEAN, NEW counted \in BOOLEAN, EndExecute(f, ok, counted)
      PROVE  TypeOK'
  <2> DEFINE h      == c.h
             shown  == IF c.given THEN c.args ELSE binds[h]
             cursor == IF ok THEN c.id ELSE stmt[h].cursor
             rows   == IF counted THEN cursor ELSE 0
             unread == ok /\ stmt[h].sql = "read"
  <2>1. /\ Leave(f, "execute")
        /\ stmt' = [stmt EXCEPT ![h] = [@ EXCEPT !.cursor = cursor, !.unread = unread]]
    BY <1>5 DEF EndExecute, ClearBinds, c
  <2>2. \/ /\ on /\ PopStart /\ binds' = [binds EXCEPT ![h] = <<>>]
           /\ \/ UNCHANGED <<pending, frames, ran>>
              \/ /\ Defer(h, Stamped(c.id, shown, rows))
                 /\ Record(c, h, TRUE, ok)
                 /\ UNCHANGED frames
              \/ /\ Emit(Stamped(c.id, shown, 0), rows)
                 /\ Record(c, h, FALSE, ok)
                 /\ UNCHANGED pending
        \/ UNCHANGED <<starts, binds, pending, frames, ran>>
    BY <1>5 DEF EndExecute, ClearBinds, c
  <2>3. h \in Handles
    BY <1>k, <2>1
  <2>4. cursor \in Nat /\ unread \in BOOLEAN
    BY <1>k, <2>1, <2>3 DEF TypeOK, Stmt
  <2>5. stmt' \in [Handles -> Stmt]
    <3>1. [stmt[h] EXCEPT !.cursor = cursor, !.unread = unread] \in Stmt
      <4> HIDE DEF cursor, unread, h
      <4> QED BY ZenonT(60), <2>3, <2>4 DEF TypeOK, Stmt
    <3> QED BY <2>1, <2>3, <3>1, StmtType
  <2>6. shown \in Seq(Bind) /\ rows \in Nat
    BY <1>k, <2>1, <2>3, <2>4 DEF TypeOK
  <2> HIDE DEF shown, cursor, unread, rows
  <2>7. Stamped(c.id, shown, rows) \in Query /\ Stamped(c.id, shown, 0) \in Query
    BY <1>k, <2>1, <2>6, StampedType
  <2>8. starts' \in Seq(Nat)
    BY <2>2, PopType DEF TypeOK
  <2>9. binds' \in [Handles -> Seq(Bind)]
    BY <1>e, <2>2, <2>3 DEF TypeOK
  <2>10. pending' \in [Handles -> Query \cup {NoQuery}]
    BY <2>2, <2>3, <2>7, DeferType DEF TypeOK
  <2>11. frames' \in Seq(Frame)
    BY <2>2, <2>6, <2>7, EmitType DEF TypeOK
  <2>12. ran' \in Seq(Ran)
    <3>1. ASSUME NEW d \in BOOLEAN, Record(c, h, d, ok) PROVE ran' \in Seq(Ran)
      BY <1>k, <2>1, <2>3, <3>1, RecordType
    <3> QED BY <2>2, <3>1 DEF TypeOK
  <2> QED BY <1>t, <2>1, <2>5, <2>8, <2>9, <2>10, <2>11, <2>12
<1>6. ASSUME NEW ok \in BOOLEAN, EndFetchAll(f, ok) PROVE TypeOK'
  <2> DEFINE q == pending[c.h]
  <2>1. /\ Leave(f, "fetchAll") /\ UNCHANGED <<starts, binds, ran>>
        /\ stmt' = [stmt EXCEPT ![c.h] = [@ EXCEPT !.unread = FALSE]]
        /\ \/ /\ q # NoQuery /\ pending' = [pending EXCEPT ![c.h] = NoQuery]
              /\ Emit(q, IF ok THEN c.of ELSE q.fallback)
           \/ UNCHANGED <<pending, frames>>
    BY <1>6 DEF EndFetchAll, DeferredOf, Undefer, c
  <2>2. stmt' \in [Handles -> Stmt]
    BY ZenonT(60), <2>1 DEF TypeOK, Stmt
  <2>3. pending' \in [Handles -> Query \cup {NoQuery}]
    BY <2>1 DEF TypeOK
  <2>4. frames' \in Seq(Frame)
    <3>1. CASE UNCHANGED frames
      BY <3>1 DEF TypeOK
    <3>2. CASE q # NoQuery /\ Emit(q, IF ok THEN c.of ELSE q.fallback)
      <4>1. q \in Query /\ q.fallback \in Nat /\ c.of \in Nat
        BY <1>k, <2>1, <3>2 DEF TypeOK, Query
      <4> QED BY <3>2, <4>1, EmitType
    <3> QED BY <2>1, <3>1, <3>2
  <2> QED BY <1>t, <2>1, <2>2, <2>3, <2>4 DEF TypeOK
<1> QED BY <1>1, <1>2, <1>3, <1>4, <1>5, <1>6 DEF End

(* TypeOK is preserved by every step.                                        *)
LEMMA NextType == TypeOK /\ [Next]_vars => TypeOK'
<1> SUFFICES ASSUME TypeOK, [Next]_vars PROVE TypeOK'
  OBVIOUS
<1>1. CASE UNCHANGED vars
  BY <1>1 DEF vars, extension, TypeOK
<1> QED BY <1>1, RequestType, StatementsType, BeginType, EndType DEF Next

(* The state of the observer keeps its types, whatever calls the application *)
(* makes and however they end (queries.rs, observer.rs).                     *)
THEOREM TypeCorrect == Spec => []TypeOK
<1> QED BY InitType, NextType, PTL DEF Spec

-----------------------------------------------------------------------------
(* Where the queries the observer knows of come from.                        *)

\* A frame handed over tells its own query, and no other is new.
LEMMA EmitKnown ==
  ASSUME TypeOK, NEW q \in Query, NEW r \in Nat, Emit(q, r)
  PROVE  Told' \subseteq Told \cup {q}
<1> DEFINE x == [q |-> q, rows |-> r]
<1>1. x \in Frame /\ x.q = q
  BY DEF Frame
<1> HIDE DEF x
<1>2. CASE frames' = frames
  BY <1>2 DEF Told, FrameSet
<1>3. CASE frames' = Append(frames, x)
  <2>1. /\ Len(frames) \in Nat /\ DOMAIN frames = 1..Len(frames)
        /\ DOMAIN frames' = 1..(Len(frames) + 1)
        /\ \A i \in 1..Len(frames) : frames'[i] = frames[i]
        /\ frames'[Len(frames) + 1] = x
    BY <1>1, <1>3, AppendProperties, LenProperties DEF TypeOK
  <2>2. FrameSet' \subseteq FrameSet \cup {x}
    BY <2>1 DEF FrameSet
  <2> QED BY <1>1, <2>2 DEF Told
<1> QED BY <1>2, <1>3 DEF Emit, x

\* Deferring a query adds that query to the waiting ones, and no other.
LEMMA DeferKnown ==
  ASSUME TypeOK, NEW h \in Handles, NEW q, Defer(h, q), draining' = draining
  PROVE  Waiting' \subseteq Waiting \cup {q}
  BY DEF Defer, Waiting, TypeOK

(* The innermost call of the fiber f is a timed call that ends, observed.    *)
Ending(f) == /\ f \in Fibers /\ on /\ PopStart
             /\ stacks[f] # <<>> /\ Timed(Last(stacks[f]))
             /\ stacks' = [stacks EXCEPT ![f] = Front(@)]

(* The binds that the query of a call is made with.                          *)
ShownOf(c) == IF c.kind # "execute" THEN <<>> ELSE IF c.given THEN c.args ELSE binds[c.h]

(* A query new to the observer is that of the call that ends.                *)
NewOf(f, q) ==
  LET c == Last(stacks[f])
  IN \E bs \in Seq(Bind), fb \in Nat :
       /\ q = Stamped(c.id, bs, fb)
       /\ bs = <<>> \/ bs = c.args \/ (c.h \in Handles /\ bs = binds[c.h])
       /\ bs = ShownOf(c)

\* A query known after an end was known before, or is that of the ended call.
LEMMA EndKnown ==
  ASSUME TypeOK, NEW f \in Fibers, End(f), NEW q \in Known'
  PROVE  q \in Known \/ (Ending(f) /\ NewOf(f, q))
<1> DEFINE c == Last(stacks[f])
<1>e. <<>> \in Seq(Bind)
  BY EmptySeq
<1>k. ASSUME NEW kind, Leave(f, kind)
      PROVE  /\ c \in Call /\ c.kind = kind /\ c.id \in Nat /\ c.of \in Nat
             /\ c.args \in Seq(Bind) /\ (kind # "exec" => c.h \in Handles)
             /\ draining' = draining
             /\ (on /\ PopStart /\ kind # "fetchAll" => Ending(f))
  <2>1. /\ c \in Call /\ c.kind = kind /\ (kind # "exec" => c.h \in Handles)
    BY <1>k, LeaveType
  <2> HIDE DEF c
  <2>2. c.id \in Nat /\ c.of \in Nat /\ c.args \in Seq(Bind)
    BY <2>1 DEF Call, CallOn
  <2>3. on /\ PopStart /\ kind # "fetchAll" => Ending(f)
    BY <1>k, <2>1 DEF Ending, Leave, Timed, c
  <2> QED BY <1>k, <2>1, <2>2, <2>3 DEF Leave
<1>w. ASSUME NEW kind, Leave(f, kind)
      PROVE  /\ kind # "execute" => <<>> = ShownOf(c)
             /\ kind = "execute" => (IF c.given THEN c.args ELSE binds[c.h]) = ShownOf(c)
  BY <1>k, <1>w DEF ShownOf
<1>n. ASSUME NEW bs \in Seq(Bind), NEW fb \in Nat, q = Stamped(c.id, bs, fb), bs = ShownOf(c),
             bs = <<>> \/ bs = c.args \/ (c.h \in Handles /\ bs = binds[c.h])
      PROVE  NewOf(f, q)
  BY <1>n DEF NewOf
<1> HIDE DEF c
<1>u. ASSUME frames' = frames, pending' = pending, draining' = draining PROVE q \in Known
  BY <1>u DEF Known, Waiting, Told, FrameSet
<1>m. ASSUME NEW kind, Leave(f, kind), kind # "fetchAll", on, PopStart,
             NEW bs \in Seq(Bind), NEW fb \in Nat, NEW r \in Nat,
             bs = <<>> \/ bs = c.args \/ (c.h \in Handles /\ bs = binds[c.h]),
             bs = ShownOf(c),
             \/ Emit(Stamped(c.id, bs, fb), r) /\ pending' = pending
             \/ c.h \in Handles /\ Defer(c.h, Stamped(c.id, bs, fb)) /\ frames' = frames
      PROVE  q \in Known \/ (Ending(f) /\ NewOf(f, q))
  <2> DEFINE s == Stamped(c.id, bs, fb)
  <2>1. s \in Query
    BY <1>k, <1>m, StampedType
  <2>2. Ending(f) /\ draining' = draining
    BY <1>k, <1>m
  <2>3. q = s => NewOf(f, q)
    BY <1>m, <1>n
  <2> HIDE DEF s
  <2>4. CASE Emit(s, r) /\ pending' = pending
    <3>1. Told' \subseteq Told \cup {s}
      BY <1>m, <2>1, <2>4, EmitKnown
    <3>2. Waiting' = Waiting
      BY <2>2, <2>4 DEF Waiting
    <3> QED BY <2>2, <2>3, <3>1, <3>2 DEF Known
  <2>5. CASE c.h \in Handles /\ Defer(c.h, s) /\ frames' = frames
    <3>1. Waiting' \subseteq Waiting \cup {s}
      BY <2>2, <2>5, DeferKnown
    <3>2. Told' = Told
      BY <2>5 DEF Told, FrameSet
    <3> QED BY <2>2, <2>3, <3>1, <3>2 DEF Known
  <2> QED BY <1>m, <2>4, <2>5 DEF s
<1>1. ASSUME NEW ok \in BOOLEAN, EndExec(f, ok) PROVE q \in Known \/ (Ending(f) /\ NewOf(f, q))
  <2>1. Leave(f, "exec") /\ pending' = pending
    BY <1>1 DEF EndExec
  <2>2. CASE frames' = frames
    BY <1>k, <1>u, <2>1, <2>2
  <2>3. CASE on /\ PopStart /\ Emit(Stamped(c.id, <<>>, 0), IF ok THEN c.id ELSE 0)
    <3>1. (IF ok THEN c.id ELSE 0) \in Nat
      BY <1>k, <2>1
    <3>2. <<>> = ShownOf(c)
      BY <1>w, <2>1
    <3> QED BY <1>e, <1>m, <2>1, <2>3, <3>1, <3>2
  <2> QED BY <1>1, <2>2, <2>3 DEF EndExec, c
<1>2. ASSUME NEW counted \in BOOLEAN, EndQuery(f, counted)
      PROVE  q \in Known \/ (Ending(f) /\ NewOf(f, q))
  <2>1. Leave(f, "query") /\ frames' = frames
    BY <1>2 DEF EndQuery
  <2>2. CASE pending' = pending
    BY <1>k, <1>u, <2>1, <2>2
  <2>3. CASE on /\ PopStart /\ Defer(c.h, Stamped(c.id, <<>>, IF counted THEN c.id ELSE 0))
    <3>1. (IF counted THEN c.id ELSE 0) \in Nat /\ c.h \in Handles
      BY <1>k, <2>1
    <3>2. <<>> = ShownOf(c)
      BY <1>w, <2>1
    <3> QED BY <1>e, <1>m, <2>1, <2>3, <3>1, <3>2
  <2> QED BY <1>2, <2>2, <2>3 DEF EndQuery, c
<1>3. CASE EndQueryFailed(f)
  <2>1. Leave(f, "query") /\ pending' = pending
    BY <1>3 DEF EndQueryFailed
  <2>2. CASE frames' = frames
    BY <1>k, <1>u, <2>1, <2>2
  <2>3. CASE on /\ PopStart /\ Emit(Stamped(c.id, <<>>, 0), 0)
    <3>1. <<>> = ShownOf(c)
      BY <1>w, <2>1
    <3> QED BY <1>e, <1>m, <2>1, <2>3, <3>1
  <2> QED BY <1>3, <2>2, <2>3 DEF EndQueryFailed, c
<1>4. ASSUME NEW ok \in BOOLEAN, EndNoSql(f, ok) PROVE q \in Known
  BY <1>4, <1>u DEF EndNoSql, NoSql, Leave
<1>5. ASSUME NEW ok \in BOOLEAN, NEW counted \in BOOLEAN, EndExecute(f, ok, counted)
      PROVE  q \in Known \/ (Ending(f) /\ NewOf(f, q))
  <2> DEFINE shown == IF c.given THEN c.args ELSE binds[c.h]
             rows == IF counted THEN IF ok THEN c.id ELSE stmt[c.h].cursor ELSE 0
  <2>1. Leave(f, "execute")
    BY <1>5 DEF EndExecute
  <2>2. \/ pending' = pending /\ frames' = frames
        \/ on /\ PopStart /\ Defer(c.h, Stamped(c.id, shown, rows)) /\ frames' = frames
        \/ on /\ PopStart /\ Emit(Stamped(c.id, shown, 0), rows) /\ pending' = pending
    BY <1>5 DEF EndExecute, ClearBinds, c
  <2>3. c.h \in Handles
    BY <1>k, <2>1
  <2>4. rows \in Nat /\ shown \in Seq(Bind)
    BY <1>k, <2>1, <2>3 DEF TypeOK, Stmt
  <2>5. /\ shown = c.args \/ (c.h \in Handles /\ shown = binds[c.h])
        /\ shown = ShownOf(c)
    BY <1>w, <2>1, <2>3
  <2> HIDE DEF shown, rows
  <2>6. CASE pending' = pending /\ frames' = frames
    BY <1>k, <1>u, <2>1, <2>6
  <2>7. CASE on /\ PopStart /\ Defer(c.h, Stamped(c.id, shown, rows)) /\ frames' = frames
    BY <1>m, <2>1, <2>3, <2>4, <2>5, <2>7
  <2>8. CASE on /\ PopStart /\ Emit(Stamped(c.id, shown, 0), rows) /\ pending' = pending
    BY <1>m, <2>1, <2>4, <2>5, <2>8
  <2> QED BY <2>2, <2>6, <2>7, <2>8
<1>6. ASSUME NEW ok \in BOOLEAN, EndFetchAll(f, ok) PROVE q \in Known
  <2> DEFINE p == pending[c.h]
             r == IF ok THEN c.of ELSE p.fallback
  <2>1. Leave(f, "fetchAll")
    BY <1>6 DEF EndFetchAll
  <2>2. c.h \in Handles /\ c.of \in Nat /\ draining' = draining
    BY <1>k, <2>1
  <2>3. CASE pending' = pending /\ frames' = frames
    BY <1>u, <2>2, <2>3
  <2>4. CASE p # NoQuery /\ pending' = [pending EXCEPT ![c.h] = NoQuery] /\ Emit(p, r)
    <3>1. p \in Query /\ p \in Waiting /\ p.fallback \in Nat
      BY <2>2, <2>4 DEF TypeOK, Waiting, Query
    <3>2. Told' \subseteq Told \cup {p}
      BY <2>2, <2>4, <3>1, EmitKnown
    <3>3. Waiting' \subseteq Waiting
      BY <2>2, <2>4 DEF Waiting, TypeOK
    <3> QED BY <3>1, <3>2, <3>3 DEF Known
  <2> QED BY <1>6, <2>3, <2>4 DEF EndFetchAll, DeferredOf, Undefer, c
<1> QED BY <1>1, <1>2, <1>3, <1>4, <1>5, <1>6 DEF End

\* So it is after any step: queries come into being only when a call ends.
LEMMA NewKnown ==
  ASSUME TypeOK, [Next]_vars, NEW q \in Known'
  PROVE  q \in Known \/ \E f \in Fibers : Ending(f) /\ NewOf(f, q)
<1>u. ASSUME Told' \subseteq Told \cup Waiting, Waiting' \subseteq Waiting PROVE q \in Known
  BY <1>u DEF Known
<1>f. frames' = frames => Told' = Told
  BY DEF Told, FrameSet
<1>p. pending' = pending /\ draining' = draining => Waiting' = Waiting
  BY DEF Waiting
<1>1. CASE UNCHANGED vars
  BY <1>1, <1>u, <1>f, <1>p DEF vars, extension
<1>2. CASE Rinit
  BY <1>2, <1>u DEF Rinit, Reset, Told, FrameSet, Waiting
<1>3. CASE Statements
  BY <1>3, <1>u, <1>f, <1>p DEF Statements, Prepare, Free, AssignParam, BindValue, extension
<1>4. ASSUME NEW f \in Fibers, Begin(f) PROVE q \in Known
  BY ZenonT(60), <1>4, <1>u, <1>f, <1>p DEF Begin, BeginExec, BeginQuery, BeginExecute, BeginExecuteWith,
                               BeginFetchAll, Enter
<1>5. ASSUME NEW f \in Fibers, End(f) PROVE q \in Known \/ (Ending(f) /\ NewOf(f, q))
  BY <1>5, EndKnown
<1>6. CASE Bailout
  BY <1>6, <1>u, <1>f, <1>p DEF Bailout, extension
<1>7. CASE RshutdownDrain
  BY <1>7, <1>u, <1>f DEF RshutdownDrain, Waiting
<1>8. ASSUME NEW p \in draining, FlushEmit(p) PROVE q \in Known
  <2>1. p \in Query /\ p.fallback \in Nat /\ p \in Waiting
    BY DEF TypeOK, Query, Waiting
  <2>2. Told' \subseteq Told \cup {p}
    BY <1>8, <2>1, EmitKnown DEF FlushEmit
  <2>3. Waiting' \subseteq Waiting
    BY <1>8 DEF FlushEmit, Waiting, extension
  <2> QED BY <1>u, <2>1, <2>2, <2>3
<1>9. CASE RshutdownDone
  BY <1>9, <1>u, <1>f, <1>p DEF RshutdownDone, extension
<1> QED BY <1>1, <1>2, <1>3, <1>4, <1>5, <1>6, <1>7, <1>8, <1>9 DEF Next, Rshutdown

-----------------------------------------------------------------------------
(* The time shown is the call's own.                                         *)

\* The initial state satisfies the inductive invariant.
LEMMA InitTimer == Init => TimerInv
<1> SUFFICES ASSUME Init PROVE TimerInv
  OBVIOUS
<1>1. Known = {}
  BY DEF Init, Known, Waiting, Told, FrameSet
<1>2. Quiet /\ ~on
  BY DEF Init, Quiet
<1> QED BY <1>1, <1>2 DEF TimerInv, StackInv, TimerOwn

(* A call that begins keeps STARTS in step with its call stack.              *)
LEMMA EnterInStep ==
  ASSUME TypeOK, NEW f \in Fibers, NEW c \in Call, Enter(f, c), on, InStep(stacks[f])
  PROVE  InStep(stacks[f])'
<1> DEFINE s == stacks[f]
           t == stacks'[f]
           d == [c EXCEPT !.id = calls + 1, !.top = Len(starts')]
           n == Len(s)
<1>1. s \in Seq(Call) /\ n \in Nat /\ Len(starts) \in Nat /\ calls + 1 \in Nat
  BY LenProperties DEF TypeOK
<1>2. /\ \A i \in 1..Len(starts) : starts'[i] = starts[i]
      /\ Timed(c) => Len(starts') = Len(starts) + 1 /\ starts'[Len(starts) + 1] = calls + 1
      /\ ~Timed(c) => Len(starts') = Len(starts)
  BY <1>1, AppendProperties DEF Enter, Timed, TypeOK
<1>3. d \in Call /\ d.id = calls + 1 /\ d.top = Len(starts') /\ (Timed(d) <=> Timed(c))
  <2>1. Len(starts') \in Nat
    BY <1>1, <1>2
  <2> QED BY <1>1, <2>1 DEF Call, CallOn, Timed
<1>4. t = Append(s, d)
  BY DEF Enter, TypeOK
<1> HIDE DEF d
<1>5. Len(t) = n + 1 /\ t[n + 1] = d /\ t # <<>> /\ \A i \in 1..n : t[i] = s[i]
  BY <1>1, <1>3, <1>4, AppendProperties
<1>6. \A i \in 1..n : s[i].top \in Nat
  BY SMTT(30), <1>1, ElementOfSeq DEF Call, CallOn
<1>7. n # 0 => s[n].top = Len(starts)
  BY <1>1, EmptySeq DEF InStep, Last
<1>8. ASSUME NEW i \in 1..n PROVE s[i].top <= Len(starts)
  <2>1. i = n \/ (i < n /\ n \in 1..n)
    BY <1>1
  <2>2. i < n /\ n \in 1..n => s[i].top <= s[n].top
    BY DEF InStep
  <2> QED
    BY <1>1, <1>7, <2>1, <2>2
<1> HIDE DEF s, t, n
<1>i. /\ \A i \in 1..n : Timed(s[i]) => s[i].top \in 1..Len(starts) /\ starts[s[i].top] = s[i].id
      /\ \A i, j \in 1..n : i < j => s[i].top <= s[j].top /\ (Timed(s[j]) => s[i].top < s[j].top)
      /\ \A i \in 1..(n - 1) :
           s[i].top = IF Timed(s[i + 1]) THEN s[i + 1].top - 1 ELSE s[i + 1].top
  BY DEF InStep, s, n
<1>9. Last(t).top = Len(starts')
  BY <1>1, <1>3, <1>5 DEF Last
<1>10. \A i \in 1..Len(t) : Timed(t[i]) => /\ t[i].top \in 1..Len(starts')
                                           /\ starts'[t[i].top] = t[i].id
  <2> SUFFICES ASSUME NEW i \in 1..Len(t), Timed(t[i])
               PROVE  t[i].top \in 1..Len(starts') /\ starts'[t[i].top] = t[i].id
    OBVIOUS
  <2>1. CASE i = n + 1
    BY <1>1, <1>2, <1>3, <1>5, <2>1
  <2>2. CASE i \in 1..n
    BY SMTT(30), <1>1, <1>2, <1>5, <1>i, <2>2
  <2> QED BY <1>1, <1>5, <2>1, <2>2
<1>11. \A i, j \in 1..Len(t) : i < j => /\ t[i].top <= t[j].top
                                        /\ Timed(t[j]) => t[i].top < t[j].top
  <2> SUFFICES ASSUME NEW i \in 1..Len(t), NEW j \in 1..Len(t), i < j
               PROVE  t[i].top <= t[j].top /\ (Timed(t[j]) => t[i].top < t[j].top)
    OBVIOUS
  <2>1. i \in 1..n /\ (j \in 1..n \/ j = n + 1)
    BY <1>1, <1>5
  <2>2. CASE j \in 1..n
    BY <1>5, <1>i, <2>1, <2>2
  <2>3. CASE j = n + 1
    <3>1. t[i].top \in Nat /\ t[i].top <= Len(starts)
      BY <1>5, <1>6, <1>8, <2>1
    <3>2. t[j].top = Len(starts') /\ (Timed(t[j]) <=> Timed(c))
      BY <1>3, <1>5, <2>3
    <3> QED BY SMTT(30), <1>1, <1>2, <3>1, <3>2
  <2> QED BY <2>1, <2>2, <2>3
<1>12. \A i \in 1..(Len(t) - 1) :
         t[i].top = IF Timed(t[i + 1]) THEN t[i + 1].top - 1 ELSE t[i + 1].top
  <2> SUFFICES ASSUME NEW i \in 1..n
               PROVE  t[i].top = IF Timed(t[i + 1]) THEN t[i + 1].top - 1 ELSE t[i + 1].top
    <3>1. Len(t) - 1 = n
      BY <1>1, <1>5
    <3> QED BY Zenon, <3>1
  <2>1. CASE i = n
    BY SMTT(30), <1>1, <1>2, <1>3, <1>5, <1>7, <2>1 DEF s
  <2>2. CASE i # n
    <3>1. i \in 1..(n - 1) /\ i + 1 \in 1..n
      BY <1>1, <2>2
    <3> QED BY <1>5, <1>i, <3>1
  <2> QED BY <2>1, <2>2
<1> QED BY <1>9, <1>10, <1>11, <1>12 DEF InStep, t

(* So does a call that ends; and the start it pops is its own.               *)
LEMMA LeaveInStep ==
  ASSUME TypeOK, NEW f \in Fibers, stacks[f] # <<>>, InStep(stacks[f]),
         stacks' = [stacks EXCEPT ![f] = Front(@)],
         IF Timed(Last(stacks[f])) THEN PopStart ELSE UNCHANGED starts
  PROVE  /\ InStep(stacks[f])'
         /\ Timed(Last(stacks[f])) => Timer = Last(stacks[f]).id
<1> DEFINE s == stacks[f]
           t == stacks'[f]
           n == Len(s)
           m == Len(starts)
<1>1. /\ s \in Seq(Call) /\ n \in Nat \ {0} /\ t = Front(s) /\ Len(t) = n - 1
      /\ \A i \in 1..(n - 1) : t[i] = s[i]
      /\ s[n].top = m /\ m \in Nat /\ Last(s) = s[n]
  BY SMTT(30), FrontProperties, LenProperties DEF TypeOK, InStep, Last
<1>2. \A i \in 1..n : s[i].top \in Nat
  BY <1>1, ElementOfSeq DEF Call, CallOn
<1>i. /\ \A i \in 1..n : Timed(s[i]) => s[i].top \in 1..m /\ starts[s[i].top] = s[i].id
      /\ \A i, j \in 1..n : i < j => s[i].top <= s[j].top /\ (Timed(s[j]) => s[i].top < s[j].top)
      /\ \A i \in 1..(n - 1) :
           s[i].top = IF Timed(s[i + 1]) THEN s[i + 1].top - 1 ELSE s[i + 1].top
  BY DEF InStep
<1>3. /\ Timed(s[n]) => m \in 1..m /\ starts # <<>> /\ starts' = Front(starts)
      /\ Timed(s[n]) => Len(starts') = m - 1 /\ \A i \in 1..(m - 1) : starts'[i] = starts[i]
      /\ ~Timed(s[n]) => starts' = starts
  <2>1. Timed(s[n]) => m \in 1..m
    BY <1>1, <1>i
  <2>2. m \in 1..m => starts # <<>>
    BY EmptySeq
  <2>3. Timed(s[n]) => starts' = Front(starts)
    BY <1>1, <2>1, <2>2 DEF PopStart
  <2>4. starts # <<>> => /\ Len(Front(starts)) = m - 1
                         /\ \A i \in 1..(m - 1) : Front(starts)[i] = starts[i]
    BY FrontProperties DEF TypeOK
  <2> QED BY <1>1, <2>1, <2>2, <2>3, <2>4
<1>4. Timed(s[n]) => Timer = s[n].id
  BY SMTT(30), <1>1, <1>3, <1>i DEF Timer, Last
<1> HIDE DEF s, t, n, m
<1>5. t # <<>> => Last(t).top = Len(starts')
  <2> SUFFICES ASSUME t # <<>> PROVE Last(t).top = Len(starts')
    OBVIOUS
  <2>1. t \in Seq(Call)
    BY <1>1, FrontProperties DEF s
  <2>2. n - 1 \in Nat \ {0} /\ Last(t) = s[n - 1]
    BY <1>1, <2>1, EmptySeq DEF Last
  <2>3. n - 1 \in 1..(n - 1) /\ n - 1 + 1 = n
    BY <1>1, <2>2
  <2>4. s[n - 1].top = IF Timed(s[n]) THEN s[n].top - 1 ELSE s[n].top
    BY <1>i, <2>3
  <2> QED BY <1>1, <1>3, <2>2, <2>4 DEF m
<1>6. \A i \in 1..Len(t) : Timed(t[i]) => /\ t[i].top \in 1..Len(starts')
                                          /\ starts'[t[i].top] = t[i].id
  <2> SUFFICES ASSUME NEW i \in 1..(n - 1), Timed(s[i])
               PROVE  s[i].top \in 1..Len(starts') /\ starts'[s[i].top] = s[i].id
    BY <1>1
  <2>1. i \in 1..n /\ n \in 1..n /\ i < n
    BY <1>1
  <2>2. s[i].top \in 1..m /\ starts[s[i].top] = s[i].id
    BY <1>i, <2>1
  <2>3. CASE Timed(s[n])
    <3>1. s[i].top < m
      BY <1>1, <1>i, <2>1, <2>3
    <3>2. s[i].top \in 1..(m - 1)
      BY <1>1, <2>2, <3>1
    <3> QED BY <1>3, <2>2, <2>3, <3>2
  <2>4. CASE ~Timed(s[n])
    BY <1>3, <2>2, <2>4 DEF m
  <2> QED BY <2>3, <2>4
<1>7. \A i, j \in 1..Len(t) : i < j => /\ t[i].top <= t[j].top
                                       /\ Timed(t[j]) => t[i].top < t[j].top
  <2>1. \A i \in 1..(n - 1) : i \in 1..n
    BY <1>1
  <2> QED BY ZenonT(60), <1>1, <1>i, <2>1
<1>8. \A i \in 1..(Len(t) - 1) :
        t[i].top = IF Timed(t[i + 1]) THEN t[i + 1].top - 1 ELSE t[i + 1].top
  <2> SUFFICES ASSUME NEW i \in 1..(n - 2)
               PROVE  t[i].top = IF Timed(t[i + 1]) THEN t[i + 1].top - 1 ELSE t[i + 1].top
    BY <1>1
  <2>1. i \in 1..(n - 1) /\ i + 1 \in 1..(n - 1)
    BY <1>1
  <2> QED BY <1>1, <1>i, <2>1
<1> QED BY <1>1, <1>4, <1>5, <1>6, <1>7, <1>8 DEF InStep, s, t

(* STARTS is in step with the one call stack, and the times shown are own.   *)
LEMMA NextTimer ==
  ASSUME NEW m, Fibers = {m}, TypeOK, TimerInv, [Next]_vars
  PROVE  TimerInv'
<1>1. TimerOwn'
  <2> SUFFICES ASSUME NEW q \in Known' PROVE q.timer = q.call
    BY DEF TimerOwn
  <2>1. CASE q \in Known
    BY <2>1 DEF TimerInv, TimerOwn
  <2>2. ASSUME NEW f \in Fibers, Ending(f), NewOf(f, q) PROVE q.timer = q.call
    <3>1. InStep(stacks[f])
      BY <2>2 DEF TimerInv, StackInv, Ending
    <3>2. Timer = Last(stacks[f]).id
      BY <2>2, <3>1, LeaveInStep DEF Ending
    <3> QED BY <2>2, <3>2 DEF NewOf, Stamped
  <2> QED BY <2>1, <2>2, NewKnown
<1>2. StackInv'
  <2>u. ASSUME UNCHANGED <<starts, stacks>>, on' => on, phase' # "running" => phase # "running" \/ Quiet
        PROVE  StackInv'
    BY ZenonT(60), <2>u DEF TimerInv, StackInv, InStep, Quiet
  <2>1. CASE UNCHANGED vars
    BY <2>1, <2>u DEF vars, extension
  <2>2. CASE Rinit
    <3>1. \A f \in Fibers : stacks'[f] = <<>>
      BY <2>2 DEF Rinit, TimerInv, StackInv, Quiet
    <3>2. Len(<<>>) = 0
      BY EmptySeq
    <3> QED BY <2>2, <3>1, <3>2 DEF Rinit, StackInv, InStep
  <2>3. CASE Statements
    <3>1. UNCHANGED <<starts, stacks, on, phase>>
      BY <2>3 DEF Statements, Prepare, Free, AssignParam, BindValue, extension
    <3> QED BY <2>u, <3>1
  <2>4. ASSUME NEW f \in Fibers, Begin(f) PROVE StackInv'
    <3>1. phase' = "running" /\ on' = on
      BY ZenonT(60), <2>4 DEF Begin, BeginExec, BeginQuery, BeginExecute, BeginExecuteWith,
                  BeginFetchAll, Enter
    <3>2. PICK c \in Call : Enter(f, c)
      BY <2>4, BeginType
    <3>3. on => InStep(stacks[f])'
      BY <3>2, EnterInStep DEF TimerInv, StackInv
    <3> QED BY <3>1, <3>3 DEF StackInv
  <2>5. ASSUME NEW f \in Fibers, End(f) PROVE StackInv'
    <3>1. /\ UNCHANGED <<on, phase>> /\ stacks[f] # <<>>
          /\ stacks' = [stacks EXCEPT ![f] = Front(@)]
      BY ZenonT(60), <2>5 DEF End, EndExec, EndQuery, EndQueryFailed, EndNoSql, NoSql, EndExecute,
                  EndFetchAll, Leave
    <3>2. on => IF Timed(Last(stacks[f])) THEN PopStart ELSE UNCHANGED starts
      BY <2>5 DEF End, EndExec, EndQuery, EndQueryFailed, EndNoSql, NoSql, EndExecute,
                  EndFetchAll, Leave, Timed
    <3>3. on => InStep(stacks[f])'
      BY <3>1, <3>2, LeaveInStep DEF TimerInv, StackInv
    <3>4. phase = "running"
      BY <3>1 DEF TimerInv, StackInv, Quiet
    <3> QED BY <3>1, <3>3, <3>4 DEF StackInv
  <2>6. CASE Bailout
    <3>1. Len(<<>>) = 0
      BY EmptySeq
    <3> QED BY <2>6, <3>1 DEF Bailout, StackInv, Quiet, InStep
  <2>7. CASE RshutdownDrain
    BY <2>7, <2>u DEF RshutdownDrain
  <2>8. ASSUME NEW q \in draining, FlushEmit(q) PROVE StackInv'
    BY <2>8, <2>u DEF FlushEmit, extension
  <2>9. CASE RshutdownDone
    BY <2>9, <2>u DEF RshutdownDone, extension
  <2> QED BY <2>1, <2>2, <2>3, <2>4, <2>5, <2>6, <2>7, <2>8, <2>9 DEF Next, Rshutdown
<1> QED BY <1>1, <1>2 DEF TimerInv

(* With one call stack, i.e. unless the application switches fibers inside a *)
(* PDO call, the time shown for a query is that query's own: the observer's  *)
(* on_begin and on_end (queries.rs:91, 130) pair up through nesting, early   *)
(* returns, failures and bailouts, for any number of calls and requests.     *)
THEOREM TimesAreOwn ==
  ASSUME NEW m, Fibers = {m}
  PROVE  Spec => []TimerOwn
<1>1. Init => TypeOK /\ TimerInv
  BY InitType, InitTimer
<1>2. TypeOK /\ TimerInv /\ [Next]_vars => TypeOK' /\ TimerInv'
  BY NextType, NextTimer
<1>3. TimerInv => TimerOwn
  BY DEF TimerInv
<1> QED BY <1>1, <1>2, <1>3, PTL DEF Spec
=============================================================================
