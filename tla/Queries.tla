------------------------------ MODULE Queries ------------------------------
(* The PDO query observer (src/src/observers/queries.rs) with the two         *)
(* callbacks of the fcall observer that drive it (src/src/observer.rs begin   *)
(* and end) and the request callbacks around it (src/src/lib.rs).             *)
(*                                                                            *)
(* The observer keeps three thread-locals: a stack of start times, the binds  *)
(* accumulated for each statement handle, and the reads deferred for each     *)
(* statement handle until their rows are fetched.  PHP, PDO and the           *)
(* application are external: they decide which calls are made, in which       *)
(* fiber, on which object handle, and how each call returns.                  *)
(*                                                                            *)
(* Data are abstracted to identities.  A call is its serial number; an        *)
(* Instant is the number of the call that took it; a bound value is the       *)
(* serial number of the bind that supplied it; a row count is the number of   *)
(* the execution whose rows were counted, 0 standing for null; `ts` is the    *)
(* position of the execution in the order of completion.                      *)
EXTENDS Naturals, FiniteSets, SequencesExt

CONSTANTS
  Handles,      \* object handles PHP gives to PDOStatement objects
  Fibers,       \* call stacks of the one PHP thread; more than one with fibers
  NPos,         \* number of `?` placeholders of a statement
  Names,        \* its named placeholders
  AppMay,       \* what the application does beyond the disciplined use
  ArrayCap,     \* entries that binds_from_array takes of an array: 512
  NoHandle,     \* the handle of a call that has no statement object
  NoQuery,      \* "no entry" in PENDING
  MaxCalls,     \* bound: observed calls, over all requests
  MaxBinds,     \* bound: bind events, over all requests
  MaxDepth,     \* bound: calls open at once in one fiber
  MaxRequests   \* bound: requests served by the process

ASSUME QueriesAssumption ==
  /\ NPos \in Nat /\ ArrayCap \in Nat /\ MaxCalls \in Nat /\ MaxBinds \in Nat
  /\ MaxDepth \in Nat /\ MaxRequests \in Nat
  /\ NoHandle \notin Handles
  /\ AppMay \subseteq {"reexecute", "drop", "fail", "bailout", "reference"}
  /\ "?" \notin Names /\ Names \cap (1..NPos) = {}

Params == (1..NPos) \cup Names
Bind   == [key : {"?"} \cup Names, n : Nat]   \* BindKey loses the position
Unbound == [p \in Params |-> 0]

Query == [call : Nat, ts : Nat, timer : Nat, binds : Seq(Bind), fallback : Nat]
ASSUME NoQueryAssumption == NoQuery \notin Query
Frame == [q : Query, rows : Nat]

VARIABLES
  phase,     \* "idle", "running" (RINIT .. RSHUTDOWN) or "flushing"
  on,        \* active(Feature::Queries): the snapshot taken at RINIT
  starts,    \* STARTS
  binds,     \* BINDS: the accumulated binds of each handle
  pending,   \* PENDING: the deferred read of each handle
  draining,  \* the Vec that flush() collected and is emitting
  frames,    \* "query" frames handed to the request's connection, in order
  stacks,    \* the observed calls open in each fiber, innermost last
  stmt,      \* PDO: the statement behind each handle
  ran,       \* history: the executions of this request, in order of completion
  calls,     \* number of calls begun so far
  nbinds,    \* number of bind events so far
  mark,      \* history: calls and nbinds when the request began
  requests   \* number of requests begun so far

extension == <<starts, binds, pending>>
vars == <<phase, on, extension, draining, frames, stacks, stmt, ran,
          calls, nbinds, mark, requests>>

-----------------------------------------------------------------------------
(* PDO and the engine (external).                                            *)

\* `sql` is "opaque" when the observer cannot read it: not UTF-8, or the
\* queryString of a `new PDOStatement`, which is never set.  `since` is the number
\* of binds when the statement last executed; `tidy` says that every bind since
\* then succeeded and named the next position, and that no earlier statement left
\* binds under the handle.  `cursor` is the last successful execution, `unread`
\* that no fetchAll followed a PDO::query, or a read, that succeeded.
Stmt == [sql : {"none", "read", "write", "opaque"}, bound : [Params -> Nat],
         since : Nat, tidy : BOOLEAN, cursor : Nat, unread : BOOLEAN]

NoStmt == [sql |-> "none", bound |-> Unbound, since |-> 0,
           tidy |-> TRUE, cursor |-> 0, unread |-> FALSE]

CallOn(kinds, handles) ==
  [kind : kinds, id : Nat, h : handles, given : BOOLEAN, args : Seq(Bind),
   used : [Params -> Nat], tidy : BOOLEAN, of : Nat, top : Nat]
Call == CallOn({"exec"}, {NoHandle}) \cup CallOn({"query", "execute", "fetchAll"}, Handles)

Ran == [call : Nat, h : Handles \cup {NoHandle}, deferred : BOOLEAN,
        ok : BOOLEAN, used : [Params -> Nat], tidy : BOOLEAN]

\* A new value under the placeholder p.
Assigned(s, p, tidy) ==
  [s EXCEPT !.bound = [@ EXCEPT ![p] = nbinds + 1], !.tidy = tidy]

Alive(h) == stmt[h].sql # "none"
Open == UNION {{stacks[f][i] : i \in DOMAIN stacks[f]} : f \in Fibers}
Held(h)  == \E c \in Open : c.h = h   \* a call in progress keeps its object
Busy(h)  == \E c \in Open : c.h = h /\ c.kind # "fetchAll"
Quiet == \A f \in Fibers : stacks[f] = <<>>

\* PDO fills a position by its number, whatever the order of the binds.
InOrder(ps) == \A i \in 1..Len(ps) :
                 ps[i] \in Names \/ ps[i] = Cardinality({j \in 1..i : ps[j] \notin Names})
Rebound(s) == Cardinality({p \in 1..NPos : s.bound[p] > s.since})
Spent(s) == \A p \in Params : s.bound[p] <= s.since   \* every bind was executed

\* What a statement leaves under its handle, and what the next one finds there.
Gone(h) == [NoStmt EXCEPT !.tidy = stmt[h].tidy /\ Spent(stmt[h])]
NewStmt(h, sql) == [NoStmt EXCEPT !.sql = sql, !.tidy = stmt[h].tidy]

-----------------------------------------------------------------------------
(* The observer's own operators.                                             *)

KeyOf(p) == IF p \in Names THEN p ELSE "?"

\* build(): the positional literals in order, the named ones by name.
LitsAt(bs, n) == {i \in DOMAIN bs : bs[i].key = n}
Positional(bs) ==
  FlattenSeq([i \in DOMAIN bs |-> IF bs[i].key = "?" THEN <<bs[i]>> ELSE <<>>])

\* Mutant of Build: the first literal of a name wins, as `entry().or_insert`.
BuildFirst(bs) ==
  [positional |-> Positional(bs),
   named |-> [n \in {bs[i].key : i \in DOMAIN bs} \cap Names |->
                bs[CHOOSE i \in LitsAt(bs, n) : \A j \in LitsAt(bs, n) : i <= j].n]]

Build(bs) ==
  [positional |-> Positional(bs),
   named |-> [n \in {bs[i].key : i \in DOMAIN bs} \cap Names |->
                bs[CHOOSE i \in LitsAt(bs, n) : \A j \in LitsAt(bs, n) : j <= i].n]]

\* substitute(): each `?` takes the next positional literal and each `:name` its
\* own; a placeholder that has none stays as it is, which 0 stands for.
Substitute(lits) ==
  [p \in Params |->
     IF p \in Names THEN IF p \in DOMAIN lits.named THEN lits.named[p] ELSE 0
     ELSE IF p <= Len(lits.positional) THEN lits.positional[p].n ELSE 0]

\* What `sql_full` shows for each placeholder.
Show(bs) == Substitute(Build(bs))

\* Mutant of PopStart: STARTS.last() in the place of STARTS.pop().
PeekStart == UNCHANGED starts

\* STARTS.pop().map_or(0.0, ..)
Timer    == IF starts = <<>> THEN 0 ELSE Last(starts)
PopStart == starts' = IF starts = <<>> THEN starts ELSE Front(starts)

\* A query stamped now, as on_end does before it looks at the kind of call.
Stamped(id, bs, fallback) ==
  [call |-> id, ts |-> Len(ran) + 1, timer |-> Timer, binds |-> bs, fallback |-> fallback]

\* emit_query -> request::emit_at, with its own check of the feature.
Emit(q, rows) == frames' = IF on THEN Append(frames, [q |-> q, rows |-> rows]) ELSE frames

\* Mutants of the four operators below: `entry().or_insert`, the only waiting
\* read whatever the handle, `get` for `remove`, and binds that are not removed.
KeepFirst(h, q) == pending' = IF pending[h] = NoQuery THEN [pending EXCEPT ![h] = q] ELSE pending
AnyDeferred(h)  == IF \E g \in Handles : pending[g] # NoQuery
                   THEN pending[CHOOSE g \in Handles : pending[g] # NoQuery] ELSE NoQuery
StillDeferred(h) == UNCHANGED pending
KeepBinds(h)     == UNCHANGED binds

\* The maps keyed by handle: insert replaces, remove takes.
Defer(h, q)   == pending' = [pending EXCEPT ![h] = q]
DeferredOf(h) == pending[h]
Undefer(h)    == pending' = [pending EXCEPT ![h] = NoQuery]
ClearBinds(h) == binds' = [binds EXCEPT ![h] = <<>>]

\* History: what the application did, independent of what is told about it.
Record(c, h, deferred, ok) ==
  ran' = Append(ran, [call |-> c.id, h |-> h, deferred |-> deferred, ok |-> ok,
                      used |-> c.used, tidy |-> c.tidy])

-----------------------------------------------------------------------------
(* The request callbacks.                                                    *)

\* Mutant of Reset: the BINDS are forgotten.
ResetKeepingBinds == /\ starts' = <<>>
                     /\ UNCHANGED binds
                     /\ pending' = [h \in Handles |-> NoQuery]

\* queries::reset(): handles are reused across requests.
Reset == /\ starts' = <<>>
         /\ binds' = [h \in Handles |-> <<>>]
         /\ pending' = [h \in Handles |-> NoQuery]

Init == /\ phase = "idle" /\ on = FALSE
        /\ starts = <<>>
        /\ binds = [h \in Handles |-> <<>>]
        /\ pending = [h \in Handles |-> NoQuery]
        /\ draining = {} /\ frames = <<>> /\ ran = <<>>
        /\ stacks = [f \in Fibers |-> <<>>]
        /\ stmt = [h \in Handles |-> NoStmt]
        /\ calls = 0 /\ nbinds = 0 /\ requests = 0
        /\ mark = [calls |-> 0, binds |-> 0]

\* RINIT: reset, then arm the request from whatever state.json says.
Rinit == /\ phase = "idle" /\ requests < MaxRequests
         /\ phase' = "running" /\ on' \in BOOLEAN
         /\ Reset
         /\ frames' = <<>> /\ ran' = <<>>
         /\ mark' = [calls |-> calls, binds |-> nbinds]
         /\ requests' = requests + 1
         /\ UNCHANGED <<draining, stacks, stmt, calls, nbinds>>

\* Mutant of RshutdownDrain: flush() is not called.
RshutdownWithoutFlush ==
  /\ phase = "running" /\ Quiet
  /\ phase' = "flushing" /\ draining' = {}
  /\ UNCHANGED <<on, extension, frames, stacks, stmt, ran, calls, nbinds, mark, requests>>

\* RSHUTDOWN, once no call is open: flush() first drains PENDING into a Vec ..
RshutdownDrain ==
  /\ phase = "running" /\ Quiet
  /\ phase' = "flushing"
  /\ draining' = {pending[h] : h \in Handles} \ {NoQuery}
  /\ pending' = [h \in Handles |-> NoQuery]
  /\ UNCHANGED <<on, starts, binds, frames, stacks, stmt, ran, calls, nbinds, mark, requests>>

\* Mutants of FlushEmit: the frame is stamped when it is sent; the request is
\* dropped before the reads are flushed, so that emit_at finds none.
FlushRestamped(q) ==
  /\ phase = "flushing" /\ q \in draining
  /\ draining' = draining \ {q}
  /\ Emit([q EXCEPT !.ts = Len(ran) + 1], q.fallback)
  /\ UNCHANGED <<phase, on, extension, stacks, stmt, ran, calls, nbinds, mark, requests>>

FlushAfterDrop(q) ==
  /\ phase = "flushing" /\ q \in draining
  /\ draining' = draining \ {q}
  /\ UNCHANGED <<phase, on, extension, frames, stacks, stmt, ran, calls, nbinds, mark, requests>>

\* .. then emits it in the HashMap's order, which is no order ..
FlushEmit(q) ==
  /\ phase = "flushing" /\ q \in draining
  /\ draining' = draining \ {q}
  /\ Emit(q, q.fallback)
  /\ UNCHANGED <<phase, on, extension, stacks, stmt, ran, calls, nbinds, mark, requests>>

\* .. and on_rshutdown drops the request; PHP then frees its objects.
RshutdownDone ==
  /\ phase = "flushing" /\ draining = {}
  /\ phase' = "idle" /\ on' = FALSE
  /\ stmt' = [h \in Handles |-> NoStmt]
  /\ UNCHANGED <<extension, draining, frames, stacks, ran, calls, nbinds, mark, requests>>

-----------------------------------------------------------------------------
(* Statements come and go (external).                                        *)

\* PDO::prepare, or `new PDOStatement`.
Prepare(h, sql) ==
  /\ phase = "running" /\ ~Alive(h)
  /\ stmt' = [stmt EXCEPT ![h] = NewStmt(h, sql)]
  /\ UNCHANGED <<phase, on, extension, draining, frames, stacks, ran, calls, nbinds, mark, requests>>

\* The last reference goes and PHP may give the handle to the next object.
\* The disciplined application first reads the rows that are due.
Free(h) ==
  /\ phase = "running" /\ Alive(h) /\ ~Held(h)
  /\ "drop" \in AppMay \/ ~stmt[h].unread
  /\ stmt' = [stmt EXCEPT ![h] = Gone(h)]
  /\ UNCHANGED <<phase, on, extension, draining, frames, stacks, ran, calls, nbinds, mark, requests>>

\* The variable behind a bindParam() is assigned: no observed call.
AssignParam(h, p) ==
  /\ "reference" \in AppMay
  /\ phase = "running" /\ Alive(h) /\ ~Busy(h) /\ nbinds < MaxBinds
  /\ stmt[h].bound[p] # 0
  /\ nbinds' = nbinds + 1
  /\ stmt' = [stmt EXCEPT ![h] = Assigned(@, p, FALSE)]
  /\ UNCHANGED <<phase, on, extension, draining, frames, stacks, ran, calls, mark, requests>>

\* PDOStatement::bindValue / bindParam: on_bind() in `begin`, so before PDO has
\* accepted the value; `end` does nothing.
BindValue(h, p, ok) ==
  /\ phase = "running" /\ Alive(h) /\ ~Busy(h) /\ nbinds < MaxBinds
  /\ ok \/ "fail" \in AppMay
  /\ nbinds' = nbinds + 1
  /\ binds' = IF on THEN [binds EXCEPT ![h] = Append(@, [key |-> KeyOf(p), n |-> nbinds + 1])]
              ELSE binds
  /\ stmt' = [stmt EXCEPT ![h] =
        IF ok THEN Assigned(@, p, @.tidy /\ (p \in Names \/ p = Rebound(@) + 1))
        ELSE [@ EXCEPT !.tidy = FALSE]]
  /\ UNCHANGED <<phase, on, starts, pending, draining, frames, stacks, ran, calls, mark, requests>>

-----------------------------------------------------------------------------
(* `begin` of the timed calls pushes a start; that of fetchAll does nothing. *)

Enter(f, c) ==
  /\ phase = "running" /\ calls < MaxCalls /\ Len(stacks[f]) < MaxDepth
  /\ calls' = calls + 1
  /\ starts' = IF on /\ c.kind # "fetchAll" THEN Append(starts, calls + 1) ELSE starts
  /\ stacks' = [stacks EXCEPT ![f] = Append(@, [c EXCEPT !.id = calls + 1,
                                                        !.top = Len(starts')])]
  /\ UNCHANGED <<phase, on, binds, pending, draining, frames, ran, mark, requests>>

Plain(kind, h) ==
  [kind |-> kind, id |-> 0, h |-> h, given |-> FALSE, args |-> <<>>,
   used |-> Unbound, tidy |-> TRUE, of |-> 0, top |-> 0]

BeginExec(f) == Enter(f, Plain("exec", NoHandle)) /\ UNCHANGED <<stmt, nbinds>>

\* PDO::query makes its statement first; nobody has it until the call returns.
BeginQuery(f, h, sql) ==
  /\ ~Alive(h)
  /\ Enter(f, Plain("query", h))
  /\ stmt' = [stmt EXCEPT ![h] = NewStmt(h, sql)]
  /\ UNCHANGED nbinds

\* execute() runs with the values bound to the statement, which PDO keeps from
\* one execution to the next.  The disciplined application has read the rows of
\* the previous execution, and does not execute from within their fetchAll().
BeginExecute(f, h) ==
  /\ Alive(h) /\ ~Busy(h)
  /\ "reexecute" \in AppMay \/ (~stmt[h].unread /\ ~Held(h))
  /\ Enter(f, [Plain("execute", h) EXCEPT
        !.used = stmt[h].bound,
        !.tidy = stmt[h].tidy /\ \A p \in Params : stmt[h].bound[p] # 0
                                                   => stmt[h].bound[p] > stmt[h].since])
  /\ stmt' = [stmt EXCEPT ![h] = [@ EXCEPT !.since = nbinds, !.tidy = TRUE]]
  /\ UNCHANGED nbinds

\* execute([..]): the array replaces what was bound; `ps` are its keys in order,
\* of which the observer takes the first ArrayCap.
BeginExecuteWith(f, h, ps) ==
  LET value(p) == IF \E i \in DOMAIN ps : ps[i] = p
                  THEN nbinds + (CHOOSE i \in DOMAIN ps : ps[i] = p) ELSE 0
      bound == [p \in Params |-> value(p)]
      taken == IF Len(ps) <= ArrayCap THEN Len(ps) ELSE ArrayCap
  IN /\ Alive(h) /\ ~Busy(h) /\ nbinds + Len(ps) <= MaxBinds
     /\ "reexecute" \in AppMay \/ (~stmt[h].unread /\ ~Held(h))
     /\ Enter(f, [Plain("execute", h) EXCEPT
           !.given = TRUE, !.used = bound, !.tidy = InOrder(ps) /\ Len(ps) <= ArrayCap,
           !.args = [i \in 1..taken |-> [key |-> KeyOf(ps[i]), n |-> nbinds + i]]])
     /\ nbinds' = nbinds + Len(ps)
     /\ stmt' = [stmt EXCEPT ![h] = [@ EXCEPT
           !.since = nbinds + Len(ps), !.tidy = TRUE, !.bound = bound]]

\* Rows of a statement never executed are nobody's: the call's own id says so.
BeginFetchAll(f, h) ==
  /\ Alive(h) /\ ~Busy(h)
  /\ Enter(f, [Plain("fetchAll", h) EXCEPT
        !.of = IF stmt[h].cursor = 0 THEN calls + 1 ELSE stmt[h].cursor])
  /\ UNCHANGED <<stmt, nbinds>>

-----------------------------------------------------------------------------
(* `end`, when the call on top of a fiber's stack returns or throws.         *)

Leave(f, kind) ==
  /\ stacks[f] # <<>> /\ Last(stacks[f]).kind = kind
  /\ stacks' = [stacks EXCEPT ![f] = Front(@)]
  /\ UNCHANGED <<phase, on, draining, calls, nbinds, mark, requests>>

\* PDO::exec: emitted at once with the return value as its count.
EndExec(f, ok) ==
  LET c == Last(stacks[f])
  IN /\ Leave(f, "exec")
     /\ ok \/ "fail" \in AppMay
     /\ \/ /\ on /\ PopStart
           /\ Emit(Stamped(c.id, <<>>, 0), IF ok THEN c.id ELSE 0)
           /\ Record(c, NoHandle, FALSE, ok)
        \/ ~on /\ UNCHANGED <<starts, frames, ran>>
     /\ UNCHANGED <<binds, pending, stmt>>

\* PDO::query returned its statement: deferred, with its rowCount() or none as
\* the fallback.
EndQuery(f, counted) ==
  LET c == Last(stacks[f])
  IN /\ Leave(f, "query") /\ stmt[c.h].sql # "opaque"
     /\ stmt' = [stmt EXCEPT ![c.h] = [@ EXCEPT !.cursor = c.id, !.unread = TRUE]]
     /\ \/ /\ on /\ PopStart
           /\ Defer(c.h, Stamped(c.id, <<>>, IF counted THEN c.id ELSE 0))
           /\ Record(c, c.h, TRUE, TRUE)
        \/ ~on /\ UNCHANGED <<starts, pending, ran>>
     /\ UNCHANGED <<binds, frames>>

\* PDO::query failed: no statement to defer to, emitted at once without a count.
EndQueryFailed(f) ==
  LET c == Last(stacks[f])
  IN /\ Leave(f, "query") /\ stmt[c.h].sql # "opaque" /\ "fail" \in AppMay
     /\ stmt' = [stmt EXCEPT ![c.h] = Gone(c.h)]
     /\ \/ /\ on /\ PopStart
           /\ Emit(Stamped(c.id, <<>>, 0), 0)
           /\ Record(c, NoHandle, FALSE, FALSE)
        \/ ~on /\ UNCHANGED <<starts, frames, ran>>
     /\ UNCHANGED <<binds, pending>>

\* PDO::exec / PDO::query whose argument is no string the observer can read: it
\* told PHP nothing, or is not UTF-8 and may well succeed.
NoSql(f, ok) ==
  LET c == Last(stacks[f])
  IN /\ ok \/ "fail" \in AppMay
     /\ \/ Leave(f, "exec") /\ UNCHANGED stmt
        \/ /\ Leave(f, "query") /\ stmt[c.h].sql = "opaque"
           /\ stmt' = [stmt EXCEPT ![c.h] = IF ok THEN [@ EXCEPT !.cursor = c.id]
                                           ELSE Gone(c.h)]
     /\ UNCHANGED <<binds, pending, frames, ran>>

\* Mutant of EndNoSql: the early return comes before STARTS.pop().
EndNoSqlUnpopped(f, ok) == NoSql(f, ok) /\ UNCHANGED starts

\* No frame and nothing recorded; its start is popped all the same.
EndNoSql(f, ok) ==
  /\ NoSql(f, ok)
  /\ (on /\ PopStart) \/ (~on /\ UNCHANGED starts)

\* PDOStatement::execute: the accumulated binds go whatever happens next; a
\* read waits for its rows, a write is emitted with its rowCount().
EndExecute(f, ok, counted) ==
  LET c      == Last(stacks[f])
      h      == c.h
      shown  == IF c.given THEN c.args ELSE binds[h]
      cursor == IF ok THEN c.id ELSE stmt[h].cursor
      rows   == IF counted THEN cursor ELSE 0
  IN /\ Leave(f, "execute")
     /\ ok \/ "fail" \in AppMay \/ stmt[h].sql = "opaque"
     /\ stmt' = [stmt EXCEPT ![h] = [@ EXCEPT
           !.cursor = cursor, !.unread = ok /\ stmt[h].sql = "read"]]
     /\ \/ /\ on /\ PopStart /\ ClearBinds(h)
           /\ \/ /\ stmt[h].sql = "opaque"
                 /\ UNCHANGED <<pending, frames, ran>>
              \/ /\ stmt[h].sql = "read"
                 /\ Defer(h, Stamped(c.id, shown, rows))
                 /\ Record(c, h, TRUE, ok)
                 /\ UNCHANGED frames
              \/ /\ stmt[h].sql = "write"
                 /\ Emit(Stamped(c.id, shown, 0), rows)
                 /\ Record(c, h, FALSE, ok)
                 /\ UNCHANGED pending
        \/ ~on /\ UNCHANGED <<starts, binds, pending, frames, ran>>

\* Mutant of EndFetchAll: a frame although nothing was deferred.
EndFetchAllAlways(f, ok) ==
  LET c == Last(stacks[f])
      q == DeferredOf(c.h)
  IN /\ Leave(f, "fetchAll")
     /\ ok \/ "fail" \in AppMay
     /\ stmt' = [stmt EXCEPT ![c.h] = [@ EXCEPT !.unread = FALSE]]
     /\ Undefer(c.h)
     /\ Emit(q, IF ok THEN c.of ELSE 0)
     /\ UNCHANGED <<starts, binds, ran>>

\* PDOStatement::fetchAll: takes the deferred read of the handle, if there is
\* one, and counts the rows it returned; without an array, the fallback.
EndFetchAll(f, ok) ==
  LET c == Last(stacks[f])
      q == DeferredOf(c.h)
  IN /\ Leave(f, "fetchAll")
     /\ ok \/ "fail" \in AppMay
     /\ stmt' = [stmt EXCEPT ![c.h] = [@ EXCEPT !.unread = FALSE]]
     /\ \/ /\ on /\ q # NoQuery
           /\ Undefer(c.h)
           /\ Emit(q, IF ok THEN c.of ELSE q.fallback)
        \/ ~(on /\ q # NoQuery) /\ UNCHANGED <<pending, frames>>
     /\ UNCHANGED <<starts, binds, ran>>

\* A fatal error or timeout abandons every open call without an `end`, so that
\* an execute leaves its binds; the shutdown functions may still make calls.
Bailout ==
  /\ "bailout" \in AppMay
  /\ phase = "running" /\ ~Quiet
  /\ stacks' = [f \in Fibers |-> <<>>]
  /\ LET abandons(h, kind) == \E c \in Open : c.h = h /\ c.kind = kind
     IN stmt' = [h \in Handles |->
          IF abandons(h, "query") THEN Gone(h)
          ELSE [stmt[h] EXCEPT !.tidy = @ /\ ~abandons(h, "execute")]]
  /\ UNCHANGED <<phase, on, extension, draining, frames, ran, calls, nbinds, mark, requests>>

-----------------------------------------------------------------------------
\* The keys of an execute() array, in the array's order: each at most once.
ArrayKeys == {ps \in UNION {[1..n -> Params] : n \in 0..Cardinality(Params)} :
                \A i, j \in DOMAIN ps : ps[i] = ps[j] => i = j}

Statements ==
  \E h \in Handles :
    \/ \E sql \in {"read", "write", "opaque"} : Prepare(h, sql)
    \/ Free(h)
    \/ \E p \in Params : AssignParam(h, p)
    \/ \E p \in Params, ok \in BOOLEAN : BindValue(h, p, ok)

Begin(f) ==
  \/ BeginExec(f)
  \/ \E h \in Handles :
       \/ \E sql \in {"read", "write", "opaque"} : BeginQuery(f, h, sql)
       \/ BeginExecute(f, h)
       \/ \E ps \in ArrayKeys : BeginExecuteWith(f, h, ps)
       \/ BeginFetchAll(f, h)

End(f) ==
  \/ \E ok \in BOOLEAN : EndExec(f, ok)
  \/ \E counted \in BOOLEAN : EndQuery(f, counted)
  \/ EndQueryFailed(f)
  \/ \E ok \in BOOLEAN : EndNoSql(f, ok)
  \/ \E ok, counted \in BOOLEAN : EndExecute(f, ok, counted)
  \/ \E ok \in BOOLEAN : EndFetchAll(f, ok)

Rshutdown == RshutdownDrain \/ (\E q \in draining : FlushEmit(q)) \/ RshutdownDone

Next == \/ Rinit
        \/ Statements
        \/ \E f \in Fibers : Begin(f) \/ End(f)
        \/ Bailout
        \/ Rshutdown

Spec == Init /\ [][Next]_vars

\* PHP returns from every call it makes (or bails out), and ends the request
\* once no call is open: max_execution_time stops a script that would not.
Fairness == /\ \A f \in Fibers : WF_vars(End(f))
            /\ WF_vars(Rshutdown)
FairSpec == Spec /\ Fairness

-----------------------------------------------------------------------------
(* Properties.                                                               *)

\* Every query the observer holds or has handed over in this request.
Waiting  == ({pending[h] : h \in Handles} \ {NoQuery}) \cup draining
FrameSet == {frames[i] : i \in DOMAIN frames}
Told     == {x.q : x \in FrameSet}
Known    == Waiting \cup Told
Ids(qs)  == {q.call : q \in qs}
Truth(c) == ran[CHOOSE i \in DOMAIN ran : ran[i].call = c]

\* The variables keep their types.
TypeOK ==
  /\ phase \in {"idle", "running", "flushing"} /\ on \in BOOLEAN
  /\ starts \in Seq(Nat)
  /\ binds \in [Handles -> Seq(Bind)]
  /\ pending \in [Handles -> Query \cup {NoQuery}]
  /\ draining \subseteq Query
  /\ frames \in Seq(Frame)
  /\ stacks \in [Fibers -> Seq(Call)]
  /\ stmt \in [Handles -> Stmt]
  /\ ran \in Seq(Ran)
  /\ calls \in Nat /\ nbinds \in Nat /\ requests \in Nat
  /\ mark \in [calls : Nat, binds : Nat]

\* The time shown for a query is measured from the `begin` of that very call:
\* on_begin and on_end keep STARTS in step with the engine's own stack, through
\* nesting, early returns, failures and calls a bailout never ended.
TimerOwn == \A q \in Known : q.timer = q.call

\* With several call stacks the pairing may be wrong, as STARTS is one stack for
\* all of them, but each start still times at most one query.
TimerUsedOnce == \A p, q \in Known : p.timer = q.timer /\ p.timer # 0 => p.call = q.call

\* Why it holds with one call stack: STARTS has one entry above what the
\* bailouts left for each timed call open, in the order of the calls.
Timed(c) == c.kind # "fetchAll"
InStep(s) ==
  /\ s # <<>> => Last(s).top = Len(starts)
  /\ \A i \in 1..Len(s) : Timed(s[i]) => /\ s[i].top \in 1..Len(starts)
                                         /\ starts[s[i].top] = s[i].id
  /\ \A i, j \in 1..Len(s) : i < j => /\ s[i].top <= s[j].top
                                      /\ Timed(s[j]) => s[i].top < s[j].top
  /\ \A i \in 1..(Len(s) - 1) :
       s[i].top = IF Timed(s[i + 1]) THEN s[i + 1].top - 1 ELSE s[i + 1].top
StackInv == /\ on => \A f \in Fibers : InStep(stacks[f])
            /\ phase # "running" => Quiet
TimerInv == TimerOwn /\ StackInv

\* An execution is told about once: it is never both waiting and told, never
\* waiting twice and never told twice.
FramedOnce ==
  /\ \A i, j \in DOMAIN frames : frames[i].q.call = frames[j].q.call => i = j
  /\ Ids(Told) \cap Ids(Waiting) = {}
  /\ \A g, h \in {h \in Handles : pending[h] # NoQuery} :
       pending[g].call = pending[h].call => g = h

\* Nothing of an earlier request reaches a later one, although handles are
\* reused and a bailout or an unexecuted bind leaves entries behind: reset().
NoCarryOver ==
  \A q \in Known :
    /\ q.call > mark.calls
    /\ q.timer = 0 \/ q.timer > mark.calls
    /\ \A i \in DOMAIN q.binds : q.binds[i].n > mark.binds

\* A deferred frame carries the `ts` of its execution, not of its emission, so
\* that sorting the frames by `ts` gives the order of the executions.
StampKept == \A q \in Known :
               \E i \in DOMAIN ran : ran[i].call = q.call /\ q.ts = i

\* Every execution that succeeded is told about or still waiting to be
\* (queries.rs:13).  A failed read is deferred too, under a statement that PDO
\* gives no rows for: the application may retry or free it, and what
\* LostOnlyToOverwrite allows is then the ordinary case.
NoReadLost == \A i \in DOMAIN ran : ran[i].ok => ran[i].call \in Ids(Known)

\* Whatever the application does, an execution goes missing only because a later
\* execution was deferred under the same handle.
LostOnlyToOverwrite ==
  \A i \in DOMAIN ran :
    \/ ran[i].call \in Ids(Known)
    \/ ran[i].deferred /\ \E j \in DOMAIN ran : j > i /\ ran[j].deferred /\ ran[j].h = ran[i].h

\* A row count shown for a query that succeeded counts the rows of that query.
RowsOwn == \A x \in FrameSet : Truth(x.q.call).ok => x.rows \in {0, x.q.call}

\* sql_full shows the values the statement ran with (README, queries.rs:6) ..
SqlFullIsExecuted ==
  \A q \in Known : Show(q.binds) = Truth(q.call).used

\* .. whenever every value was bound since the last execution, in order, by a
\* bind that succeeded or in an array of at most ArrayCap entries, and no
\* earlier statement or bailout left binds under the handle.
ShownIsUsed ==
  \A q \in Known : Truth(q.call).tidy => Show(q.binds) = Truth(q.call).used

\* Every observed execution that succeeds is handed to the connection at last:
\* from any point on, a moment comes at which all that succeeded are told.
Succeeded(c) == \E i \in DOMAIN ran : ran[i].call = c /\ ran[i].ok
EventuallyTold == []<>(\A c \in 1..MaxCalls : Succeeded(c) => c \in Ids(Told))

\* The observer implements the ledger, for an application that reads the rows of
\* a statement before it executes the statement again or lets go of it.  The
\* ledger knows the executions that succeeded.
Ledger == INSTANCE QueryLedger WITH
  Calls <- 1..MaxCalls,
  count <- Len(ran),
  owed  <- {[call |-> q.call, ts |-> q.ts] : q \in {w \in Waiting : Succeeded(w.call)}},
  told  <- {[call |-> x.q.call, ts |-> x.q.ts, rows |-> x.rows] :
              x \in {y \in FrameSet : Succeeded(y.q.call)}}
ImplementsLedger == Ledger!Spec
=============================================================================
