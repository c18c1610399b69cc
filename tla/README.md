# Formal models of yerd-php-ext (`yerd-dump`)

TLA+ models of the PHP extension in `src/`, the TLC configurations that check
them, and proofs of the main results that TLAPS checks. `PROJECT.json` lists the
components, the runs, the source lines each definition models, the hazards and
the theorems; this file explains them.

## The system

`yerd-dump` is loaded into every PHP worker. The engine calls it at RINIT and
RSHUTDOWN of each request and before (`begin`) and after (`end`) each call of a
few observed functions. It turns what it sees into frames, one JSON line each,
and sends them to Yerd's dump server over a loopback TCP connection.

| part | state | operations | hard behaviour | correct when |
|---|---|---|---|---|
| PDO query observer, `observers/queries.rs` | thread-locals STARTS (a stack of start times), BINDS and PENDING (maps keyed by statement handle) | `on_begin`, `on_bind`, `on_end`, `on_fetchall`, `flush`, `reset` | pairing `begin` with `end` and bind/execute/fetchAll by handle through nesting, failures, bailouts, fibers, handle reuse and requests | each execution is told once, with its own time, stamp, values and row count |
| connection, `transport.rs` | `Conn::Idle/Live/Dead` | `send`, `connect` | partial non-blocking writes, a server that stalls, dies or restarts | lines arrive whole and in order, one connect per request, never a stall |
| request context, `request.rs`, `lib.rs` | CTX (a RefCell), process-wide id seed and counter | `on_rinit`, `on_rshutdown`, `active`, `emit`, `emit_at`, summary | re-entrancy while borrowed, panics and bailouts, forked and killed workers | a frame belongs to its request, within the features of its snapshot; the summary comes last |
| configuration, `config.rs` | the INI path; state.json on disk | `State::load` per request | Yerd rewrites the file at any time | a request uses one document, or none |
| dispatch, `observer.rs`; handlers `events.rs`, `dumps.rs`, `http.rs` | none | `begin`, `end`, `on_dispatch`, `on_dump`, `on_curl_exec_end` | coarse and fine gates, PHP code called back while capturing | only enabled categories, no context borrowed across PHP code |
| panic firewall, `panic.rs` | a once-only hook | `guard` | a panic in the middle of a callback | the request goes on, the context stays usable |
| the worker: context and connection together | CTX owns the `Conn` | all of the above | a context left by a failed RSHUTDOWN, a worker killed within a send, a server that stops between two lines | a connection carries one request; a summary that arrived vouches for what came before |
| payloads: `frame.rs`, `render.rs`, `caller_location`, `substitute` and `sql_literal` | the variables of their loops | truncation, rendering, call-site choice, placeholders | cuts inside a character or an escape, cyclic values, quotes and names in SQL, frames of vendor in any order | a cut field keeps every character that fits, and the text says what the value, the stack or the statement is |

The engine calls the observer; the observer asks the request context whether its
feature is on and hands it payloads; the context encodes them and writes to its
connection. Nothing runs concurrently inside a worker except PHP fibers; workers
share only state.json and the server.

## Modules

| module | models | checked by |
|---|---|---|
| `Queries` | `queries.rs`, with the parts of `observer.rs`, `lib.rs`, `request.rs` that drive it | `MCQueries` |
| `QueryLedger` | abstract: an execution that succeeds is owed, then told exactly once | `Queries!ImplementsLedger` |
| `QueriesProofs` | proofs about `Queries`: types and times | tlapm |
| `QueryHistoryProofs` | proofs about what is told of the executions, for any application | tlapm |
| `QueryRowsProofs` | proofs about the rows (for a disciplined application) and the values told of a statement; the refinement of `QueryLedger` | tlapm |
| `SequenceLemmas` | lemmas: sequences as stacks, texts put together (`FlattenSeq`), counting, induction over a set of numbers | tlapm |
| `Transport` | `transport.rs`, with the kernel buffer and the server | `MCTransport` |
| `LineStream` | abstract: whole lines in order until the stream ends | `Transport!ImplementsLineStream` |
| `TransportProofs` | proofs about `Transport` | tlapm |
| `Request` | `request.rs`, `config.rs`, `lib.rs`, `panic.rs`, `observer.rs` and the gates and control flow of the handlers | `MCRequest` |
| `RequestProofs` | proofs about `Request` | tlapm |
| `Worker` | one worker of `Request` with the `Transport` its context owns | `MCWorker` |
| `WorkerProofs` | proofs about `Worker`, from those of its parts | tlapm |
| `CallSite` | `caller_location`, `is_internal_path` | `MCPayload` |
| `SqlText` | `substitute`, `sql_literal` | `MCPayload` |
| `FrameText` | `truncate`, of the fields of a frame | `MCPayload` |
| `Render` | `render_into` | `MCPayload` |
| `PayloadProofs` | proofs about `CallSite`, `SqlText`, `FrameText` and `Render` | tlapm |

Operators whose comment begins with "Mutant of" are not part of the model: each
is a plausible bug, used to confirm that a property can fail.

### Queries

`starts`, `binds`, `pending` are the thread-locals; `on` is `active(Queries)`,
fixed at RINIT; `frames` is what `emit_query` handed to the request. `phase`
separates RINIT, the running script and RSHUTDOWN; `draining` is the Vec that
`flush` collected. The engine and PDO are external: `stacks` are the open calls
of each fiber, `stmt` the statement behind each handle. `ran` records every
observed execution, as the truth that the properties compare with.

Each `begin` and each `end` is one action, with everything the handler does:
`EndExecute` pops the start, removes the binds, asks for the row count and defers
or emits. Data are identities: a bound value is the number of the bind that
supplied it, a row count the number of the execution whose rows were counted (0
is null), a time the call that pushed the start. `AppMay` says which liberties
the application takes: executing a statement again before its rows were fetched
(`reexecute`), freeing a statement whose rows it was given and did not fetch
(`drop`), failing calls (`fail`), fatal errors and `exit` (`bailout`),
assigning a variable bound by reference (`reference`). What it always may do is to
free a statement with values bound and never executed, to pass an array longer than the
`ArrayCap` entries the observer takes (512 in the code), and to retry or free at once a
read that failed: PDO gives no rows for it, so `unread` is for reads that succeeded.

A statement's `sql` is `opaque` where the observer's early returns apply: an argument
or a queryString that is missing or not UTF-8. Such a call may succeed all the same; it
leaves no frame and is not among the executions of `ran`, only its start is popped.
`tidy` says of a statement what `ShownIsUsed` needs: every value bound since it last
executed was accepted and named the next position, and no earlier statement under its
handle was freed with values unexecuted, nor an execute of it abandoned by a bailout.

`bailout` abandons the open calls without their `end`, as `dumps.rs:3-4` says the
engine does. An engine that ends them without a return value instead is covered
by `fail`: the ends are then the failing ones, innermost first.

Abstracted: SQL text (a statement is a read, a write or opaque; `SqlText` has the
characters), JSON, call sites (`CallSite`). Left out: rows fetched one by one before a `fetchAll` of the rest; a
`rowCount()` overridden by a subclass that makes observed calls; the failure of
`flush` half-way (in `Request`). A handle that `PDO::query` will return is
reserved when the call begins.

### Transport

One request's connection at a time, over several requests of one worker. A line
is a position and a number of parts, the last one its newline; `written` is the
progress of `write_all`; the kernel holds at most `Room` parts that the reader has
not taken. `WriteFails` is `WouldBlock` on a full buffer or an error of a peer that
went away. The server reads, stalls, stops and starts between any two writes. A
connection ends at RSHUTDOWN, when RINIT replaces one that a failed RSHUTDOWN left
(`Rinit` in phase "running"), or with a worker that is `Killed`, also within a send.

`LineStream` is what the reader is promised. Its `whole` is the number of whole lines
on the wire, its `ended` that the connection is dead; parts, buffers and the server
disappear in it.

### Request

Several worker processes. `file` is state.json, rewritten by Yerd at any moment,
`NoDoc` standing for missing, garbage or half-written. `ctx` is CTX and `borrowed`
its RefCell flag; `stack` are the handlers a worker is in: a handler *captures*,
which for dispatched events and queries may call PHP code (magic getters, a
subclass's `rowCount`) and so open handlers within it, then *emits*. A panic ends a
handler and releases its borrow; a bailout abandons all open handlers without
unwinding; a panic in RSHUTDOWN leaves the context for the next RINIT to replace.
`Category` is the table of `dispatch_object` and `dispatch_string`. RSHUTDOWN is one
step per deferred read, one for the summary and one for `CTX = None`.
`Respawn` is a worker recycled or killed at any point. `clash` records an access
to a borrowed context, which in the code is a panic.

Assumed: `getrandom` succeeds and does not repeat itself (the code's fallback, seed
0, makes ids of different workers collide; the code calls ids best-effort); the
first request of a process comes after its fork; RINIT itself does not panic.

### Worker

`Worker` EXTENDS `Request` for a single worker `Me` and takes `Transport` as an
instance, whose phase is "running" while there is a context. A step of the worker
determines what happens to the connection: a frame told is `Hands` (a `Send` of
Transport), a new context is `Opens`, a context dropped is `Closes`, anything else
leaves it `Untouched`. Between the `Send` and the end of its `write_all` the worker
takes no other step, but Yerd, the server and the signal that kills it do. `owner` and
`base` are history: whose connection it is, and how many frames were told before.

So the frames that `Request` counts as told become lines that may be on the wire,
cut short, or lost: `WireIsRequest` says which request they are of and
`SummaryComplete` what a reader may conclude from a summary. `Queries` is not part of
the composition: its frames are those of category "queries", and which reads wait is
only counted here.

### Payloads

The four modules share nothing; `MCPayload` runs one of them in each behaviour. A
step is an iteration of the loop, or a call of the recursion.

* `CallSite`: a file is the list of its directories; `Found`, `FallBack` and `WalkPast`
  are the branches of the loop. `Separator` is the platform's.
* `SqlText`: a character is one of those the scanner tells apart. What is written keeps
  the place it was copied from, so that `StringsStayStrings` can compare: read as SQL,
  each copied character is inside a string in the result exactly if it was before.
  `ReplacesPlaceholders` compares with the definition of a placeholder by the parity
  of the quotes before it and its rank, at every step of the scan.
* `FrameText`: a text is its length and its character boundaries; the fields of a frame
  are cut one after the other, each at `Cap`.
* `Render`: arrays are in a heap, as PHP references let an array contain itself;
  `calls` is the recursion. What is shown is compared with the values that the paths
  of up to `MaxDepth` indices lead to (`At`), in their order.

## Runs

Each run finishes within three minutes (two workers each, two runs side by side); the
largest are `r_requests` (3.6 million states) and `q_ledger` (1.1 million).
CHECK_DEADLOCK is off everywhere because the bounds on calls, lines and requests, the
end of the last request, and the end of a loop really stop the system.

| run | shows | bounds |
|---|---|---|
| `q_free` | TypeOK, TimerOwn, StampKept, FramedOnce, LostOnlyToOverwrite under any use of a statement | 2 handles (symmetric), 3 calls nested up to 2, 2 requests; all of `AppMay` but references |
| `q_values` | ShownIsUsed, TimerUsedOnce, NoCarryOver for positional and named values, with two fibers | 1 handle, 2 positions and 1 name, 2 binds, arrays of up to 2 of which 1 is taken, 2 calls, 2 requests; all of `AppMay` but `drop` |
| `q_ledger` | the disciplined application: NoReadLost, RowsOwn, refinement of QueryLedger, EventuallyTold | 2 handles, 3 calls nested up to 2, 2 requests; failures and bailouts |
| `t_lines` | no splicing, completeness, one connect, Dead is final, send returns, refinement of LineStream | 4 lines of up to 3 parts, 5 parts of buffer, 2 requests |
| `r_requests` | TypeOK, NoClash, SummaryLast, GatedBySnapshot, IdGroups | 2 workers (symmetric), 2 requests, 3 observed calls nested up to 2, 2 arguments, 1 toggle, 4 documents, 3 seeds |
| `worker` | WireIsRequest, SummaryComplete, ShutdownEnds | 1 worker, 2 requests, 2 observed calls, lines of up to 2 parts, 3 parts of buffer, 1 toggle |
| `payload` | the four loops against what they should compute | stacks of 3 frames with paths of 2 directories, statements of 4 characters (5 without "other"), 2 values, fields of 8 bytes, 2 arrays of 3 items, depth 3, breadth 2 |
| `v_reexecuted` | a read executed again before a fetchAll is lost | violation |
| `v_rows` | a stale deferred read takes another statement's row count | violation |
| `v_sqlfull` | `sql_full` shows values the statement did not run with | violation |
| `v_vendor` | with backslashes a frame of vendor is reported | violation |
| `v_literal` | a literal cut within a doubled quote stays open | violation |

Why the bounds are enough: the observer's maps interact only through one handle
(two handles show reuse and independence); an overwrite needs two executions and
a misattribution a third call; with two binds a statement is executed with both
positions or with its name bound twice, or executed again with one value bound anew;
two requests show everything `reset` is for; a splice needs a failed line and one after it, a lost line a buffer smaller than
two lines; ids collide between two workers or between two requests of one, and a
worker that is replaced draws the third seed; in `worker` the second request meets
what the first one left. In `payload` every branch of each loop is taken before and
after every other; three items exceed the breadth, and a cyclic array any depth.

### The five disagreements

* `v_reexecuted` (`queries.rs:173`): a prepared SELECT read row by row in a loop of
  executions reports only its last execution, since PENDING keeps one read per
  handle; `queries.rs:13-14` and the README say such reads are flushed. The same
  happens to a discarded `PDO::query` whose handle is reused.
* `v_rows` (`queries.rs:202`): `fetchAll` of a statement that deferred nothing takes a
  read left under its handle by a freed statement, and reports the count of its own
  rows for it. BINDS has the same weakness: the binds of a statement freed before it
  executed are shown for the next one with its handle, which is then not `tidy`.
* `v_sqlfull` (`queries.rs:103-104`, `327`, `343`): positions are not kept, and the binds
  are forgotten at each execution although PDO keeps them; a `bindParam` loop or an
  array with keys out of order is shown with other values than it ran with. So is an
  array of more than 512 values, whose last placeholders stay `?` (`queries.rs:338`).
* `v_vendor` (`zend_util.rs:84`): vendor is recognised by forward slashes only, so that the
  Windows build reports the innermost userland frame, usually in vendor. `payload`
  and the theorem `VendorSkipped` show the claim of the README elsewhere.
* `v_literal` (`queries.rs:425`): a string is cut at `BINDING_STR_CAP` after its quotes were
  doubled; a cut between two of them leaves an odd number, and from there on strings and
  statement change places in `sql_full`. `payload` shows `StringsStayStrings` for values
  that are not cut, or are cut elsewhere.

`LostOnlyToOverwrite`, `ShownIsUsed` and `q_ledger`, with its restricted `AppMay`, say
how far the observer can be relied on in spite of them.

## Fairness

`Queries!FairSpec`: every open call of a fiber eventually ends and RSHUTDOWN runs to
its end: PHP returns from the calls it makes, `max_execution_time` ends a script that
would not, and the module's shutdown code has no loop that waits.
`Transport!FairSpec`: only the worker's own `write_all` makes progress; nothing is
assumed of the server, which is the point of `SendReturns`.
`Worker!WFairSpec`: only RSHUTDOWN and `write_all` make progress (`Ends \/ Writes`):
once begun, both run without waiting for anything. That the application ends its
request is not assumed: `ShutdownEnds` is about the shutdown.
The other specifications state no fairness.

## Proofs

TLAPS proves the following for every value of the constants that satisfies the
`ASSUME`s of the module: any number of workers, handles, parameters and documents,
any bounds, any depth of nesting.

| module | theorem | states |
|---|---|---|
| `QueriesProofs` | `TypeCorrect` | `[]TypeOK` |
| | `TimesAreOwn` | `[]TimerOwn`, for a single fiber (`Fibers = {m}`) |
| `QueryHistoryProofs` | `StampsAreKept` | `[]StampKept` |
| | `ToldOnce` | `[]FramedOnce` |
| | `OnlyOverwritesLose` | `[]LostOnlyToOverwrite` |
| | `StartsAreUsedOnce` | `[]TimerUsedOnce` |
| | `NothingCarriedOver` | `[]NoCarryOver` |
| `QueryRowsProofs` | `ReadsAreNotLost` | `[]NoReadLost`, if `Disciplined` |
| | `RowsAreOwn` | `[]RowsOwn`, if `Disciplined` |
| | `ShownAreUsed` | `[]ShownIsUsed` |
| | `KeepsTheLedger` | `Queries!Spec => QueryLedger!Spec` under the mapping, if `Disciplined` |
| `TransportProofs` | `TransportTypeCorrect` | `[]TypeOK` |
| | `LinesNotSpliced` | `[]NoSplice` |
| | `LiveHasAll` | `[]LiveIsComplete` |
| | `ConnectsOnce` | `[]ConnectOnce` |
| | `DeadStaysDead` | `DeadIsFinal`, an action property |
| | `LinesRefined` | `Transport!Spec => LineStream!Spec` under the mapping |
| `RequestProofs` | `TypeCorrect` | `[]TypeOK` |
| | `NeverClashes` | `[]NoClash` |
| | `GatedByTheSnapshot` | `[]GatedBySnapshot` |
| | `SummaryIsLast` | `[]SummaryLast` |
| | `IdsGroup` | `[]IdGroups` |
| `WorkerProofs` | `LinesAreTheRequests` | `[]WireIsRequest` |
| | `SummaryVouches` | `[]SummaryComplete` |
| `PayloadProofs` | `VendorSkipped` | `[]SkipsVendor`, where the separator is `/` |
| | `NearestFound` | `[]NearestOtherwise`, where the separator is `/` |
| | `PlaceholdersReplaced` | `[]ReplacesPlaceholders` |
| | `FittingLiteralsClose` | a string that fits `StrCap` once escaped has an even number of quotes as a literal |
| | `StringsStay` | `[]StringsStayStrings`, if `AllClose` |
| | `CutsAtCharacters` | `[]CutAtCharacter` |
| | `ShownInOrder` | `[]ShowsInOrder`, for every heap |

**The clock.** `TimerOwn` looks only at frames and waiting reads; why a pop of
STARTS finds the right start is `StackInv`: the starts of the open observed calls are
the top of STARTS, in the order of the calls (`InStep`), and below them lie at most
starts that a bailout left, which a later pop never reaches. `TimerInv` is the two
together. The proof follows what a step adds: a query becomes known only when a call
ends (`NewKnown`), and that call's start is then on top. With two fibers the
statement is false, since STARTS is one stack for both: what is left of it is
`TimerUsedOnce`.

**What is told of an execution.** `Kinds` sorts the steps once and for all: an
execution is recorded and told at once (`ToldAtOnce`), recorded and left waiting
(`Deferred`), a waiting one is told (`Fetched`), or nothing is new; RINIT and RSHUTDOWN
come on top (`StepKinds`). Each invariant is then proved over these few cases.
`IdInv`: an open call has a serial number of its own, which no execution has yet, so a
query just made is of an execution never seen. `PhaseInv`: reads wait under handles
only while the request runs, and in the drained Vec only while it is flushed.
`SoleInv` strengthens FramedOnce to one query for each execution; `LostInv` says that
what waits under a handle was deferred under it, which is needed to blame the
overwrite; `StartInv` that no start on the stack is twice there or was already
used; `CarryInv` that neither the maps nor the open calls hold anything older than the
request.

**The rows.** `Disciplined` is `"reexecute" \notin AppMay` and `"drop" \notin AppMay`: the
rows of a read that succeeded are read before the statement executes again or is freed.
`DiscInv`: a read that succeeded waits only for rows that are due, and a call that
executes a statement has it to itself with no rows due, so that `Defer` overwrites only
what failed (`Vacant`, `DeferVacant`) and no read that succeeded is lost. `RowsInv`: the
statement under a handle where such a read waits still has the rows of that read, so a
`fetchAll` counts the right ones. Failures, bailouts and any number of fibers are
allowed; `v_reexecuted` and `v_rows` show that the assumption is needed. A read that
failed is deferred like any other and may be overwritten by its retry
(`queries.rs:171-187`): of it `LostOnlyToOverwrite` is what holds.

**The values.** `ShownIsUsed` is proved of every application; what it needs is in `tidy`.
`Fills(bs, v)` says when the binds `bs` show the values `v`: the positions are filled
from the first on without a gap, each name by its last bind (`FillsShow`); a bind of the
next position or of a name keeps it so (`FillsNext`), and an array in order, taken whole,
is such a sequence of binds (`ArgsFill`).
`BoundInv` says of each handle that its BINDS fill the parameters with what was bound
since the statement last executed (`BoundAt`), and of each open call that the binds its
query will be made with fill the parameters it runs with (`CallAt`). It needs to know
that a query or an execute has its handle to itself but for a fetchAll begun before it,
so that nothing is bound there meanwhile, and that a statement that is gone left nothing
in BINDS or is untidy (`GoneIs`, `NewIs`). A query is shown as `BoundInv` had it when
its call ended (`ExecutedShown`), and `KnownShown` keeps that while it waits. That a
tidy statement is needed, `v_sqlfull` shows.

**The ledger.** It knows the executions that succeeded; a failed one only advances its
count (`Fail`). `StepLedger` maps each kind of step: `Deferred` is `Owe`, `ToldAtOnce` is
`TellAtOnce`, `Fetched` and each `FlushEmit` are `Tell`, each of them a stutter or `Fail`
if the execution failed, RINIT is `NextRequest`, and the rest stutters. `SoleInv` shows
that telling takes exactly one entry from what is owed, `ExecutedFresh` that a new entry
is new and next in order, and `SucceedsOnce` that an entry does not change its mind.

**The wire.** `WireInv` adds where a line under way stands: it begins on an empty wire
or after a whole line (`LineStarts`), or continues the last part on the wire
(`LineContinues`), and a connection is dead as soon as a line fails. Without it a
line could begin after half of another.

**The request context.** `HandlersInv`: of the handlers a worker is in, all but the
innermost capture; a borrow is held only while the innermost one emits, and then its
category is allowed. It is needed for the types too (a frame is built from a context
that must exist). `SnapshotInv`: a context that is within a request holds what was
loaded for that request, and two workers are never in the same request. `SummaryInv`:
a worker within a request has not told its summary yet. `IdInv`: the ids of a process
are below its counter and its seed is no other process's, so an id drawn at RINIT is
carried by no frame. `StepKinds` sorts the steps into those that tell a frame, that
begin a request, and the rest; each invariant is proved over these three.

**The lines.** `LinesRefined` maps each step: a `Send` offers a line, the `Write` that
brings a newline delivers it, a failure or a kill ends the stream, and the rest
stutters. `WireInv` supplies what the abstract guards ask for: a line is offered only
when the one before is whole or the connection dead (`NothingPending`), and at most one
line is under way (`OnePending`).

**The worker.** Each step of `Worker` names the step of Transport it takes, so that
Transport's specification holds of the connection by construction (`ConnectionSpec`, a
lemma and no result: it only lets what TransportProofs shows be cited). The theorems of
RequestProofs hold of the context (`WorkerIsRequest`). `LinesAreTheRequests` joins the
two: a frame's request is the owner of the connection it is handed to, because a
context and its connection are opened and dropped in the same step. `SummaryVouches`
then needs `SummaryLast` from one side and the order of whole lines from the other.

**Payloads.** `WalkInv`: every frame before the current one is no application frame,
and the fallback is the first userland frame among them. `TextInv`: the loop of
truncate passes no boundary within the cap.

`ScanInv`: the scanner is within a string exactly if the quotes before it are odd, has
taken as many values as there were placeholders (up to those it has), and is past every
name it replaced. With it each step appends what `Written` says of the places it
passes, so that `out` is the text of all places up to `at` (`FlattenConcat` and
`FlattenNext` of `SequenceLemmas`). `StringInv` adds that what is written ends within a
string when what is read does. A literal may break that, so `StringsStay` assumes
`AllClose`: every literal of the values bound has an even number of quotes.
`FittingLiteralsClose` shows it of every string that fits `BINDING_STR_CAP` after its
quotes were doubled, and `v_literal` that it fails of some that are cut.

`OrderInv`: the calls under way lie along a path of the value (`Placed`), and what was
shown is exactly what is no longer ahead of their loops (`Left`), in the order of the
paths. `RenderStep`, `ItemStep`, `MoreStep` and `CloseStep` each move one path from one
side to the other, or none. When no call is left nothing is ahead, so every path was
shown (`AllShown`); the order is strict, so each was shown once.

Assumptions beyond the types of the constants: `IdsGroup` rests on seeds that do not
repeat (`FreshSeed`), as stated above. A placeholder's name is no position and not `?`
(`QueriesAssumption`), no letter of a name is a quote, `?` or a colon
(`ScanAssumption`), and a heap's arrays are told from its other values
(`RenderAssumption`). What a theorem supposes of the application or the platform is in
its statement: a single fiber, `Disciplined`, `AllClose`, `Posix`.

What a whole sequence adds up to is proved by induction over its length: `SetInduction`
states it for a set of numbers, because the library's theorem takes an operator, which
the provers cannot instantiate. `FlattenSeq` and the other folds are reasoned about from
their definitions in this way.

Every safety and action property of the passing runs is a theorem. Only model-checked is
liveness (`EventuallyTold`, `SendReturns`, `ShutdownEnds`), which is out of the prover's
reach: it rests on fairness, whose meaning is in terms of ENABLED. The invariants that
only the proofs need (`BoundInv`, `StringInv`, `OrderInv` and so on) are not runs of
their own: the theorems hold them for every instance.

## Plan

Done: the query observer with its refinement of `QueryLedger`, the transport with that of
`LineStream`, the request context, the composition of the last two in `Worker`, and the
loops that make a payload. Next, in this order:

1. `Queries` within `Worker`, so that an execution told is a line that arrived unless the
   connection died.
2. The length of what `Render` writes, and the cut of the HTML made of it.

## Not modelled

MINIT (INI registration, one-time caching of the path): it runs once, before any
request. `classify`'s table of names, `fn_identity` and the other readers of engine
structures: they keep no state. serde's JSON encoding, `html_escape`, the JSON of the
bindings, `build_line` (one comparison of an encoded line with MAX_LINE; that the line
with the marker is not checked again is listed as a hazard), the property values of events, the fields of the HTTP and request frames,
the silent panic hook: wording and layout, which no property is about. The wall clock:
stamps are distinct and increasing in the models, while `now_ms` may tie or go back.
The build, release and smoke-test scripts have no state of the program.
