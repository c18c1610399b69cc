------------------------------ MODULE Request ------------------------------
(* The request context of the workers (src/src/request.rs) and everything     *)
(* that enters it: the request callbacks (lib.rs), the observer's two         *)
(* callbacks and the handlers they dispatch to (observer.rs, observers/),     *)
(* each behind the panic guard (panic.rs), and the state.json that Yerd       *)
(* rewrites at any moment (config.rs).                                        *)
(*                                                                            *)
(* A handler captures what it reports, then emits it.  Capturing may call     *)
(* PHP code (a magic getter, a rowCount() of a subclass), which may make      *)
(* observed calls in its turn; emitting borrows the context and may not.      *)
(* Frames of the query observer deferred by a read are only counted here:     *)
(* Queries models which they are.  The connection is modelled by Transport:   *)
(* here every frame reaches it; Worker composes the two.                      *)
EXTENDS Naturals, FiniteSets, SequencesExt

CONSTANTS
  Workers,      \* PHP worker processes, each serving one request at a time
  Docs,         \* the documents Yerd writes
  Seeds,        \* what getrandom may return
  NoSeed, NoCtx, NoDoc,   \* unset SEED, CTX = None, a file that is no document
  MaxRequests,  \* bound: requests, over all workers
  MaxFires,     \* bound: observed calls, over all workers
  MaxArgs,      \* bound: arguments of one dump call
  MaxDepth,     \* bound: handlers open at once in a worker
  MaxToggles    \* bound: changes of state.json

\* request.rs `enum Feature`; a frame's category is the feature that gates it.
Feature == {"dumps", "queries", "jobs", "views", "requests", "logs", "cache", "http"}
Dispatched == {"jobs", "cache", "logs", "views"}

\* The events that are reported, by class or by the prefix of their name.
Category ==
  [JobProcessing |-> "jobs", JobProcessed |-> "jobs", JobFailed |-> "jobs",
   CacheHit |-> "cache", CacheMissed |-> "cache", KeyWritten |-> "cache",
   KeyForgotten |-> "cache", MessageLogged |-> "logs",
   composing |-> "views", creating |-> "views"]
State == [enabled : BOOLEAN, port : Nat, features : SUBSET Feature]

ASSUME RequestAssumption ==
  /\ Docs \subseteq State
  /\ NoDoc \notin State /\ NoSeed \notin Seeds
  /\ MaxRequests \in Nat /\ MaxFires \in Nat /\ MaxArgs \in Nat
  /\ MaxDepth \in Nat /\ MaxToggles \in Nat

Id      == Seeds \X Nat
Ctx     == [id : Id, features : SUBSET Feature]
ASSUME NoCtxAssumption == NoCtx \notin Ctx
Handler == [cat : Feature, left : Nat, stage : {"capture", "emit"}]
Frame   == [id : Id, cat : Feature, req : Nat]

VARIABLES
  file,      \* state.json: a document, or NoDoc when missing, torn or garbage
  phase,     \* of each worker: "idle", "running"; in RSHUTDOWN "flush", "closing"
  ctx,       \* CTX of each worker
  borrowed,  \* CTX is mutably borrowed
  stack,     \* the handlers a worker is in, innermost last
  deferred,  \* the reads waiting in PENDING
  seed,      \* SEED of each worker process
  counter,   \* COUNTER of each worker process
  frames,    \* the frames handed to connections, in order
  taken,     \* seeds that getrandom has returned
  req,       \* history: the request each worker serves, or served last
  loaded,    \* history: what the file allowed when each request began
  clash,     \* history: CTX was entered while it was borrowed
  fires,     \* observed calls so far
  toggles    \* changes of state.json so far

process == <<seed, counter, taken>>
history == <<req, loaded>>
vars == <<file, phase, ctx, borrowed, stack, deferred, process, frames, history,
          clash, fires, toggles>>

\* PHP code of the worker runs: outside any handler, or called by one that
\* captures.  The engine may re-enter the two kinds of handler that call PHP.
Reentrant(h) == h.stage = "capture" /\ h.cat \in Dispatched \cup {"queries"}
PhpRuns(w) == /\ phase[w] = "running"
              /\ stack[w] # <<>> => Reentrant(Last(stack[w]))
InHandler(w, stage) == stack[w] # <<>> /\ Last(stack[w]).stage = stage

-----------------------------------------------------------------------------
(* state.json and the identity of a request.                                 *)

\* State::from_slice: what a document allows, nothing when it is off.
Gated(doc) == doc # NoDoc /\ doc.enabled /\ doc.port # 0
Allowed(doc) == IF Gated(doc) THEN doc.features ELSE {}

\* Mutant of Allows: the file is read again instead of the request's copy.
AllowsNow(w, f) == ctx[w] # NoCtx /\ f \in Allowed(file)

\* active(), and the same test in emit_at and emit_request_summary.
Allows(w, f) == ctx[w] # NoCtx /\ f \in ctx[w].features

\* Entering CTX while it is borrowed would panic.
Borrow(w) == clash' = (clash \/ borrowed[w])

\* Mutant of FreshSeed: the seed is drawn before the master forks its workers.
SharedSeed(w, s) == s = CHOOSE t \in Seeds : TRUE

\* SEED.get_or_init in the worker; getrandom never repeats itself.
FreshSeed(w, s) == IF seed[w] = NoSeed THEN s \in Seeds \ taken ELSE s = seed[w]

Init == /\ file \in Docs \cup {NoDoc}
        /\ phase = [w \in Workers |-> "idle"]
        /\ ctx = [w \in Workers |-> NoCtx]
        /\ borrowed = [w \in Workers |-> FALSE]
        /\ stack = [w \in Workers |-> <<>>]
        /\ deferred = [w \in Workers |-> 0]
        /\ seed = [w \in Workers |-> NoSeed]
        /\ counter = [w \in Workers |-> 0]
        /\ frames = <<>> /\ taken = {}
        /\ req = [w \in Workers |-> 0] /\ loaded = <<>>
        /\ clash = FALSE /\ fires = 0 /\ toggles = 0

\* Yerd (external) replaces the file, removes it, or is seen half-way.
Toggle(doc) ==
  /\ toggles < MaxToggles /\ doc # file
  /\ file' = doc /\ toggles' = toggles + 1
  /\ UNCHANGED <<phase, ctx, borrowed, stack, deferred, process, frames, history, clash, fires>>

\* Mutant of NoContext: CTX is assigned only when the file gives a context.
KeepsContext(w) == UNCHANGED <<ctx, process>>

\* State::load gave none.
NoContext(w) == ctx' = [ctx EXCEPT ![w] = NoCtx] /\ UNCHANGED process

\* RINIT: queries::reset(), then a context if the file says so; an id is drawn
\* only then.  The previous context, if any, is dropped.
Rinit(w) ==
  /\ phase[w] = "idle" /\ Len(loaded) < MaxRequests
  /\ phase' = [phase EXCEPT ![w] = "running"]
  /\ deferred' = [deferred EXCEPT ![w] = 0]
  /\ req' = [req EXCEPT ![w] = Len(loaded) + 1]
  /\ loaded' = Append(loaded, Allowed(file))
  /\ Borrow(w)
  /\ IF Gated(file)
     THEN \E s \in Seeds :
            /\ FreshSeed(w, s)
            /\ seed' = [seed EXCEPT ![w] = s] /\ taken' = taken \cup {s}
            /\ counter' = [counter EXCEPT ![w] = @ + 1]
            /\ ctx' = [ctx EXCEPT ![w] = [id |-> <<s, counter[w]>>, features |-> file.features]]
     ELSE NoContext(w)
  /\ UNCHANGED <<file, borrowed, stack, frames, fires, toggles>>

-----------------------------------------------------------------------------
(* The observer's callbacks: gate, then capture.                             *)

\* Mutant of Open: what is reported is captured inside make_payload.
OpenBorrowing(w, cat, n) ==
  /\ stack' = [stack EXCEPT ![w] = Append(@, [cat |-> cat, left |-> n, stage |-> "capture"])]
  /\ borrowed' = [borrowed EXCEPT ![w] = TRUE]

\* A handler past its gate reads its arguments before it touches the context.
Open(w, cat, n) ==
  /\ stack' = [stack EXCEPT ![w] = Append(@, [cat |-> cat, left |-> n, stage |-> "capture"])]
  /\ UNCHANGED borrowed

\* An observed call whose feature is off does nothing more.
Observe(w, gates, cat, n) ==
  /\ PhpRuns(w) /\ fires < MaxFires /\ Len(stack[w]) < MaxDepth
  /\ fires' = fires + 1
  /\ Borrow(w)
  /\ IF \E f \in gates : Allows(w, f) THEN Open(w, cat, n) ELSE UNCHANGED <<stack, borrowed>>
  /\ UNCHANGED <<file, phase, ctx, process, frames, history, toggles>>

\* VarDumper::dump, in `begin`: one frame per argument.
OnDump(w, n) == Observe(w, {"dumps"}, "dumps", n) /\ UNCHANGED deferred

\* Dispatcher::dispatch, in `begin`: the cheap gate is any of four features; the
\* event decides the category.  Other events are among those that Skip ends.
OnDispatch(w, event) ==
  Observe(w, Dispatched, Category[event], 1) /\ UNCHANGED deferred

\* A query's `end` (its `begin` only starts the clock).
OnQueryEnd(w) == Observe(w, {"queries"}, "queries", 1) /\ UNCHANGED deferred

\* The `end` of a fetchAll: a deferred read is taken before it is emitted.
OnFetchAll(w) ==
  /\ deferred[w] > 0 /\ Allows(w, "queries")
  /\ Observe(w, {"queries"}, "queries", 1)
  /\ deferred' = [deferred EXCEPT ![w] = @ - 1]

\* curl_exec, in `end`: the result is read with curl_getinfo.
OnCurlExecEnd(w) == Observe(w, {"http"}, "http", 1) /\ UNCHANGED deferred

\* The rest of the handler when an argument is done with: the next one, if any.
Continue(w) ==
  LET h == Last(stack[w])
  IN  IF h.left > 1
      THEN Append(Front(stack[w]), [cat |-> h.cat, left |-> h.left - 1, stage |-> "capture"])
      ELSE Front(stack[w])

\* Nothing to report (an event of no category, an empty url, a missing argument,
\* after which a dump continues), or a panic, with which the guard ends the whole
\* handler; the request goes on.
Skip(w) ==
  /\ InHandler(w, "capture")
  /\ \E rest \in {Continue(w), Front(stack[w])} : stack' = [stack EXCEPT ![w] = rest]
  /\ UNCHANGED <<file, phase, ctx, borrowed, deferred, process, frames, history,
                 clash, fires, toggles>>

\* A read waits for its rows: no frame yet.  It may replace another one.
Defer(w) ==
  /\ InHandler(w, "capture") /\ Last(stack[w]).cat = "queries"
  /\ stack' = [stack EXCEPT ![w] = Front(@)]
  /\ \E n \in {deferred[w], deferred[w] + 1} \ {0} : deferred' = [deferred EXCEPT ![w] = n]
  /\ UNCHANGED <<file, phase, ctx, borrowed, process, frames, history, clash, fires, toggles>>

\* A fatal error, exit or timeout in PHP code, or in an engine call of a handler,
\* abandons every open handler without unwinding Rust; the shutdown functions run.
Bailout(w) ==
  /\ phase[w] = "running" /\ InHandler(w, "capture")
  /\ stack' = [stack EXCEPT ![w] = <<>>]
  /\ UNCHANGED <<file, phase, ctx, borrowed, deferred, process, frames, history,
                 clash, fires, toggles>>

-----------------------------------------------------------------------------
(* request::emit_at.                                                         *)

FrameOf(w, cat) == [id |-> ctx[w].id, cat |-> cat, req |-> req[w]]

\* The context is borrowed and the category's own feature checked.
EmitAt(w) ==
  /\ InHandler(w, "capture")
  /\ Borrow(w)
  /\ IF Allows(w, Last(stack[w]).cat)
     THEN /\ borrowed' = [borrowed EXCEPT ![w] = TRUE]
          /\ stack' = [stack EXCEPT ![w] =
                         Append(Front(@), [Last(@) EXCEPT !.stage = "emit"])]
     ELSE /\ stack' = [stack EXCEPT ![w] = Continue(w)]
          /\ UNCHANGED borrowed
  /\ UNCHANGED <<file, phase, ctx, deferred, process, frames, history, fires, toggles>>

\* The payload is built, the line sent, the borrow given back.
Sent(w) ==
  /\ InHandler(w, "emit")
  /\ frames' = Append(frames, FrameOf(w, Last(stack[w]).cat))
  /\ stack' = [stack EXCEPT ![w] = Continue(w)]
  /\ borrowed' = [borrowed EXCEPT ![w] = FALSE]
  /\ UNCHANGED <<file, phase, ctx, deferred, process, history, clash, fires, toggles>>

\* A panic in between unwinds to the guard, giving the borrow back on its way.
EmitPanics(w) ==
  /\ InHandler(w, "emit")
  /\ stack' = [stack EXCEPT ![w] = Front(@)]
  /\ borrowed' = [borrowed EXCEPT ![w] = FALSE]
  /\ UNCHANGED <<file, phase, ctx, deferred, process, frames, history, clash, fires, toggles>>

-----------------------------------------------------------------------------
(* RSHUTDOWN: queries::flush(), the summary, the end of the context.          *)

\* Mutant of Rshutdown: the summary is emitted before the flush.
RshutdownSummaryFirst(w) ==
  /\ phase[w] = "running" /\ stack[w] = <<>>
  /\ phase' = [phase EXCEPT ![w] = "flush"]
  /\ frames' = IF Allows(w, "requests") THEN Append(frames, FrameOf(w, "requests")) ELSE frames
  /\ UNCHANGED <<file, ctx, borrowed, stack, deferred, process, history, clash, fires, toggles>>

Rshutdown(w) ==
  /\ phase[w] = "running" /\ stack[w] = <<>>
  /\ phase' = [phase EXCEPT ![w] = "flush"]
  /\ UNCHANGED <<file, ctx, borrowed, stack, deferred, process, frames, history,
                 clash, fires, toggles>>

\* Mutant of FlushOne: the reads are not drained.
FlushForever(w) ==
  /\ phase[w] = "flush"
  /\ deferred' = [deferred EXCEPT ![w] = @ - 1]
  /\ UNCHANGED <<file, phase, ctx, borrowed, stack, process, frames, history, clash, fires, toggles>>

FlushOne(w) ==
  /\ phase[w] = "flush" /\ deferred[w] > 0
  /\ Borrow(w)
  /\ deferred' = [deferred EXCEPT ![w] = @ - 1]
  /\ frames' = IF Allows(w, "queries") THEN Append(frames, FrameOf(w, "queries")) ELSE frames
  /\ UNCHANGED <<file, phase, ctx, borrowed, stack, process, history, fires, toggles>>

\* emit_request_summary.
Summarize(w) ==
  /\ phase[w] = "flush" /\ deferred[w] = 0
  /\ Borrow(w)
  /\ frames' = IF Allows(w, "requests") THEN Append(frames, FrameOf(w, "requests")) ELSE frames
  /\ phase' = [phase EXCEPT ![w] = "closing"]
  /\ UNCHANGED <<file, ctx, borrowed, stack, deferred, process, history, fires, toggles>>

\* CTX = None, which drops the connection.
OnRshutdown(w) ==
  /\ phase[w] = "closing"
  /\ Borrow(w)
  /\ ctx' = [ctx EXCEPT ![w] = NoCtx]
  /\ phase' = [phase EXCEPT ![w] = "idle"]
  /\ UNCHANGED <<file, borrowed, stack, deferred, process, frames, history, fires, toggles>>

\* One guard covers it all: a panic leaves the rest undone and the context, with
\* its connection, in place until the next RINIT; the drained reads are dropped.
ShutdownPanics(w) ==
  /\ phase[w] = "flush"
  /\ phase' = [phase EXCEPT ![w] = "idle"]
  /\ deferred' = [deferred EXCEPT ![w] = 0]
  /\ UNCHANGED <<file, ctx, borrowed, stack, process, frames, history, clash, fires, toggles>>

\* The worker process ends, recycled or killed, and the master forks another.
Respawn(w) ==
  /\ phase' = [phase EXCEPT ![w] = "idle"]
  /\ ctx' = [ctx EXCEPT ![w] = NoCtx]
  /\ borrowed' = [borrowed EXCEPT ![w] = FALSE]
  /\ stack' = [stack EXCEPT ![w] = <<>>]
  /\ deferred' = [deferred EXCEPT ![w] = 0]
  /\ seed' = [seed EXCEPT ![w] = NoSeed]
  /\ counter' = [counter EXCEPT ![w] = 0]
  /\ UNCHANGED <<file, taken, frames, history, clash, fires, toggles>>

-----------------------------------------------------------------------------
Fire(w) == \/ \E n \in 1..MaxArgs : OnDump(w, n)
           \/ \E event \in DOMAIN Category : OnDispatch(w, event)
           \/ OnQueryEnd(w) \/ OnFetchAll(w)
           \/ OnCurlExecEnd(w)

Handle(w) == Skip(w) \/ Defer(w) \/ EmitAt(w) \/ Sent(w) \/ EmitPanics(w)

Shutdown(w) == FlushOne(w) \/ Summarize(w) \/ OnRshutdown(w) \/ ShutdownPanics(w)

Next == \/ \E doc \in Docs \cup {NoDoc} : Toggle(doc)
        \/ \E w \in Workers : \/ Rinit(w) \/ Fire(w) \/ Handle(w) \/ Bailout(w)
                              \/ Rshutdown(w) \/ Shutdown(w) \/ Respawn(w)

Spec == Init /\ [][Next]_vars

-----------------------------------------------------------------------------
(* Properties.                                                               *)

\* The variables keep their types.
TypeOK ==
  /\ file \in Docs \cup {NoDoc}
  /\ phase \in [Workers -> {"idle", "running", "flush", "closing"}]
  /\ ctx \in [Workers -> Ctx \cup {NoCtx}]
  /\ borrowed \in [Workers -> BOOLEAN]
  /\ stack \in [Workers -> Seq(Handler)]
  /\ deferred \in [Workers -> Nat]
  /\ seed \in [Workers -> Seeds \cup {NoSeed}] /\ counter \in [Workers -> Nat]
  /\ taken \subseteq Seeds
  /\ frames \in Seq(Frame)
  /\ req \in [Workers -> Nat] /\ loaded \in Seq(SUBSET Feature)
  /\ clash \in BOOLEAN /\ fires \in Nat /\ toggles \in Nat

\* Whatever Yerd does to the file meanwhile, a request reports exactly within
\* what the file allowed when it began: a feature toggled, a file removed or seen
\* half-written takes effect at a request's boundary, and the coarse gate of the
\* dispatched events lets no other category through.
GatedBySnapshot == \A i \in DOMAIN frames : frames[i].cat \in loaded[frames[i].req]

\* A request id groups the frames of one request: no two requests of any workers
\* share an id, and after a failed shutdown, a bailout or a respawn no frame
\* carries the id of another request.
IdGroups == \A i, j \in DOMAIN frames :
              frames[i].id = frames[j].id <=> frames[i].req = frames[j].req

\* The summary is the last frame of its request, after the flushed reads, and
\* there is at most one.
SummaryLast == \A i, j \in DOMAIN frames :
                 i < j /\ frames[i].req = frames[j].req => frames[i].cat # "requests"

\* Nothing enters the context while it is borrowed (request.rs:127-131), through
\* re-entered handlers, bailouts that skip Rust's unwinding, and panics; a borrow
\* left behind would silence the worker for good.
NoClash == ~clash

\* Why they hold.  Only the innermost handler of a worker may be emitting, its
\* category allowed by the context it holds borrowed ..
Captures(s) == \A i \in 1..Len(s) : s[i].stage = "capture"
HandlersInv ==
  \A w \in Workers :
    /\ stack[w] # <<>> => phase[w] = "running" /\ Captures(Front(stack[w]))
    /\ \A i \in 1..Len(stack[w]) : stack[w][i].cat # "requests"
    /\ borrowed[w] => InHandler(w, "emit")
    /\ InHandler(w, "emit") => Allows(w, Last(stack[w]).cat)

\* .. a worker that may still report has its request's snapshot, and no other
\* worker's request ..
InRequest(w) == phase[w] \notin {"idle", "closing"}
SnapshotInv ==
  /\ \A w \in Workers : InRequest(w) =>
       /\ req[w] \in 1..Len(loaded)
       /\ ctx[w] # NoCtx => ctx[w].features = loaded[req[w]]
  /\ \A v, w \in Workers : v # w /\ InRequest(v) /\ InRequest(w) => req[v] # req[w]
  /\ \A i \in 1..Len(frames) : /\ frames[i].req \in 1..Len(loaded)
                               /\ frames[i].cat \in loaded[frames[i].req]

\* .. the ids of a process are below its counter, its seed is its own ..
IdInv ==
  /\ \A w \in Workers : ctx[w] # NoCtx => ctx[w].id[1] = seed[w] /\ ctx[w].id[2] < counter[w]
  /\ \A w \in Workers : seed[w] # NoSeed => seed[w] \in taken
  /\ \A v, w \in Workers : v # w /\ seed[v] # NoSeed => seed[v] # seed[w]
  /\ \A i \in 1..Len(frames) :
       /\ frames[i].id[1] \in taken
       /\ \A w \in Workers : frames[i].id[1] = seed[w] => frames[i].id[2] < counter[w]
       /\ \A w \in Workers : InRequest(w) /\ ctx[w] # NoCtx =>
            (frames[i].id = ctx[w].id <=> frames[i].req = req[w])
  /\ IdGroups

\* .. and a request whose summary is out is over.
SummaryInv ==
  /\ \A i \in 1..Len(frames), w \in Workers :
       frames[i].cat = "requests" /\ InRequest(w) => frames[i].req # req[w]
  /\ SummaryLast
=============================================================================
