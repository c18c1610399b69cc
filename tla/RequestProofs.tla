---------------------------- MODULE RequestProofs ----------------------------
(* Proofs about Request, for any workers, documents, seeds and bounds.        *)
EXTENDS Request, SequenceLemmas, SequenceTheorems, TLAPS

USE RequestAssumption, NoCtxAssumption

-----------------------------------------------------------------------------
(* Types.                                                                    *)

\* What remains of a handler after a frame has the type of a stack.
LEMMA ContinueType ==
  ASSUME TypeOK, NEW w \in Workers, stack[w] # <<>>
  PROVE  /\ Continue(w) \in Seq(Handler) /\ Front(stack[w]) \in Seq(Handler)
         /\ Last(stack[w]) \in Handler
<1>1. stack[w] \in Seq(Handler)
  BY DEF TypeOK
<1>2. Front(stack[w]) \in Seq(Handler) /\ Last(stack[w]) \in Handler
  BY <1>1, FrontProperties
<1> DEFINE h == Last(stack[w])
<1>3. h.left > 1 => [cat |-> h.cat, left |-> h.left - 1, stage |-> "capture"] \in Handler
  <2>1. h \in Handler
    BY <1>2
  <2> HIDE DEF h
  <2> QED
    BY <2>1 DEF Handler
<1> QED
  BY <1>2, <1>3, AppendProperties DEF Continue

\* A frame is told only with a context.
LEMMA FrameType ==
  ASSUME TypeOK, NEW w \in Workers, NEW cat \in Feature, ctx[w] # NoCtx
  PROVE  /\ FrameOf(w, cat) \in Frame
         /\ Append(frames, FrameOf(w, cat)) \in Seq(Frame)
<1>1. ctx[w] \in Ctx /\ req[w] \in Nat /\ frames \in Seq(Frame)
  BY DEF TypeOK
<1>2. FrameOf(w, cat) \in Frame
  BY <1>1 DEF FrameOf, Frame, Ctx
<1> QED
  BY <1>1, <1>2, AppendProperties

\* RINIT (lib.rs, request.rs on_rinit) keeps the types.
LEMMA RinitType == ASSUME TypeOK, NEW w \in Workers, Rinit(w) PROVE TypeOK'
<1>1. file \in State \cup {NoDoc} /\ Allowed(file) \in SUBSET Feature
  BY DEF TypeOK, Allowed, Gated, State
<1>2. Len(loaded) \in Nat /\ Append(loaded, Allowed(file)) \in Seq(SUBSET Feature)
  BY <1>1, LenProperties, AppendProperties DEF TypeOK
<1>3. clash' \in BOOLEAN
  BY DEF Rinit, NoContext, Borrow, TypeOK
<1>4. /\ ctx' \in [Workers -> Ctx \cup {NoCtx}] /\ seed' \in [Workers -> Seeds \cup {NoSeed}]
      /\ counter' \in [Workers -> Nat] /\ taken' \subseteq Seeds
  <2>1. CASE Gated(file)
    <3> PICK s \in Seeds :
           /\ seed' = [seed EXCEPT ![w] = s] /\ taken' = taken \cup {s}
           /\ counter' = [counter EXCEPT ![w] = @ + 1]
           /\ ctx' = [ctx EXCEPT ![w] = [id |-> <<s, counter[w]>>, features |-> file.features]]
        BY <2>1 DEF Rinit, NoContext
    <3>1. counter[w] \in Nat /\ file.features \subseteq Feature
      BY <1>1, <2>1 DEF TypeOK, Gated, State
    <3>2. [id |-> <<s, counter[w]>>, features |-> file.features] \in Ctx
      BY <3>1 DEF Ctx, Id
    <3> QED
      BY <3>1, <3>2 DEF TypeOK
  <2>2. CASE ~Gated(file)
    BY <2>2 DEF Rinit, NoContext, TypeOK, process
  <2> QED
    BY <2>1, <2>2
<1> QED
  BY SMTT(30), <1>2, <1>3, <1>4 DEF Rinit, NoContext, TypeOK

\* An observed call opens a handler at most, of the right type.
LEMMA ObserveType ==
  ASSUME TypeOK, NEW w \in Workers, NEW gates, NEW cat \in Feature, NEW n \in Nat,
         Observe(w, gates, cat, n)
  PROVE  /\ stack' \in [Workers -> Seq(Handler)] /\ borrowed' \in [Workers -> BOOLEAN]
         /\ clash' \in BOOLEAN /\ fires' \in Nat
         /\ UNCHANGED <<file, phase, ctx, process, frames, history, toggles>>
<1>1. [cat |-> cat, left |-> n, stage |-> "capture"] \in Handler
  BY DEF Handler
<1>2. Append(stack[w], [cat |-> cat, left |-> n, stage |-> "capture"]) \in Seq(Handler)
  BY <1>1, AppendProperties DEF TypeOK
<1>3. clash' \in BOOLEAN
  BY DEF Observe, Borrow, TypeOK
<1>4. stack' \in [Workers -> Seq(Handler)] /\ borrowed' = borrowed
  BY <1>2 DEF Observe, Open, TypeOK
<1> QED
  BY <1>3, <1>4 DEF Observe, TypeOK

\* The coarse gate of the dispatched events covers the category of each.
LEMMA CategoryDispatched == \A event \in DOMAIN Category : Category[event] \in Dispatched
BY DEF Category, Dispatched

\* The observed calls keep the types.
LEMMA FireType == ASSUME TypeOK, NEW w \in Workers, Fire(w) PROVE TypeOK'
<1>1. ASSUME NEW n \in 1..MaxArgs, OnDump(w, n) PROVE TypeOK'
  <2>1. Observe(w, {"dumps"}, "dumps", n) /\ deferred' = deferred
        /\ "dumps" \in Feature /\ n \in Nat
    BY <1>1 DEF OnDump, Feature
  <2> QED
    BY <2>1, ObserveType DEF TypeOK, process, history
<1>2. ASSUME NEW event \in DOMAIN Category, OnDispatch(w, event) PROVE TypeOK'
  <2>1. /\ Observe(w, Dispatched, Category[event], 1) /\ deferred' = deferred
        /\ Category[event] \in Feature
    BY <1>2, CategoryDispatched DEF OnDispatch, Dispatched, Feature
  <2> QED
    BY <2>1, ObserveType DEF TypeOK, process, history
<1>3. ASSUME OnQueryEnd(w) PROVE TypeOK'
  <2>1. Observe(w, {"queries"}, "queries", 1) /\ deferred' = deferred /\ "queries" \in Feature
    BY <1>3 DEF OnQueryEnd, Feature
  <2> QED
    BY <2>1, ObserveType DEF TypeOK, process, history
<1>4. ASSUME OnFetchAll(w) PROVE TypeOK'
  <2>1. Observe(w, {"queries"}, "queries", 1) /\ "queries" \in Feature
    BY <1>4 DEF OnFetchAll, Feature
  <2>2. deferred' \in [Workers -> Nat]
    BY <1>4 DEF OnFetchAll, TypeOK
  <2> QED
    BY <2>1, <2>2, ObserveType DEF TypeOK, process, history
<1>5. ASSUME OnCurlExecEnd(w) PROVE TypeOK'
  <2>1. Observe(w, {"http"}, "http", 1) /\ deferred' = deferred /\ "http" \in Feature
    BY <1>5 DEF OnCurlExecEnd, Feature
  <2> QED
    BY <2>1, ObserveType DEF TypeOK, process, history
<1> QED
  BY <1>1, <1>2, <1>3, <1>4, <1>5 DEF Fire

\* The steps of a handler keep them; Sent needs the context to be there.
LEMMA HandleType == ASSUME TypeOK, HandlersInv, NEW w \in Workers, Handle(w) PROVE TypeOK'
<1>1. stack[w] # <<>>
  BY DEF Handle, Skip, Defer, EmitAt, Sent, EmitPanics, InHandler
<1>2. /\ Continue(w) \in Seq(Handler) /\ Front(stack[w]) \in Seq(Handler)
      /\ Last(stack[w]) \in Handler
  BY <1>1, ContinueType
<1>3. CASE Skip(w)
  BY <1>2, <1>3 DEF Skip, TypeOK, process, history
<1>4. CASE Defer(w)
  <2>1. deferred' \in [Workers -> Nat]
    BY <1>4 DEF Defer, TypeOK
  <2> QED
    BY <1>2, <1>4, <2>1 DEF Defer, TypeOK, process, history
<1>5. CASE EmitAt(w)
  <2>1. Append(Front(stack[w]), [Last(stack[w]) EXCEPT !.stage = "emit"]) \in Seq(Handler)
    <3>1. [Last(stack[w]) EXCEPT !.stage = "emit"] \in Handler
      BY <1>2 DEF Handler
    <3> QED
      BY <1>2, <3>1, AppendProperties
  <2>2. clash' \in BOOLEAN /\ borrowed' \in [Workers -> BOOLEAN]
    BY <1>5 DEF EmitAt, Borrow, TypeOK
  <2>3. stack' \in [Workers -> Seq(Handler)]
    BY ZenonT(60), <1>2, <1>5, <2>1 DEF EmitAt, TypeOK
  <2> QED
    BY <1>5, <2>2, <2>3 DEF EmitAt, TypeOK, process, history
<1>6. CASE Sent(w)
  <2>1. frames' \in Seq(Frame)
    <3>1. ctx[w] # NoCtx /\ Last(stack[w]).cat \in Feature
      BY <1>2, <1>6 DEF Sent, HandlersInv, Allows, Handler
    <3> QED
      BY <1>6, <3>1, FrameType DEF Sent
  <2> QED
    BY <1>2, <1>6, <2>1 DEF Sent, TypeOK, process, history
<1>7. CASE EmitPanics(w)
  BY <1>2, <1>7 DEF EmitPanics, TypeOK, process, history
<1> QED
  BY <1>3, <1>4, <1>5, <1>6, <1>7 DEF Handle

\* The steps of RSHUTDOWN keep the types.
LEMMA ShutdownType == ASSUME TypeOK, NEW w \in Workers, Shutdown(w) PROVE TypeOK'
<1>1. "queries" \in Feature /\ "requests" \in Feature
  BY DEF Feature
<1>2. CASE FlushOne(w)
  <2>1. frames' \in Seq(Frame)
    BY <1>1, <1>2, FrameType DEF FlushOne, Allows, TypeOK
  <2>2. deferred' \in [Workers -> Nat] /\ clash' \in BOOLEAN
    BY <1>2 DEF FlushOne, Borrow, TypeOK
  <2> QED
    BY <1>2, <2>1, <2>2 DEF FlushOne, TypeOK, process, history
<1>3. CASE Summarize(w)
  <2>1. frames' \in Seq(Frame)
    BY <1>1, <1>3, FrameType DEF Summarize, Allows, TypeOK
  <2>2. clash' \in BOOLEAN
    BY <1>3 DEF Summarize, Borrow, TypeOK
  <2> QED
    BY <1>3, <2>1, <2>2 DEF Summarize, TypeOK, process, history
<1>4. CASE OnRshutdown(w)
  BY <1>4 DEF OnRshutdown, Borrow, TypeOK, process, history
<1>5. CASE ShutdownPanics(w)
  BY <1>5 DEF ShutdownPanics, TypeOK, process, history
<1> QED
  BY <1>2, <1>3, <1>4, <1>5 DEF Shutdown

\* Every step keeps the types.
LEMMA TypeStep == ASSUME TypeOK, HandlersInv, [Next]_vars PROVE TypeOK'
<1>1. ASSUME NEW doc \in Docs \cup {NoDoc}, Toggle(doc) PROVE TypeOK'
  BY <1>1 DEF Toggle, TypeOK, process, history
<1>2. ASSUME NEW w \in Workers, Bailout(w) PROVE TypeOK'
  <2>1. <<>> \in Seq(Handler)
    BY EmptySeq
  <2> QED
    BY <1>2, <2>1 DEF Bailout, TypeOK, process, history
<1>3. ASSUME NEW w \in Workers, Rshutdown(w) PROVE TypeOK'
  BY <1>3 DEF Rshutdown, TypeOK, process, history
<1>4. ASSUME NEW w \in Workers, Respawn(w) PROVE TypeOK'
  <2>1. <<>> \in Seq(Handler)
    BY EmptySeq
  <2> QED
    BY <1>4, <2>1 DEF Respawn, TypeOK, history
<1>5. ASSUME UNCHANGED vars PROVE TypeOK'
  BY <1>5 DEF vars, TypeOK, process, history
<1> QED
  BY <1>1, <1>2, <1>3, <1>4, <1>5, RinitType, FireType, HandleType, ShutdownType DEF Next

-----------------------------------------------------------------------------
(* The handlers.                                                             *)

\* Every handler of a stack captures, and none tells a summary.
Quiet(s) == \A i \in 1..Len(s) : s[i].stage = "capture" /\ s[i].cat # "requests"

\* A quiet stack satisfies what HandlersInv asks of a stack.
LEMMA QuietTop ==
  ASSUME NEW s \in Seq(Handler), s # <<>>, Quiet(s)
  PROVE  Captures(Front(s)) /\ Last(s).stage = "capture"
<1>1. /\ Len(s) \in Nat \ {0} /\ Len(Front(s)) = Len(s) - 1
      /\ \A i \in 1..(Len(s) - 1) : Front(s)[i] = s[i]
  BY FrontProperties
<1> QED
  BY <1>1 DEF Quiet, Captures, Last

\* Below the innermost handler a stack is quiet, and when that one captures too,
\* all of it is; what is left of a handler when it goes on is quiet again.
LEMMA StackQuiet ==
  ASSUME TypeOK, HandlersInv, NEW w \in Workers
  PROVE  /\ stack[w] # <<>> => Quiet(Front(stack[w])) /\ Quiet(Continue(w))
         /\ InHandler(w, "capture") \/ stack[w] = <<>> => Quiet(stack[w])
<1>1. CASE stack[w] = <<>>
  <2>1. Len(stack[w]) = 0
    BY <1>1, EmptySeq
  <2> QED
    BY <1>1, <2>1 DEF Quiet, InHandler
<1>2. CASE stack[w] # <<>>
  <2>1. /\ stack[w] \in Seq(Handler) /\ Captures(Front(stack[w]))
        /\ \A i \in 1..Len(stack[w]) : stack[w][i].cat # "requests"
    BY <1>2 DEF TypeOK, HandlersInv
  <2>2. /\ Front(stack[w]) \in Seq(Handler) /\ Len(stack[w]) \in Nat \ {0}
        /\ Len(Front(stack[w])) = Len(stack[w]) - 1
        /\ \A i \in 1..(Len(stack[w]) - 1) : Front(stack[w])[i] = stack[w][i]
        /\ Last(stack[w]) \in Handler
    BY <1>2, <2>1, FrontProperties
  <2>3. Quiet(Front(stack[w]))
    BY <2>1, <2>2 DEF Quiet, Captures
  <2>4. Last(stack[w]).cat # "requests"
    BY <2>1, <2>2 DEF Last
  <2>5. Quiet(Continue(w))
    <3> DEFINE h == Last(stack[w])
               g == [cat |-> h.cat, left |-> h.left - 1, stage |-> "capture"]
    <3>1. h.left > 1 => g \in Handler
      <4>1. h \in Handler
        BY <2>2
      <4> HIDE DEF h
      <4> QED
        BY <4>1 DEF Handler
    <3>2. g.stage = "capture" /\ g.cat # "requests"
      BY <2>4
    <3> HIDE DEF g
    <3>3. CASE h.left > 1
      <4>1. Continue(w) = Append(Front(stack[w]), g)
        BY <3>3 DEF Continue, g
      <4> DEFINE t == Append(Front(stack[w]), g)
      <4>2. /\ Len(t) = Len(Front(stack[w])) + 1 /\ Len(Front(stack[w])) \in Nat
            /\ \A i \in 1..Len(Front(stack[w])) : t[i] = Front(stack[w])[i]
            /\ t[Len(Front(stack[w])) + 1] = g
        BY <2>2, <3>1, <3>3, PushProperties, LenProperties
      <4> HIDE DEF t
      <4>3. Quiet(t)
        BY <2>3, <3>2, <4>2 DEF Quiet
      <4> QED
        BY <4>1, <4>3 DEF t
    <3>4. CASE ~(h.left > 1)
      BY <2>3, <3>4 DEF Continue
    <3> QED
      BY <3>3, <3>4
  <2>6. Last(stack[w]).stage = "capture" => Quiet(stack[w])
    BY <2>1, <2>2 DEF Quiet, Captures, Last
  <2> QED
    BY <1>2, <2>3, <2>5, <2>6 DEF InHandler
<1> QED
  BY <1>1, <1>2

\* A borrow is held only while a handler emits.
LEMMA NotBorrowed ==
  ASSUME HandlersInv, NEW w \in Workers, InHandler(w, "capture") \/ stack[w] = <<>>
  PROVE  ~borrowed[w]
BY DEF HandlersInv, InHandler

\* A step that leaves one worker quiet, or as it was, and the others alone.
LEMMA QuietStep ==
  ASSUME TypeOK', HandlersInv, NEW w \in Workers,
         \A v \in Workers \ {w} : /\ stack'[v] = stack[v] /\ borrowed'[v] = borrowed[v]
                                   /\ ctx'[v] = ctx[v] /\ phase'[v] = phase[v],
         Quiet(stack'[w]), ~borrowed'[w], stack'[w] # <<>> => phase'[w] = "running"
  PROVE  HandlersInv'
<1>1. stack'[w] \in Seq(Handler)
  BY DEF TypeOK
<1>2. stack'[w] # <<>> => Captures(Front(stack'[w])) /\ Last(stack'[w]).stage = "capture"
  BY <1>1, QuietTop
<1>3. \A i \in 1..Len(stack'[w]) : stack'[w][i].cat # "requests"
  BY DEF Quiet
<1>4. ~InHandler(w, "emit")'
  BY <1>2 DEF InHandler
<1>5. ASSUME NEW v \in Workers \ {w}
      PROVE  /\ stack'[v] # <<>> => phase'[v] = "running" /\ Captures(Front(stack'[v]))
             /\ \A i \in 1..Len(stack'[v]) : stack'[v][i].cat # "requests"
             /\ borrowed'[v] => InHandler(v, "emit")'
             /\ InHandler(v, "emit")' => Allows(v, Last(stack[v]).cat)'
  BY <1>5 DEF HandlersInv, InHandler, Allows
<1> QED
  BY <1>2, <1>3, <1>4, <1>5 DEF HandlersInv, InHandler, Allows, Captures

\* An observed call opens a handler above quiet ones, or does nothing.
LEMMA ObserveHandlers ==
  ASSUME TypeOK, TypeOK', HandlersInv, NEW w \in Workers, NEW gates, NEW n \in Nat,
         NEW cat \in Feature \ {"requests"}, Observe(w, gates, cat, n)
  PROVE  HandlersInv' /\ clash' = clash
<1> DEFINE h == [cat |-> cat, left |-> n, stage |-> "capture"]
<1>1. InHandler(w, "capture") \/ stack[w] = <<>>
  BY DEF Observe, PhpRuns, Reentrant, InHandler
<1>2. Quiet(stack[w]) /\ ~borrowed[w]
  BY <1>1, StackQuiet, NotBorrowed
<1>3. Quiet(Append(stack[w], h))
  <2>1. h \in Handler /\ h.stage = "capture" /\ h.cat # "requests"
    BY DEF Handler
  <2>2. stack[w] \in Seq(Handler)
    BY DEF TypeOK
  <2> HIDE DEF h
  <2> DEFINE t == Append(stack[w], h)
  <2>3. /\ Len(t) = Len(stack[w]) + 1 /\ Len(stack[w]) \in Nat
        /\ \A i \in 1..Len(stack[w]) : t[i] = stack[w][i]
        /\ t[Len(stack[w]) + 1] = h
    BY <2>1, <2>2, PushProperties, LenProperties
  <2> HIDE DEF t
  <2>4. Quiet(t)
    BY SMTT(30), <1>2, <2>1, <2>3 DEF Quiet
  <2> QED
    BY <2>4 DEF t
<1>4. stack'[w] \in {stack[w], Append(stack[w], h)} /\ borrowed' = borrowed
      /\ \A v \in Workers \ {w} : stack'[v] = stack[v]
  BY DEF Observe, Open, TypeOK
<1>5. phase'[w] = "running" /\ ctx' = ctx /\ phase' = phase
  BY DEF Observe, PhpRuns
<1>6. clash' = clash
  BY <1>2 DEF Observe, Borrow, TypeOK
<1> HIDE DEF h
<1> QED
  BY <1>2, <1>3, <1>4, <1>5, <1>6, QuietStep

\* The observed calls, none of which tells a summary.
LEMMA FireHandlers ==
  ASSUME TypeOK, TypeOK', HandlersInv, NEW w \in Workers, Fire(w)
  PROVE  HandlersInv' /\ clash' = clash
<1>1. ASSUME NEW n \in 1..MaxArgs, OnDump(w, n) PROVE HandlersInv' /\ clash' = clash
  BY <1>1, ObserveHandlers DEF OnDump, Feature
<1>2. ASSUME NEW event \in DOMAIN Category, OnDispatch(w, event)
      PROVE  HandlersInv' /\ clash' = clash
  BY <1>2, CategoryDispatched, ObserveHandlers DEF OnDispatch, Dispatched, Feature
<1>3. CASE OnQueryEnd(w) \/ OnFetchAll(w)
  BY <1>3, ObserveHandlers DEF OnQueryEnd, OnFetchAll, Feature
<1>4. CASE OnCurlExecEnd(w)
  BY <1>4, ObserveHandlers DEF OnCurlExecEnd, Feature
<1> QED
  BY <1>1, <1>2, <1>3, <1>4 DEF Fire

\* emit_at borrows the context for an allowed category, or goes on.
LEMMA EmitHandlers ==
  ASSUME TypeOK, TypeOK', HandlersInv, NEW w \in Workers, EmitAt(w)
  PROVE  HandlersInv' /\ clash' = clash
<1> DEFINE h == [Last(stack[w]) EXCEPT !.stage = "emit"]
           f == Front(stack[w])
           t == Append(f, h)
<1>1. /\ stack[w] # <<>> /\ stack[w] \in Seq(Handler)
      /\ Quiet(f) /\ Quiet(stack[w]) /\ Quiet(Continue(w)) /\ ~borrowed[w]
  BY StackQuiet, NotBorrowed DEF EmitAt, InHandler, TypeOK
<1>2. phase[w] = "running" /\ phase' = phase /\ ctx' = ctx
  BY <1>1 DEF EmitAt, HandlersInv
<1>3. clash' = clash
  BY <1>1 DEF EmitAt, Borrow, TypeOK
<1>4. /\ \A v \in Workers \ {w} : stack'[v] = stack[v] /\ borrowed'[v] = borrowed[v]
  BY ZenonT(60) DEF EmitAt, TypeOK
<1>5. CASE ~Allows(w, Last(stack[w]).cat)
  <2>1. stack'[w] = Continue(w) /\ borrowed'[w] = borrowed[w]
    BY <1>5 DEF EmitAt, TypeOK
  <2> QED
    BY <1>1, <1>2, <1>3, <1>4, <2>1, QuietStep
<1>6. CASE Allows(w, Last(stack[w]).cat)
  <2>1. f \in Seq(Handler) /\ Last(stack[w]) \in Handler
    BY <1>1, FrontProperties
  <2>2. h \in Handler /\ h.stage = "emit" /\ h.cat = Last(stack[w]).cat
    BY <2>1 DEF Handler
  <2>3. Last(stack[w]).cat # "requests"
    <3>1. Len(stack[w]) \in Nat \ {0}
      BY <1>1, FrontProperties
    <3> QED
      BY <1>1, <3>1 DEF Quiet, Last
  <2>4. stack'[w] = t
    BY <1>6 DEF EmitAt, TypeOK
  <2> HIDE DEF h, f
  <2>5. /\ t # <<>> /\ Front(t) = f /\ Last(t) = h
        /\ Len(t) = Len(f) + 1 /\ Len(f) \in Nat
        /\ \A i \in 1..Len(f) : t[i] = f[i]
        /\ t[Len(f) + 1] = h
    BY <2>1, <2>2, PushProperties, LenProperties
  <2>6. Captures(Front(t))
    BY <1>1, <2>5 DEF Quiet, Captures
  <2> HIDE DEF t
  <2>7. \A i \in 1..Len(t) : t[i].cat # "requests"
    BY <1>1, <2>2, <2>3, <2>5 DEF Quiet
  <2>8. InHandler(w, "emit")' /\ Allows(w, Last(stack[w]).cat)'
    BY <1>2, <1>6, <2>2, <2>4, <2>5 DEF InHandler, Allows
  <2>9. ASSUME NEW v \in Workers \ {w}
        PROVE  /\ stack'[v] # <<>> => phase'[v] = "running" /\ Captures(Front(stack'[v]))
               /\ \A i \in 1..Len(stack'[v]) : stack'[v][i].cat # "requests"
               /\ borrowed'[v] => InHandler(v, "emit")'
               /\ InHandler(v, "emit")' => Allows(v, Last(stack[v]).cat)'
    BY <1>2, <1>4 DEF HandlersInv, InHandler, Allows
  <2> QED
    BY <1>2, <1>3, <2>4, <2>6, <2>7, <2>8, <2>9
    DEF HandlersInv, InHandler, Allows, Captures
<1> QED
  BY <1>5, <1>6

\* The other steps of a handler leave its stack quiet and the borrow given back.
LEMMA HandleHandlers ==
  ASSUME TypeOK, TypeOK', HandlersInv, NEW w \in Workers, Handle(w)
  PROVE  HandlersInv' /\ clash' = clash
<1>1. CASE EmitAt(w)
  BY <1>1, EmitHandlers
<1>2. CASE Skip(w) \/ Defer(w) \/ Sent(w) \/ EmitPanics(w)
  <2>1. stack[w] # <<>> /\ phase[w] = "running"
    BY <1>2 DEF Skip, Defer, Sent, EmitPanics, InHandler, HandlersInv
  <2>2. Quiet(Front(stack[w])) /\ Quiet(Continue(w))
    BY <2>1, StackQuiet
  <2>3. stack'[w] \in {Front(stack[w]), Continue(w)}
        /\ \A v \in Workers \ {w} : stack'[v] = stack[v] /\ borrowed'[v] = borrowed[v]
    BY <1>2 DEF Skip, Defer, Sent, EmitPanics, TypeOK
  <2>4. ctx' = ctx /\ phase' = phase /\ clash' = clash
    BY <1>2 DEF Skip, Defer, Sent, EmitPanics
  <2>5. ~borrowed'[w]
    BY <1>2, NotBorrowed DEF Skip, Defer, Sent, EmitPanics, TypeOK
  <2> QED
    BY <2>1, <2>2, <2>3, <2>4, <2>5, QuietStep
<1> QED
  BY <1>1, <1>2 DEF Handle

\* The boundaries of a request find no handler open, or abandon those there are.
LEMMA BoundaryHandlers ==
  ASSUME TypeOK, TypeOK', HandlersInv, NEW w \in Workers,
         Rinit(w) \/ Bailout(w) \/ Rshutdown(w) \/ Shutdown(w) \/ Respawn(w)
  PROVE  HandlersInv' /\ clash' = clash
<1>1. Quiet(<<>>)
  BY EmptySeq DEF Quiet
<1>2. stack'[w] = <<>>
  BY SMTT(30) DEF Rinit, NoContext, Bailout, Rshutdown, Shutdown, FlushOne, Summarize,
         OnRshutdown, ShutdownPanics,
         Respawn, HandlersInv, TypeOK
<1>3. ~borrowed'[w]
  BY SMTT(30), NotBorrowed DEF Rinit, NoContext, Bailout, Rshutdown, Shutdown, FlushOne,
         Summarize, OnRshutdown,
         ShutdownPanics, Respawn, HandlersInv, TypeOK
<1>4. clash' = clash
  BY SMTT(30), NotBorrowed DEF Rinit, NoContext, Bailout, Rshutdown, Shutdown, FlushOne,
         Summarize, OnRshutdown,
         ShutdownPanics, Respawn, HandlersInv, TypeOK, Borrow
<1>5. \A v \in Workers \ {w} : /\ stack'[v] = stack[v] /\ borrowed'[v] = borrowed[v]
                               /\ ctx'[v] = ctx[v] /\ phase'[v] = phase[v]
  <2>1. CASE Rinit(w)
    BY SMTT(30), <2>1 DEF Rinit, NoContext, TypeOK
  <2>2. CASE Bailout(w) \/ Rshutdown(w) \/ Shutdown(w) \/ Respawn(w)
    BY ZenonT(60), <2>2 DEF Bailout, Rshutdown, Shutdown, FlushOne, Summarize, OnRshutdown, ShutdownPanics,
         Respawn, TypeOK
  <2> QED
    BY <2>1, <2>2
<1> QED
  BY <1>1, <1>2, <1>3, <1>4, <1>5, QuietStep

\* Every step keeps HandlersInv and enters no borrowed context.
LEMMA HandlersStep ==
  ASSUME TypeOK, TypeOK', HandlersInv, [Next]_vars
  PROVE  HandlersInv' /\ clash' = clash
<1>1. ASSUME NEW doc \in Docs \cup {NoDoc}, Toggle(doc) PROVE HandlersInv' /\ clash' = clash
  BY <1>1 DEF Toggle, HandlersInv, InHandler, Allows, Captures
<1>2. ASSUME UNCHANGED vars PROVE HandlersInv' /\ clash' = clash
  BY <1>2 DEF vars, HandlersInv, InHandler, Allows, Captures
<1> QED
  BY <1>1, <1>2, FireHandlers, HandleHandlers, BoundaryHandlers DEF Next

\* The variables keep their types, through every callback of lib.rs, observer.rs
\* and request.rs, for any number of workers and any nesting.
THEOREM TypeCorrect == Spec => []TypeOK
<1>1. Init => TypeOK /\ HandlersInv
  <2> SUFFICES ASSUME Init PROVE TypeOK /\ HandlersInv
    OBVIOUS
  <2>1. <<>> \in Seq(Handler) /\ <<>> \in Seq(Frame) /\ <<>> \in Seq(SUBSET Feature)
        /\ Len(<<>>) = 0
    BY EmptySeq
  <2>2. TypeOK
    BY <2>1 DEF Init, TypeOK
  <2>3. HandlersInv
    BY <2>1 DEF Init, HandlersInv, InHandler
  <2> QED
    BY <2>2, <2>3
<1>2. TypeOK /\ HandlersInv /\ [Next]_vars => (TypeOK /\ HandlersInv)'
  BY TypeStep, HandlersStep
<1> QED
  BY <1>1, <1>2, PTL DEF Spec

\* Only the innermost handler of a running worker holds the context borrowed, and
\* its category is allowed.
THEOREM HandlersCorrect == Spec => [](TypeOK /\ HandlersInv)
<1>1. Init => HandlersInv
  <2> SUFFICES ASSUME Init PROVE HandlersInv
    OBVIOUS
  <2> QED
    BY EmptySeq DEF Init, HandlersInv, InHandler
<1>2. TypeOK /\ TypeOK' /\ HandlersInv /\ [Next]_vars => HandlersInv'
  BY HandlersStep
<1> QED
  BY <1>1, <1>2, TypeCorrect, PTL DEF Spec

\* Nothing enters the context while it is borrowed: the borrow_mut of emit_at
\* (request.rs:142-147) never meets another, however handlers nest, panic or are
\* abandoned.
THEOREM NeverClashes == Spec => []NoClash
<1>1. Init => NoClash
  BY DEF Init, NoClash
<1>2. TypeOK /\ TypeOK' /\ HandlersInv /\ NoClash /\ [Next]_vars => NoClash'
  BY HandlersStep DEF NoClash
<1> QED
  BY <1>1, <1>2, HandlersCorrect, PTL DEF Spec

-----------------------------------------------------------------------------
(* The steps, as the frames and the requests see them.                       *)

\* No request begins, and a context is kept or dropped.
Keeps == /\ UNCHANGED history
         /\ \A v \in Workers : /\ ctx'[v] \in {ctx[v], NoCtx}
                               /\ InRequest(v)' => InRequest(v)

\* A frame of an allowed category is told; a summary ends its request.
Tells(w, cat) == /\ frames' = Append(frames, FrameOf(w, cat))
                 /\ InRequest(w) /\ Allows(w, cat)
                 /\ cat = "requests" => ~InRequest(w)'

\* Every step is of one of three kinds.
LEMMA StepKinds ==
  ASSUME TypeOK, HandlersInv, [Next]_vars
  PROVE  \/ Keeps /\ frames' = frames /\ (UNCHANGED process \/ \E w \in Workers : Respawn(w))
         \/ Keeps /\ UNCHANGED process /\ \E w \in Workers, cat \in Feature : Tells(w, cat)
         \/ \E w \in Workers : Rinit(w)
<1>1. ASSUME NEW doc \in Docs \cup {NoDoc}, Toggle(doc)
      PROVE  Keeps /\ frames' = frames /\ UNCHANGED process
  BY <1>1 DEF Toggle, Keeps, InRequest
<1>2. ASSUME UNCHANGED vars PROVE Keeps /\ frames' = frames /\ UNCHANGED process
  BY <1>2 DEF vars, Keeps, InRequest
<1>3. ASSUME NEW w \in Workers, Fire(w) PROVE Keeps /\ frames' = frames /\ UNCHANGED process
  BY <1>3 DEF Fire, OnDump, OnDispatch, OnQueryEnd, OnFetchAll, OnCurlExecEnd, Observe,
              Keeps, InRequest
<1>4. ASSUME NEW w \in Workers, Skip(w) \/ Defer(w) \/ EmitAt(w) \/ EmitPanics(w) \/ Bailout(w)
      PROVE  Keeps /\ frames' = frames /\ UNCHANGED process
  BY <1>4 DEF Skip, Defer, EmitAt, EmitPanics, Bailout, Keeps, InRequest
<1>5. ASSUME NEW w \in Workers, Rshutdown(w) \/ OnRshutdown(w) \/ ShutdownPanics(w)
      PROVE  Keeps /\ frames' = frames /\ UNCHANGED process
  BY <1>5 DEF Rshutdown, OnRshutdown, ShutdownPanics, Keeps, InRequest, TypeOK
<1>6. ASSUME NEW w \in Workers, Sent(w)
      PROVE  Keeps /\ UNCHANGED process /\ \E cat \in Feature : Tells(w, cat)
  <2>1. /\ stack[w] # <<>> /\ phase[w] = "running" /\ Allows(w, Last(stack[w]).cat)
        /\ Last(stack[w]) \in Handler
    BY <1>6, FrontProperties DEF Sent, InHandler, HandlersInv, TypeOK
  <2>2. Last(stack[w]).cat \in Feature \ {"requests"}
    BY SMTT(30), <2>1, FrontProperties DEF HandlersInv, Handler, Last, TypeOK
  <2>3. Tells(w, Last(stack[w]).cat)
    BY <1>6, <2>1, <2>2 DEF Sent, Tells, InRequest
  <2> QED
    BY <1>6, <2>2, <2>3 DEF Sent, Keeps, InRequest
<1>7. ASSUME NEW w \in Workers, FlushOne(w)
      PROVE  Keeps /\ UNCHANGED process
             /\ (frames' = frames \/ \E cat \in Feature : Tells(w, cat))
  <2>1. frames' = frames \/ Tells(w, "queries")
    BY <1>7 DEF FlushOne, Tells, InRequest
  <2> QED
    BY <1>7, <2>1 DEF FlushOne, Keeps, InRequest, Feature
<1>8. ASSUME NEW w \in Workers, Summarize(w)
      PROVE  Keeps /\ UNCHANGED process
             /\ (frames' = frames \/ \E cat \in Feature : Tells(w, cat))
  <2>1. frames' = frames \/ Tells(w, "requests")
    BY <1>8 DEF Summarize, Tells, InRequest, TypeOK
  <2> QED
    BY <1>8, <2>1 DEF Summarize, Keeps, InRequest, Feature, TypeOK
<1>9. ASSUME NEW w \in Workers, Respawn(w) PROVE Keeps /\ frames' = frames
  BY <1>9 DEF Respawn, Keeps, InRequest, TypeOK
<1> QED
  BY <1>1, <1>2, <1>3, <1>4, <1>5, <1>6, <1>7, <1>8, <1>9 DEF Next, Handle, Shutdown

\* What a told frame adds.
LEMMA Told ==
  ASSUME TypeOK, NEW w \in Workers, NEW cat \in Feature, Tells(w, cat)
  PROVE  /\ Len(frames) \in Nat /\ Len(frames') = Len(frames) + 1
         /\ \A i \in 1..Len(frames) : frames'[i] = frames[i]
         /\ LET f == frames'[Len(frames')]
            IN  f.id = ctx[w].id /\ f.cat = cat /\ f.req = req[w]
<1>1. frames \in Seq(Frame) /\ FrameOf(w, cat) \in Frame
  BY FrameType DEF Tells, Allows, TypeOK
<1>2. /\ Len(frames) \in Nat /\ Len(frames') = Len(frames) + 1
      /\ \A i \in 1..Len(frames) : frames'[i] = frames[i]
      /\ frames'[Len(frames) + 1] = FrameOf(w, cat)
  BY <1>1, PushProperties, LenProperties DEF Tells
<1> QED
  BY <1>2 DEF FrameOf

\* What RINIT adds, and what it leaves to the other workers.
LEMMA Began ==
  ASSUME TypeOK, NEW w \in Workers, Rinit(w)
  PROVE  /\ Len(loaded) \in Nat /\ Len(loaded') = Len(loaded) + 1
         /\ \A i \in 1..Len(loaded) : loaded'[i] = loaded[i]
         /\ req'[w] = Len(loaded') /\ frames' = frames
         /\ ctx'[w] # NoCtx => ctx'[w].features = loaded'[Len(loaded')]
         /\ \A v \in Workers \ {w} : /\ req'[v] = req[v] /\ ctx'[v] = ctx[v]
                                     /\ InRequest(v)' <=> InRequest(v)
<1>1. loaded \in Seq(SUBSET Feature) /\ Allowed(file) \in SUBSET Feature
  BY DEF TypeOK, Allowed, Gated, State
<1>2. /\ Len(loaded) \in Nat /\ Len(loaded') = Len(loaded) + 1
      /\ \A i \in 1..Len(loaded) : loaded'[i] = loaded[i]
      /\ loaded'[Len(loaded) + 1] = Allowed(file)
  BY <1>1, PushProperties, LenProperties DEF Rinit, NoContext
<1>3. req'[w] = Len(loaded) + 1 /\ frames' = frames
  BY DEF Rinit, NoContext, TypeOK
<1>4. ctx'[w] # NoCtx => ctx'[w].features = Allowed(file)
  BY DEF Rinit, NoContext, TypeOK, Allowed
<1>5. \A v \in Workers \ {w} : /\ req'[v] = req[v] /\ ctx'[v] = ctx[v]
                               /\ InRequest(v)' <=> InRequest(v)
  BY DEF Rinit, NoContext, TypeOK, InRequest
<1> QED
  BY <1>2, <1>3, <1>4, <1>5

-----------------------------------------------------------------------------
(* Frames and the snapshot of their request.                                 *)

\* Every step keeps SnapshotInv.
LEMMA SnapshotStep ==
  ASSUME TypeOK, TypeOK', HandlersInv, SnapshotInv, [Next]_vars
  PROVE  SnapshotInv'
<1>1. CASE Keeps /\ frames' = frames
  BY <1>1 DEF Keeps, SnapshotInv, history
<1>2. ASSUME Keeps, NEW w \in Workers, NEW cat \in Feature, Tells(w, cat)
      PROVE  SnapshotInv'
  <2>1. /\ \A v \in Workers : InRequest(v)' =>
             /\ req'[v] \in 1..Len(loaded')
             /\ ctx'[v] # NoCtx => ctx'[v].features = loaded'[req'[v]]
        /\ \A u, v \in Workers : u # v /\ InRequest(u)' /\ InRequest(v)' => req'[u] # req'[v]
    BY <1>2 DEF Keeps, SnapshotInv, history
  <2>2. req[w] \in 1..Len(loaded) /\ cat \in loaded[req[w]] /\ loaded' = loaded
    BY <1>2 DEF Keeps, Tells, Allows, SnapshotInv, history
  <2>3. \A i \in 1..Len(frames') : /\ frames'[i].req \in 1..Len(loaded')
                                   /\ frames'[i].cat \in loaded'[frames'[i].req]
    <3>1. \A i \in 1..Len(frames) : /\ frames[i].req \in 1..Len(loaded)
                                    /\ frames[i].cat \in loaded[frames[i].req]
      BY DEF SnapshotInv
    <3> QED
      BY SMTT(30), SMTT(30), <1>2, <2>2, <3>1, Told
  <2> QED
    BY <2>1, <2>3 DEF SnapshotInv
<1>3. ASSUME NEW w \in Workers, Rinit(w) PROVE SnapshotInv'
  <2>1. /\ Len(loaded) \in Nat /\ Len(loaded') = Len(loaded) + 1
        /\ \A i \in 1..Len(loaded) : loaded'[i] = loaded[i]
        /\ req'[w] = Len(loaded') /\ frames' = frames
        /\ ctx'[w] # NoCtx => ctx'[w].features = loaded'[Len(loaded')]
        /\ \A v \in Workers \ {w} : /\ req'[v] = req[v] /\ ctx'[v] = ctx[v]
                                    /\ InRequest(v)' <=> InRequest(v)
    BY <1>3, Began
  <2>2. /\ req'[w] \in 1..Len(loaded')
        /\ ctx'[w] # NoCtx => ctx'[w].features = loaded'[req'[w]]
    BY <2>1
  <2>3. ASSUME NEW v \in Workers \ {w}, InRequest(v)'
        PROVE  /\ req'[v] \in 1..Len(loaded')
               /\ ctx'[v] # NoCtx => ctx'[v].features = loaded'[req'[v]]
               /\ req'[v] # req'[w]
    BY <2>1, <2>3 DEF SnapshotInv
  <2>4. ASSUME NEW u \in Workers \ {w}, NEW v \in Workers \ {w}, u # v,
               InRequest(u)', InRequest(v)'
        PROVE  req'[u] # req'[v]
    BY <2>1, <2>4 DEF SnapshotInv
  <2>5. \A i \in 1..Len(frames') : /\ frames'[i].req \in 1..Len(loaded')
                                   /\ frames'[i].cat \in loaded'[frames'[i].req]
    BY <2>1 DEF SnapshotInv
  <2> QED
    BY <2>2, <2>3, <2>4, <2>5 DEF SnapshotInv
<1> QED
  BY <1>1, <1>2, <1>3, StepKinds

\* The strengthened invariant holds throughout.
LEMMA SnapshotAlways == Spec => [](TypeOK /\ HandlersInv /\ SnapshotInv)
<1>1. Init => SnapshotInv
  BY EmptySeq DEF Init, SnapshotInv, InRequest
<1>2. /\ TypeOK /\ TypeOK' /\ HandlersInv /\ SnapshotInv /\ [Next]_vars => SnapshotInv'
  BY SnapshotStep
<1> QED
  BY <1>1, <1>2, HandlersCorrect, PTL DEF Spec

\* A request reports exactly within what the file allowed when it began: emit_at
\* and active() (request.rs) consult the copy that on_rinit made, and nothing else.
THEOREM GatedByTheSnapshot == Spec => []GatedBySnapshot
<1>1. TypeOK /\ SnapshotInv => GatedBySnapshot
  BY ZenonT(60), LenProperties DEF TypeOK, SnapshotInv, GatedBySnapshot
<1> QED
  BY <1>1, SnapshotAlways, PTL

-----------------------------------------------------------------------------
(* The summary.                                                              *)

\* Every step keeps SummaryInv.
LEMMA SummaryStep ==
  ASSUME TypeOK, TypeOK', HandlersInv, SnapshotInv, SummaryInv, [Next]_vars
  PROVE  SummaryInv'
<1> DEFINE Over == \A i \in 1..Len(frames), v \in Workers :
                     frames[i].cat = "requests" /\ InRequest(v) => frames[i].req # req[v]
<1>1. CASE Keeps /\ frames' = frames
  BY <1>1 DEF Keeps, SummaryInv, SummaryLast, history
<1>2. ASSUME Keeps, NEW w \in Workers, NEW cat \in Feature, Tells(w, cat)
      PROVE  SummaryInv'
  <2> DEFINE n == Len(frames)
  <2>1. /\ n \in Nat /\ Len(frames') = n + 1
        /\ \A i \in 1..n : frames'[i] = frames[i]
        /\ frames'[n + 1].cat = cat /\ frames'[n + 1].req = req[w]
    BY <1>2, Told
  <2>2. DOMAIN frames = 1..n /\ DOMAIN frames' = 1..(n + 1)
    BY <2>1, LenProperties DEF TypeOK
  <2> HIDE DEF n
  <2>3. Over'
    <3>1. ASSUME NEW v \in Workers, InRequest(v)', cat = "requests" PROVE req[w] # req[v]
      BY <1>2, <3>1 DEF Keeps, Tells, SnapshotInv
    <3> QED
      BY <1>2, <2>1, <3>1 DEF Keeps, SummaryInv, history, n
  <2>4. ASSUME NEW i \in 1..n, frames[i].req = req[w] PROVE frames[i].cat # "requests"
    BY <1>2, <2>4 DEF SummaryInv, Tells, n
  <2>5. SummaryLast'
    <3> SUFFICES ASSUME NEW i \in 1..(n + 1), NEW j \in 1..(n + 1), i < j,
                        frames'[i].req = frames'[j].req
                 PROVE  frames'[i].cat # "requests"
      BY <2>2 DEF SummaryLast
    <3>1. CASE j \in 1..n
      BY SMTT(30), <2>1, <2>2, <3>1 DEF SummaryInv, SummaryLast
    <3>2. CASE j = n + 1
      BY <2>1, <2>4, <3>2
    <3> QED
      BY <2>1, <3>1, <3>2
  <2> QED
    BY <2>3, <2>5 DEF SummaryInv
<1>3. ASSUME NEW w \in Workers, Rinit(w) PROVE SummaryInv'
  <2>1. /\ Len(loaded) \in Nat /\ Len(loaded') = Len(loaded) + 1
        /\ req'[w] = Len(loaded') /\ frames' = frames
        /\ \A v \in Workers \ {w} : req'[v] = req[v] /\ (InRequest(v)' <=> InRequest(v))
    BY <1>3, Began
  <2>2. \A i \in 1..Len(frames) : frames[i].req # req'[w]
    BY <2>1 DEF SnapshotInv
  <2> QED
    BY <2>1, <2>2 DEF SummaryInv, SummaryLast
<1> QED
  BY <1>1, <1>2, <1>3, StepKinds

\* The summary is the last frame of its request and told at most once: on_rshutdown
\* (lib.rs, request.rs) flushes the reads first and drops the context after.
THEOREM SummaryIsLast == Spec => []SummaryLast
<1>1. Init => SummaryInv
  BY EmptySeq DEF Init, SummaryInv, SummaryLast
<1>2. TypeOK /\ TypeOK' /\ HandlersInv /\ SnapshotInv /\ SummaryInv /\ [Next]_vars => SummaryInv'
  BY SummaryStep
<1>3. SummaryInv => SummaryLast
  BY DEF SummaryInv
<1> QED
  BY <1>1, <1>2, <1>3, SnapshotAlways, PTL DEF Spec

-----------------------------------------------------------------------------
(* The ids.                                                                  *)

\* A step that starts no request and tells no frame.
LEMMA IdKept ==
  ASSUME TypeOK, IdInv, Keeps, frames' = frames,
         UNCHANGED process \/ \E w \in Workers : Respawn(w)
  PROVE  IdInv'
<1>1. IdGroups'
  BY DEF IdInv, IdGroups
<1>2. \A i \in 1..Len(frames), v \in Workers :
        InRequest(v)' /\ ctx'[v] # NoCtx => (frames[i].id = ctx'[v].id <=> frames[i].req = req'[v])
  BY DEF Keeps, IdInv, history
<1>3. CASE UNCHANGED process
  <2>1. seed' = seed /\ counter' = counter /\ taken' = taken
    BY <1>3 DEF process
  <2>2. \A v \in Workers : ctx'[v] # NoCtx => ctx'[v] = ctx[v]
    BY DEF Keeps
  <2> QED
    BY <1>1, <1>2, <2>1, <2>2 DEF IdInv
<1>4. ASSUME NEW w \in Workers, Respawn(w) PROVE IdInv'
  <2>1. /\ ctx'[w] = NoCtx /\ seed'[w] = NoSeed /\ taken' = taken
        /\ \A v \in Workers \ {w} : /\ ctx'[v] = ctx[v] /\ seed'[v] = seed[v]
                                    /\ counter'[v] = counter[v]
    BY <1>4 DEF Respawn, TypeOK
  <2>2. \A i \in 1..Len(frames) : frames[i].id[1] \in taken /\ frames[i].id[1] # NoSeed
    BY DEF IdInv, TypeOK
  <2>3. \A u, v \in Workers : u # v /\ seed'[u] # NoSeed => seed'[u] # seed'[v]
    BY <2>1 DEF IdInv
  <2>4. \A i \in 1..Len(frames), v \in Workers :
          frames[i].id[1] = seed'[v] => frames[i].id[2] < counter'[v]
    BY <2>1, <2>2 DEF IdInv
  <2>5. \A v \in Workers : /\ ctx'[v] # NoCtx => ctx'[v].id[1] = seed'[v] /\ ctx'[v].id[2] < counter'[v]
                          /\ seed'[v] # NoSeed => seed'[v] \in taken'
    BY <2>1 DEF IdInv
  <2> QED
    BY <1>1, <1>2, <2>1, <2>2, <2>3, <2>4, <2>5 DEF IdInv
<1> QED
  BY <1>3, <1>4

\* A told frame carries the id of its worker's request, which no other has.
LEMMA IdTold ==
  ASSUME TypeOK, SnapshotInv, IdInv, Keeps, UNCHANGED process,
         NEW w \in Workers, NEW cat \in Feature, Tells(w, cat)
  PROVE  IdInv'
<1> DEFINE n == Len(frames)
<1>1. /\ n \in Nat /\ Len(frames') = n + 1
      /\ \A i \in 1..n : frames'[i] = frames[i]
      /\ frames'[n + 1].id = ctx[w].id /\ frames'[n + 1].req = req[w]
  BY Told
<1>2. DOMAIN frames = 1..n /\ DOMAIN frames' = 1..(n + 1)
  BY <1>1, LenProperties DEF TypeOK
<1>3. ctx[w] # NoCtx /\ InRequest(w)
  BY DEF Tells, Allows
<1>4. /\ ctx[w].id[1] = seed[w] /\ ctx[w].id[2] < counter[w]
      /\ seed[w] \in taken /\ seed[w] \in Seeds /\ seed[w] # NoSeed
  <2>1. ctx[w].id[1] \in Seeds
    BY <1>3 DEF TypeOK, Ctx, Id
  <2> QED
    BY <1>3, <2>1 DEF IdInv
<1>5. seed' = seed /\ counter' = counter /\ taken' = taken /\ req' = req
  BY DEF process, Keeps, history
<1>6. \A v \in Workers : ctx'[v] # NoCtx => ctx'[v] = ctx[v]
  BY DEF Keeps
<1> HIDE DEF n
<1>7. ASSUME NEW v \in Workers, InRequest(v)', ctx'[v] # NoCtx
      PROVE  ctx[w].id = ctx[v].id <=> req[w] = req[v]
  <2>1. CASE v = w
    BY <2>1
  <2>2. CASE v # w
    <3>1. ctx[v].id[1] = seed[v] /\ InRequest(v)
      BY <1>6, <1>7 DEF IdInv, Keeps
    <3>2. ctx[w].id # ctx[v].id
      BY <1>4, <2>2, <3>1 DEF IdInv
    <3>3. req[w] # req[v]
      BY <1>3, <2>2, <3>1 DEF SnapshotInv
    <3> QED
      BY <3>2, <3>3
  <2> QED
    BY <2>1, <2>2
<1>8. \A i \in 1..n : frames[i].id = ctx[w].id <=> frames[i].req = req[w]
  BY <1>3 DEF IdInv, n
<1>9. IdGroups'
  <2> SUFFICES ASSUME NEW i \in 1..(n + 1), NEW j \in 1..(n + 1)
               PROVE  frames'[i].id = frames'[j].id <=> frames'[i].req = frames'[j].req
    BY <1>2 DEF IdGroups
  <2>1. CASE i \in 1..n /\ j \in 1..n
    <3>1. frames[i].id = frames[j].id <=> frames[i].req = frames[j].req
      BY <1>2, <2>1 DEF IdInv, IdGroups
    <3>2. frames'[i] = frames[i] /\ frames'[j] = frames[j]
      BY <1>1, <2>1
    <3> QED
      BY <3>1, <3>2
  <2>2. CASE i = n + 1 \/ j = n + 1
    BY <1>1, <1>8, <2>2
  <2> QED
    BY <1>1, <2>1, <2>2
<1>10. ASSUME NEW i \in 1..(n + 1)
       PROVE  /\ frames'[i].id[1] \in taken
              /\ \A v \in Workers : frames'[i].id[1] = seed[v] => frames'[i].id[2] < counter[v]
              /\ \A v \in Workers : InRequest(v)' /\ ctx'[v] # NoCtx =>
                   (frames'[i].id = ctx'[v].id <=> frames'[i].req = req[v])
  <2>1. CASE i \in 1..n
    BY <1>1, <1>6, <2>1 DEF IdInv, Keeps, n
  <2>2. CASE i = n + 1
    <3>1. \A v \in Workers : ctx[w].id[1] = seed[v] => v = w
      BY ZenonT(60), <1>4 DEF IdInv
    <3> QED
      BY <1>1, <1>4, <1>6, <1>7, <2>2, <3>1
  <2> QED
    BY <1>1, <2>1, <2>2
<1>11. \A v \in Workers :
         /\ ctx'[v] # NoCtx => ctx'[v].id[1] = seed'[v] /\ ctx'[v].id[2] < counter'[v]
         /\ seed'[v] # NoSeed => seed'[v] \in taken'
  BY <1>5, <1>6 DEF IdInv
<1>12. \A u, v \in Workers : u # v /\ seed'[u] # NoSeed => seed'[u] # seed'[v]
  BY <1>5 DEF IdInv
<1> QED
  BY <1>1, <1>5, <1>9, <1>10, <1>11, <1>12 DEF IdInv

\* A request that reports draws an id that no frame carries yet.
LEMMA IdBegan ==
  ASSUME TypeOK, SnapshotInv, IdInv, NEW w \in Workers, Rinit(w)
  PROVE  IdInv'
<1>1. /\ Len(loaded) \in Nat /\ req'[w] = Len(loaded) + 1 /\ frames' = frames
      /\ \A v \in Workers \ {w} : /\ req'[v] = req[v] /\ ctx'[v] = ctx[v]
                                  /\ InRequest(v)' <=> InRequest(v)
  BY Began
<1>2. \A i \in 1..Len(frames) : frames[i].req # req'[w]
  BY <1>1 DEF SnapshotInv
<1>3. IdGroups'
  BY <1>1 DEF IdInv, IdGroups
<1>4. CASE ~Gated(file)
  <2>1. ctx'[w] = NoCtx /\ seed' = seed /\ counter' = counter /\ taken' = taken
    BY <1>4 DEF Rinit, NoContext, process, TypeOK
  <2> QED
    BY <1>1, <1>3, <2>1 DEF IdInv
<1>5. CASE Gated(file)
  <2> PICK s \in Seeds :
         /\ FreshSeed(w, s)
         /\ seed' = [seed EXCEPT ![w] = s] /\ taken' = taken \cup {s}
         /\ counter' = [counter EXCEPT ![w] = @ + 1]
         /\ ctx' = [ctx EXCEPT ![w] = [id |-> <<s, counter[w]>>, features |-> file.features]]
      BY <1>5 DEF Rinit, NoContext
  <2>1. /\ ctx'[w].id = <<s, counter[w]>> /\ seed'[w] = s /\ counter'[w] = counter[w] + 1
        /\ counter[w] \in Nat
        /\ \A v \in Workers \ {w} : seed'[v] = seed[v] /\ counter'[v] = counter[v]
    BY DEF TypeOK
  <2>2. s = seed[w] \/ s \notin taken
    BY DEF FreshSeed
  <2>3. s # NoSeed /\ \A v \in Workers \ {w} : seed[v] # s
    BY <2>2 DEF IdInv
  <2>4. ASSUME NEW i \in 1..Len(frames), frames[i].id[1] = s
        PROVE  frames[i].id[2] < counter[w]
    BY <2>2, <2>4 DEF IdInv
  <2>5. ASSUME NEW i \in 1..Len(frames) PROVE frames[i].id[2] \in Nat
    <3>1. frames \in Seq(Frame)
      BY DEF TypeOK
    <3>2. frames[i] \in Frame
      BY <3>1, ElementOfSeq
    <3>3. frames[i].id \in Seeds \X Nat
      BY <3>2 DEF Frame, Id
    <3> QED
      BY <3>3
  <2>6. ASSUME NEW i \in 1..Len(frames), NEW v \in Workers, frames[i].id[1] = seed'[v]
        PROVE  frames[i].id[2] < counter'[v]
    BY <2>1, <2>4, <2>5, <2>6 DEF IdInv
  <2>7. ASSUME NEW i \in 1..Len(frames), NEW v \in Workers, InRequest(v)', ctx'[v] # NoCtx
        PROVE  frames[i].id = ctx'[v].id <=> frames[i].req = req'[v]
    <3>1. CASE v = w
      <4>1. frames[i].id # <<s, counter[w]>>
        <5>1. CASE frames[i].id[1] = s
          BY <2>1, <2>4, <2>5, <5>1
        <5>2. CASE frames[i].id[1] # s
          BY <5>2
        <5> QED
          BY <5>1, <5>2
      <4> QED
        BY <1>2, <2>1, <3>1, <4>1
    <3>2. CASE v # w
      BY <1>1, <2>7, <3>2 DEF IdInv
    <3> QED
      BY <3>1, <3>2
  <2>8. \A v \in Workers :
          /\ ctx'[v] # NoCtx => ctx'[v].id[1] = seed'[v] /\ ctx'[v].id[2] < counter'[v]
          /\ seed'[v] # NoSeed => seed'[v] \in taken'
    BY <1>1, <2>1 DEF IdInv
  <2>9. \A u, v \in Workers : u # v /\ seed'[u] # NoSeed => seed'[u] # seed'[v]
    BY <2>1, <2>3 DEF IdInv
  <2>10. \A i \in 1..Len(frames) : frames[i].id[1] \in taken'
    BY DEF IdInv
  <2> QED
    BY SMTT(30), <1>1, <1>3, <2>6, <2>7, <2>8, <2>9, <2>10 DEF IdInv
<1> QED
  BY <1>4, <1>5

\* A request id groups the frames of one request: new_request_id (request.rs) never
\* repeats itself over the processes, and a context never outlives its request.
THEOREM IdsGroup == Spec => []IdGroups
<1>1. Init => IdInv
  BY EmptySeq DEF Init, IdInv, IdGroups
<1>2. /\ TypeOK /\ TypeOK' /\ HandlersInv /\ SnapshotInv /\ IdInv /\ [Next]_vars
      => IdInv'
  BY StepKinds, IdKept, IdTold, IdBegan
<1>3. IdInv => IdGroups
  BY DEF IdInv
<1> QED
  BY <1>1, <1>2, <1>3, SnapshotAlways, PTL DEF Spec
=============================================================================
