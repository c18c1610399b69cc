---------------------------- MODULE WorkerProofs ----------------------------
(* Proofs about Worker, for any documents, bounds and sizes: that it behaves  *)
(* as Request and as Transport say, and what follows for the two together.    *)
EXTENDS Worker, RequestProofs

TP == INSTANCE TransportProofs WITH
        phase <- IF ctx[Me] = NoCtx THEN "idle" ELSE "running"

USE WorkerAssumption

\* The context and the handlers of the worker behave as Request describes.
LEMMA WorkerIsRequest == WSpec => Spec
<1>1. WInit => Init
  BY DEF WInit
<1>2. [WNext]_wvars => [Next]_vars
  <2> SUFFICES ASSUME [WNext]_wvars PROVE [Next]_vars
      OBVIOUS
  <2>1. Me \in Workers
    OBVIOUS
  <2>2. CASE Begins
    BY <2>1, <2>2 DEF Begins, Next
  <2>3. CASE Runs
    BY <2>1, <2>3 DEF Runs, Next
  <2>4. CASE Ends
    BY <2>1, <2>4 DEF Ends, Next
  <2>5. CASE Writes
    BY <2>5 DEF Writes
  <2>6. CASE Dies
    BY <2>1, <2>6 DEF Dies, Next
  <2>7. CASE Outside
    BY <2>7 DEF Outside, Next
  <2>8. CASE UNCHANGED wvars
    BY <2>8 DEF wvars
  <2> QED
    BY <2>2, <2>3, <2>4, <2>5, <2>6, <2>7, <2>8 DEF WNext
<1> QED
  BY <1>1, <1>2, PTL DEF WSpec, Spec

\* A step of the worker that is one of its connection, or leaves it alone.
LEMMA CarriedStep == Carried => [T!Next]_(T!vars)
BY DEF Carried, Untouched, Hands, Opens, Closes, tcp, T!Next, T!vars

\* So what Transport proves of a connection holds of the worker's.
LEMMA ConnectionSpec == WSpec => T!Spec
<1>1. WInit => T!Init
  BY DEF WInit
<1>2. TypeOK /\ [WNext]_wvars => [T!Next]_(T!vars)
  <2> SUFFICES ASSUME TypeOK, [WNext]_wvars PROVE T!Next \/ UNCHANGED T!vars
      OBVIOUS
  <2>1. CASE Begins \/ Runs \/ Ends
    BY <2>1, CarriedStep DEF Begins, Runs, Ends
  <2>2. CASE Writes
    BY <2>2 DEF Writes, T!Next
  <2>3. CASE Dies
    BY <2>3 DEF Dies, Respawn, TypeOK, tcp, T!Next, T!vars
  <2>4. CASE Outside
    BY <2>4 DEF Outside, Toggle, tcp, T!Next, T!vars
  <2>5. CASE UNCHANGED wvars
    BY <2>5 DEF wvars, vars, tcp, T!vars
  <2> QED
    BY <2>1, <2>2, <2>3, <2>4, <2>5 DEF WNext
<1> QED
  BY <1>1, <1>2, WorkerIsRequest, TypeCorrect, PTL DEF WSpec, T!Spec

\* What is proved of Transport holds of the worker's connection.
LEMMA WorkerWire == WSpec => [](T!TypeOK /\ T!WireInv)
<1>1. T!Init => TP!Init
  BY DEF T!Init, TP!Init
<1>2. [T!Next]_(T!vars) => [TP!Next]_(TP!vars)
  <2>1. T!Next => TP!Next
    BY DEF T!Next, TP!Next, T!Rinit, TP!Rinit, T!Rshutdown, TP!Rshutdown,
       T!Killed, TP!Killed, T!Send, TP!Send, T!Handed, TP!Handed,
       T!SendConnected, TP!SendConnected, T!SendNotConnected, TP!SendNotConnected,
       T!SendLive, TP!SendLive, T!SendDead, TP!SendDead, T!WriteAll, TP!WriteAll,
       T!Write, TP!Write, T!WriteFails, TP!WriteFails, T!WriteDone, TP!WriteDone,
       T!Free, TP!Free, T!Current, TP!Current,
       T!Server, TP!Server, T!Read, TP!Read, T!ServerStarts, TP!ServerStarts,
       T!ServerStops, TP!ServerStops
  <2> QED
    BY <2>1 DEF T!vars, TP!vars
<1>3. TP!TypeOK /\ TP!WireInv => T!TypeOK /\ T!WireInv
  BY DEF T!TypeOK, TP!TypeOK, T!Part, TP!Part, T!WireInv, TP!WireInv, T!NoSplice, TP!NoSplice,
     T!Whole, TP!Whole, T!LiveIsComplete, TP!LiveIsComplete, T!ConnectOnce, TP!ConnectOnce,
     T!LineStarts, TP!LineStarts, T!LineContinues, TP!LineContinues, T!Current, TP!Current
<1>4. TP!Spec => [](TP!TypeOK /\ TP!WireInv)
  BY TP!WireAlways, RequestAssumption DEF TP!TransportAssumption
<1> QED
  BY <1>1, <1>2, <1>3, <1>4, ConnectionSpec, PTL DEF T!Spec, TP!Spec

-----------------------------------------------------------------------------
(* The lines of the connection and the frames of the request.                *)

\* Why the lines are the request's: while it may report over a connection, its
\* request is the one that opened it.
OwnerInv == /\ WireIsRequest
            /\ base \in Nat
            /\ InRequest(Me) /\ ctx[Me] # NoCtx => req[Me] = owner

\* A frame told is a line of the request that opened the connection.
LEMMA HandsOwn ==
  ASSUME TypeOK, HandlersInv, T!TypeOK, OwnerInv, [Next]_vars, Hands
  PROVE  OwnerInv'
<1>1. PICK cat \in Feature : Keeps /\ Tells(Me, cat)
  <2>1. ~\E w \in Workers : Rinit(w)
    BY DEF Hands, Rinit
  <2>2. Keeps /\ \E w \in Workers, cat \in Feature : Tells(w, cat)
    BY <2>1, StepKinds DEF Hands
  <2> QED
    BY <2>2
<1>2. Len(sizes') = Len(sizes) + 1 /\ Len(sizes) \in Nat
  <2>1. \E size : sizes' = Append(sizes, size)
    BY DEF Hands, T!Send, T!SendConnected, T!SendNotConnected, T!SendLive, T!SendDead, T!Handed
  <2> QED
    BY <2>1 DEF T!TypeOK
<1>3. /\ Len(frames) \in Nat /\ Len(frames') = Len(frames) + 1
      /\ \A i \in 1..Len(frames) : frames'[i] = frames[i]
      /\ frames'[Len(frames')].req = req[Me]
  BY <1>1, Told
<1>4. req[Me] = owner /\ UNCHANGED <<owner, base, req>> /\ base \in Nat
  BY <1>1 DEF Tells, Allows, OwnerInv, Hands, opens, Keeps, history
<1>5. InRequest(Me)' /\ ctx'[Me] # NoCtx => InRequest(Me) /\ ctx[Me] # NoCtx
  BY <1>1 DEF Keeps, Tells, Allows
<1>6. WireIsRequest'
  <2>1. Len(frames') = base + Len(sizes')
    BY <1>2, <1>3, <1>4 DEF OwnerInv, WireIsRequest
  <2>2. \A i \in 1..Len(frames) : frames'[i].req = owner <=> i > base
    BY <1>3 DEF OwnerInv, WireIsRequest
  <2>3. Len(frames') > base
    BY <1>2, <1>4, <2>1
  <2> QED
    BY <1>3, <1>4, <2>1, <2>2, <2>3 DEF WireIsRequest
<1> QED
  BY <1>4, <1>5, <1>6 DEF OwnerInv

\* A step that tells nothing and leaves lines and frames alone.
LEMMA QuietOwn ==
  ASSUME TypeOK, HandlersInv, OwnerInv, [Next]_vars,
         frames' = frames, sizes' = sizes, UNCHANGED opens,
         ctx'[Me] # NoCtx => UNCHANGED <<ctx, counter>>
  PROVE  OwnerInv'
<1>1. WireIsRequest' /\ base' \in Nat
  BY DEF OwnerInv, WireIsRequest, opens
<1>2. CASE Keeps
  BY <1>1, <1>2 DEF OwnerInv, Keeps, history, opens
<1>3. CASE \E w \in Workers : Rinit(w)
  <2>1. Rinit(Me)
    BY <1>3
  <2>2. counter' = counter => ctx'[Me] = NoCtx
    BY <2>1 DEF Rinit, NoContext, TypeOK
  <2> QED
    BY <1>1, <2>2 DEF OwnerInv
<1> QED
  BY <1>2, <1>3, StepKinds DEF Hands

\* A connection is opened for a request that has told nothing yet.
LEMMA OpensOwn ==
  ASSUME TypeOK, HandlersInv, SnapshotInv, [Next]_vars, Opens PROVE OwnerInv'
<1>1. Rinit(Me)
  <2>1. CASE UNCHANGED process
    BY <2>1 DEF Opens, process
  <2>2. CASE Respawn(Me)
    BY <2>2 DEF Respawn, Opens, T!Rinit, TypeOK
  <2> QED
    BY <2>1, <2>2, StepKinds
<1>2. /\ Len(loaded) \in Nat /\ req'[Me] = Len(loaded) + 1
  BY <1>1, Began
<1>3. /\ owner' = req'[Me] /\ base' = Len(frames) /\ sizes' = <<>> /\ frames' = frames
      /\ Len(frames) \in Nat
  BY DEF Opens, T!Rinit, TypeOK
<1>4. \A i \in 1..Len(frames) : frames[i].req # owner' /\ ~(i > base')
  BY <1>2, <1>3 DEF SnapshotInv
<1> QED
  BY <1>2, <1>3, <1>4 DEF OwnerInv, WireIsRequest

\* Every step of the worker keeps the lines the request's.
LEMMA OwnerStep ==
  ASSUME TypeOK, HandlersInv, SnapshotInv, T!TypeOK, OwnerInv, [WNext]_wvars, [Next]_vars
  PROVE  OwnerInv'
<1>1. CASE Begins \/ Runs \/ Ends
  <2>1. CASE Hands
    BY <2>1, HandsOwn
  <2>2. CASE Opens
    BY <2>2, OpensOwn
  <2>3. CASE Untouched
    BY <2>3, QuietOwn DEF Untouched, tcp
  <2>4. CASE Closes
    BY <2>4, QuietOwn DEF Closes, T!Rshutdown
  <2> QED
    BY <1>1, <2>1, <2>2, <2>3, <2>4 DEF Begins, Runs, Ends, Carried
<1>2. CASE Writes
  <2>1. sizes' = sizes
    BY <1>2 DEF Writes, T!WriteAll, T!Write, T!WriteFails, T!WriteDone
  <2> QED
    BY <1>2, <2>1, QuietOwn DEF Writes, vars, process
<1>3. CASE Dies
  <2>1. sizes' = sizes
    BY <1>3 DEF Dies, tcp, T!Killed
  <2>2. frames' = frames /\ ctx'[Me] = NoCtx
    BY <1>3 DEF Dies, Respawn, TypeOK
  <2> QED
    BY <1>3, <2>1, <2>2, QuietOwn DEF Dies
<1>4. CASE Outside
  <2>1. sizes' = sizes
    BY <1>4 DEF Outside, tcp, T!Server, T!Read, T!ServerStarts, T!ServerStops
  <2> QED
    BY <1>4, <2>1, QuietOwn DEF Outside, Toggle, vars, process
<1>5. CASE UNCHANGED wvars
  BY <1>5, QuietOwn DEF wvars, vars, process, tcp
<1> QED
  BY <1>1, <1>2, <1>3, <1>4, <1>5 DEF WNext

\* What the theorems below rest on.
LEMMA OwnerAlways == WSpec => [](TypeOK /\ SummaryLast /\ T!TypeOK /\ T!WireInv /\ OwnerInv)
<1>1. WInit => OwnerInv
  BY DEF WInit, Init, T!Init, OwnerInv, WireIsRequest, InRequest
<1>2. TypeOK /\ HandlersInv /\ SnapshotInv /\ T!TypeOK /\ OwnerInv
        /\ [WNext]_wvars /\ [Next]_vars => OwnerInv'
  BY OwnerStep
<1> QED
  BY <1>1, <1>2, WorkerIsRequest, SnapshotAlways, SummaryIsLast, WorkerWire, PTL DEF WSpec, Spec

\* The lines of a connection are the frames of the request that opened it, all of
\* them and in the order told (request.rs:94-111, 146-156).
THEOREM LinesAreTheRequests == WSpec => []WireIsRequest
<1>1. OwnerInv => WireIsRequest
  BY DEF OwnerInv
<1> QED
  BY <1>1, OwnerAlways, PTL

\* A summary that has arrived whole vouches for the rest of its request
\* (lib.rs:42-50).
THEOREM SummaryVouches == WSpec => []SummaryComplete
<1>1. TypeOK /\ SummaryLast /\ T!TypeOK /\ T!WireInv /\ OwnerInv => SummaryComplete
  <2> SUFFICES ASSUME TypeOK, SummaryLast, T!TypeOK, T!WireInv, OwnerInv,
                      T!WholeLines > 0, frames[base + T!WholeLines].cat = "requests"
               PROVE  T!WholeLines = Len(sizes)
      BY DEF SummaryComplete
  <2> DEFINE n == T!WholeLines
  <2>1. n \in 0..Len(sizes) /\ Len(sizes) \in Nat
    <3>1. wire # <<>> => wire[Len(wire)].line \in 1..Len(sizes)
      BY DEF T!WireInv, T!TypeOK
    <3> QED
      BY <3>1 DEF T!WholeLines, T!TypeOK
  <2>2. /\ Len(frames) = base + Len(sizes) /\ base \in Nat /\ DOMAIN frames = 1..Len(frames)
        /\ \A i \in 1..Len(frames) : frames[i].req = owner <=> i > base
    BY DEF OwnerInv, WireIsRequest, TypeOK
  <2> HIDE DEF n
  <2>3. SUFFICES ASSUME n < Len(sizes) PROVE FALSE
    BY <2>1 DEF n
  <2>4. base + n \in 1..Len(frames) /\ Len(frames) \in 1..Len(frames)
        /\ base + n > base /\ Len(frames) > base /\ base + n < Len(frames)
    BY <2>1, <2>2, <2>3 DEF n
  <2>5. frames[base + n].req = frames[Len(frames)].req /\ frames[base + n].cat = "requests"
    BY <2>2, <2>4 DEF n
  <2> QED
    BY <2>2, <2>4, <2>5 DEF SummaryLast
<1> QED
  BY <1>1, OwnerAlways, PTL
=============================================================================
