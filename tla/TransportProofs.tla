--------------------------- MODULE TransportProofs ---------------------------
(* Proofs about Transport, for lines of any size, any buffer and any number   *)
(* of lines and requests: the types, and that lines are never spliced or lost *)
(* on a live connection.                                                      *)
EXTENDS Transport, SequenceTheorems, TLAPS

USE TransportAssumption

\* What a write appends to the wire.
LEMMA WriteAppends ==
  ASSUME TypeOK, NEW n \in 1..MaxSize, Write(n)
  PROVE  /\ wire' \in Seq(Part) /\ Len(wire') = Len(wire) + n
         /\ \A i \in 1..Len(wire) : wire'[i] = wire[i]
         /\ \A i \in (Len(wire) + 1)..(Len(wire) + n) :
              wire'[i] = [line |-> Current, part |-> written + (i - Len(wire))]
<1> DEFINE new == [i \in 1..n |-> [line |-> Current, part |-> written + i]]
<1>1. Current \in Nat /\ written \in Nat /\ n \in Nat /\ wire \in Seq(Part)
  BY DEF TypeOK, Current
<1>2. \A i \in 1..n : [line |-> Current, part |-> written + i] \in Part
  BY <1>1 DEF Part
<1>3. new \in [1..n -> Part]
  BY <1>2
<1>4. new \in Seq(Part)
  BY <1>1, <1>3, SeqDef
<1>5. Len(new) = n
  <2>1. DOMAIN new = 1..n /\ DOMAIN new = 1..Len(new) /\ Len(new) \in Nat
    BY <1>4, LenProperties
  <2> HIDE DEF new
  <2> QED
    BY <2>1, <1>1
<1>6. \A i \in 1..n : new[i] = [line |-> Current, part |-> written + i]
  OBVIOUS
<1>7. wire' = wire \o new
  BY DEF Write
<1> HIDE DEF new
<1>8. /\ wire \o new \in Seq(Part) /\ Len(wire \o new) = Len(wire) + Len(new)
      /\ \A i \in 1..(Len(wire) + Len(new)) :
           (wire \o new)[i] = IF i <= Len(wire) THEN wire[i] ELSE new[i - Len(wire)]
  BY <1>1, <1>4, ConcatProperties
<1>9. Len(wire) \in Nat
  BY <1>1, LenProperties
<1>10. \A i \in 1..Len(wire) : wire'[i] = wire[i]
  BY <1>1, <1>5, <1>7, <1>8, <1>9
<1>11. ASSUME NEW i \in (Len(wire) + 1)..(Len(wire) + n)
       PROVE  wire'[i] = [line |-> Current, part |-> written + (i - Len(wire))]
  <2>1. i \in 1..(Len(wire) + Len(new)) /\ ~(i <= Len(wire)) /\ i - Len(wire) \in 1..n
    BY <1>1, <1>5, <1>9
  <2>2. wire'[i] = new[i - Len(wire)]
    BY <2>1, <1>7, <1>8
  <2> QED
    BY <2>1, <2>2, <1>6
<1> QED
  BY <1>5, <1>7, <1>8, <1>10, <1>11

\* Every action keeps the types.
LEMMA TypeNext == TypeOK /\ [Next]_vars => TypeOK'
<1> SUFFICES ASSUME TypeOK, [Next]_vars PROVE TypeOK'
    OBVIOUS
<1> USE DEF TypeOK
<1>1. CASE Rinit
  BY <1>1 DEF Rinit
<1>2. CASE Rshutdown
  BY <1>2 DEF Rshutdown
<1>7. CASE Killed
  BY <1>7 DEF Killed
<1>3. CASE Send
  <2> PICK size \in 1..MaxSize : \/ SendConnected(size) \/ SendNotConnected(size)
                                 \/ SendLive(size) \/ SendDead(size)
      BY <1>3 DEF Send
  <2>1. Append(sizes, size) \in Seq(Nat)
    BY AppendProperties
  <2>2. Len(<<>>) = 0 /\ Len(wire) \in Nat
    BY LenProperties
  <2>3. CASE SendConnected(size)
    BY <2>1, <2>2, <2>3 DEF SendConnected, Handed
  <2>4. CASE SendNotConnected(size)
    BY <2>1, <2>2, <2>4 DEF SendNotConnected, Handed
  <2>5. CASE SendLive(size)
    BY <2>1, <2>2, <2>5 DEF SendLive, Handed
  <2>6. CASE SendDead(size)
    BY <2>1, <2>2, <2>6 DEF SendDead, Handed
  <2> QED
    BY <2>3, <2>4, <2>5, <2>6
<1>4. CASE WriteAll
  <2>1. CASE \E n \in 1..MaxSize : Write(n)
    <3> PICK n \in 1..MaxSize : Write(n)
        BY <2>1
    <3>1. /\ wire' \in Seq(Part) /\ Len(wire') = Len(wire) + n
          /\ Len(wire) \in Nat /\ n \in Nat
      BY WriteAppends, LenProperties
    <3>2. got \in 0..Len(wire')
      BY <3>1
    <3>3. /\ written' = written + n
          /\ UNCHANGED <<phase, conn, sizes, sending, got, listening, peer, attempts, requests>>
      BY DEF Write
    <3> QED
      BY <3>1, <3>2, <3>3
  <2>2. CASE WriteFails
    BY <2>2 DEF WriteFails
  <2>3. CASE WriteDone
    BY <2>3 DEF WriteDone
  <2> QED
    BY <1>4, <2>1, <2>2, <2>3 DEF WriteAll
<1>5. CASE Server
  <2>1. CASE Read
    <3>1. Len(wire) \in Nat
      BY LenProperties
    <3> QED
      BY <2>1, <3>1 DEF Read
  <2>2. CASE ServerStarts
    BY <2>2 DEF ServerStarts
  <2>3. CASE ServerStops
    BY <2>3 DEF ServerStops
  <2> QED
    BY <1>5, <2>1, <2>2, <2>3 DEF Server
<1>6. CASE UNCHANGED vars
  BY <1>6 DEF vars
<1> QED
  BY <1>1, <1>2, <1>3, <1>4, <1>5, <1>6, <1>7 DEF Next

\* The variables keep their types, whatever the server does.
THEOREM TransportTypeCorrect == Spec => []TypeOK
<1>1. <<>> \in Seq(Nat) /\ <<>> \in Seq(Part)
  BY EmptySeq
<1>2. 0 \in 0..Len(<<>>)
  OBVIOUS
<1>3. Init => TypeOK
  <2> SUFFICES ASSUME Init PROVE TypeOK
      OBVIOUS
  <2>1. sizes \in Seq(Nat) /\ wire \in Seq(Part) /\ got \in 0..Len(wire)
    BY <1>1, <1>2 DEF Init
  <2> QED
    BY <2>1 DEF Init, TypeOK
<1> QED
  BY <1>3, TypeNext, PTL DEF Spec

-----------------------------------------------------------------------------
\* A line handed over leaves the sizes of the lines before it alone.
LEMMA HandedSizes ==
  ASSUME TypeOK, WireInv, NEW size \in 1..MaxSize, Handed(size)
  PROVE  /\ Len(sizes') = Len(sizes) + 1
         /\ \A i \in 1..Len(sizes) : sizes'[i] = sizes[i]
         /\ sizes'[Len(sizes) + 1] = size
         /\ \A i \in 1..Len(sizes') : sizes'[i] > 0
BY DEF TypeOK, WireInv, Handed

\* While the wire stays, so does what is said of it, also when a line is added.
LEMMA WireStays ==
  ASSUME TypeOK, WireInv, NEW size \in 1..MaxSize, Handed(size), wire' = wire
  PROVE  /\ \A i \in 1..Len(wire') : /\ wire'[i].line \in 1..Len(sizes')
                                     /\ wire'[i].part \in 1..sizes'[wire'[i].line]
         /\ \A i \in 1..Len(wire) : Whole(i)' = Whole(i)
         /\ NoSplice'
<1>1. \A i \in 1..Len(wire) : wire[i].line \in 1..Len(sizes)
  BY DEF WireInv
<1>2. /\ Len(sizes') = Len(sizes) + 1
      /\ \A i \in 1..Len(wire) : sizes'[wire[i].line] = sizes[wire[i].line]
  BY <1>1, HandedSizes
<1>3. \A i \in 1..Len(wire) : Whole(i)' = Whole(i)
  BY <1>2 DEF Whole
<1>4. NoSplice'
  <2>1. NoSplice /\ Len(wire) \in Nat
    BY DEF WireInv, TypeOK
  <2> QED
    BY <1>3, <2>1 DEF NoSplice
<1>5. \A i \in 1..Len(wire) : wire[i].part \in 1..sizes[wire[i].line]
  BY DEF WireInv
<1> QED
  BY <1>1, <1>2, <1>3, <1>4, <1>5, Len(sizes) \in Nat DEF TypeOK

\* A line begins only where the previous one ended.
LEMMA SendInv ==
  ASSUME TypeOK, WireInv, NEW size \in 1..MaxSize,
         SendConnected(size) \/ SendNotConnected(size) \/ SendLive(size) \/ SendDead(size)
  PROVE  WireInv'
<1>1. Handed(size) /\ wire' = wire /\ phase' = phase /\ phase = "running"
  BY DEF SendConnected, SendNotConnected, SendLive, SendDead, Handed
<1>2. /\ \A i \in 1..Len(wire') : /\ wire'[i].line \in 1..Len(sizes')
                                  /\ wire'[i].part \in 1..sizes'[wire'[i].line]
      /\ \A i \in 1..Len(wire) : Whole(i)' = Whole(i)
      /\ NoSplice'
  BY <1>1, WireStays
<1>3. /\ Len(sizes') = Len(sizes) + 1 /\ Len(sizes) \in Nat
      /\ sizes'[Len(sizes) + 1] = size
      /\ \A i \in 1..Len(sizes') : sizes'[i] > 0
  BY <1>1, HandedSizes DEF TypeOK
<1>4. written' = 0 /\ Current' = Len(sizes) + 1
  BY <1>1, <1>3 DEF Handed, Current
<1>5. CASE SendConnected(size)
  <2>1. wire = <<>> /\ sizes = <<>> /\ attempts = 0
    BY <1>5 DEF SendConnected, WireInv
  <2>2. conn' = "Live" /\ sending' = TRUE /\ attempts' = 1
    BY <1>5, <2>1 DEF SendConnected
  <2>3. LineStarts'
    BY <1>1, <1>4, <2>1 DEF LineStarts
  <2> QED
    BY <1>1, <1>2, <1>3, <1>4, <2>1, <2>2, <2>3 DEF WireInv, LiveIsComplete, ConnectOnce
<1>6. CASE SendNotConnected(size)
  <2>1. wire = <<>> /\ attempts = 0 /\ conn' = "Dead" /\ attempts' = 1 /\ sending' = FALSE
    BY <1>6 DEF SendNotConnected, WireInv, Handed, TypeOK
  <2> QED
    BY <1>1, <1>2, <1>3, <2>1 DEF WireInv, LiveIsComplete, ConnectOnce
<1>7. CASE SendLive(size)
  <2>1. conn' = "Live" /\ conn = "Live" /\ sending' = TRUE /\ attempts' = attempts
    BY <1>7 DEF SendLive
  <2>2. wire # <<>> /\ Whole(Len(wire)) /\ wire[Len(wire)].line = Len(sizes)
    BY <1>1, <2>1 DEF WireInv, LiveIsComplete, Handed, Current, TypeOK
  <2>3. LineStarts'
    <3>1. Len(wire) \in 1..Len(wire)
      BY <2>2 DEF TypeOK
    <3>2. Whole(Len(wire))'
      BY <1>1, <1>2, <2>2, <3>1 DEF Whole
    <3> QED
      BY <1>1, <1>4, <2>2, <3>2 DEF LineStarts, Whole
  <2> QED
    BY <1>1, <1>2, <1>3, <1>4, <2>1, <2>3 DEF WireInv, LiveIsComplete, ConnectOnce
<1>8. CASE SendDead(size)
  <2>1. conn' = "Dead" /\ sending' = FALSE /\ attempts' = attempts
    BY <1>8 DEF SendDead, Handed, TypeOK
  <2> QED
    BY <1>1, <1>2, <1>3, <2>1 DEF WireInv, LiveIsComplete, ConnectOnce
<1> QED
  BY <1>5, <1>6, <1>7, <1>8

\* The parts a write adds continue the wire.
LEMMA WriteInv ==
  ASSUME TypeOK, WireInv, NEW n \in 1..MaxSize, Write(n)
  PROVE  WireInv'
<1> DEFINE k == Len(wire)
<1>1. /\ Current \in 1..Len(sizes) /\ written \in Nat /\ written + n <= sizes[Current]
      /\ sizes[Current] \in Nat /\ k \in Nat /\ n \in Nat /\ n > 0
  BY SMTT(30) DEF Write, WireInv, TypeOK, Current
<1>2. wire = <<>> <=> k = 0
  BY DEF TypeOK
<1>3. /\ Len(wire') = k + n
      /\ \A i \in 1..k : wire'[i] = wire[i]
      /\ \A i \in (k + 1)..(k + n) : wire'[i] = [line |-> Current, part |-> written + (i - k)]
      /\ wire' \in Seq(Part)
  BY WriteAppends
<1> HIDE DEF k
<1>4. /\ sizes' = sizes /\ conn' = conn /\ phase' = phase /\ sending' = sending
      /\ sending /\ conn = "Live" /\ attempts' = attempts
      /\ written' = written + n /\ Current' = Current
  BY DEF Write, WireInv, Current
<1>5. \A i \in 1..k : Whole(i)' = Whole(i)
  BY <1>3, <1>4 DEF Whole
<1>6. \A i \in 1..(k + n) : /\ wire'[i].line \in 1..Len(sizes')
                            /\ wire'[i].part \in 1..sizes'[wire'[i].line]
  <2> TAKE i \in 1..(k + n)
  <2>1. CASE i \in 1..k
    BY <2>1, <1>3, <1>4 DEF WireInv, k
  <2>2. CASE i \in (k + 1)..(k + n)
    <3>1. wire'[i] = [line |-> Current, part |-> written + (i - k)]
      BY <2>2, <1>3
    <3>2. written + (i - k) \in 1..sizes[Current]
      BY <2>2, <1>1
    <3> QED
      BY <3>1, <3>2, <1>1, <1>4
  <2> QED
    BY <2>1, <2>2, <1>1
<1>7. NoSplice'
  <2> SUFFICES ASSUME NEW i \in 1..(k + n)
               PROVE  \/ wire'[i].part = 1 /\ wire'[i].line = 1 /\ i = 1
                      \/ /\ i > 1 /\ wire'[i].part = 1 /\ Whole(i - 1)'
                         /\ wire'[i].line = wire'[i - 1].line + 1
                      \/ /\ i > 1 /\ wire'[i].part = wire'[i - 1].part + 1
                         /\ wire'[i].line = wire'[i - 1].line /\ ~Whole(i - 1)'
      BY <1>3 DEF NoSplice, Whole
  <2>1. CASE i \in 1..k
    <3>1. i > 1 => i - 1 \in 1..k
      BY <2>1, <1>1
    <3>2. \/ wire[i].part = 1 /\ wire[i].line = 1 /\ i = 1
          \/ /\ i > 1 /\ wire[i].part = 1 /\ Whole(i - 1)
             /\ wire[i].line = wire[i - 1].line + 1
          \/ /\ i > 1 /\ wire[i].part = wire[i - 1].part + 1
             /\ wire[i].line = wire[i - 1].line /\ ~Whole(i - 1)
      BY <2>1 DEF WireInv, NoSplice, k
    <3> QED
      BY <2>1, <1>3, <1>5, <3>1, <3>2
  <2>2. CASE i = k + 1
    <3>1. wire'[i] = [line |-> Current, part |-> written + 1]
      BY SMTT(30), <2>2, <1>1, <1>3
    <3>2. i - 1 = k /\ (k > 0 => k \in 1..k /\ i > 1)
      BY <2>2, <1>1
    <3>7. ASSUME k > 0
          PROVE  wire'[i - 1] = wire[k] /\ (Whole(i - 1)' <=> Whole(k))
      <4>1. wire'[k] = wire[k]
        BY <3>2, <3>7, <1>3
      <4> QED
        BY <4>1, <3>2, <1>3, <1>4 DEF Whole
    <3>3. k = 0 <=> wire = <<>>
      BY <1>2
    <3>4. CASE written = 0 /\ wire = <<>>
      BY <2>2, <3>1, <3>3, <3>4, <1>4 DEF WireInv, LineStarts, k
    <3>5. CASE written = 0 /\ wire # <<>>
      <4>1. k > 0 /\ Whole(k) /\ Current = wire[k].line + 1
        BY <3>3, <3>5, <1>1, <1>4 DEF WireInv, LineStarts, k
      <4> QED
        BY <3>1, <3>2, <3>5, <3>7, <4>1
    <3>6. CASE written # 0
      <4>1. wire # <<>> /\ wire[k].line = Current /\ wire[k].part = written
        BY <3>6, <1>4 DEF WireInv, LineContinues, k
      <4>2. k > 0 /\ ~Whole(k)
        BY <4>1, <3>3, <1>1 DEF Whole
      <4> QED
        BY <3>1, <3>2, <3>7, <4>1, <4>2, <1>1
    <3> QED
      BY <3>4, <3>5, <3>6
  <2>3. CASE i \in (k + 2)..(k + n)
    <3>1. i - 1 \in (k + 1)..(k + n) /\ i \in (k + 1)..(k + n) /\ i > 1
      BY <2>3, <1>1
    <3>2. /\ wire'[i] = [line |-> Current, part |-> written + (i - k)]
          /\ wire'[i - 1] = [line |-> Current, part |-> written + ((i - 1) - k)]
      BY <3>1, <1>3
    <3>3. written + ((i - 1) - k) < sizes[Current]
      BY <3>1, <1>1
    <3>4. ~Whole(i - 1)'
      BY <3>2, <3>3, <1>1, <1>4 DEF Whole
    <3> QED
      BY SMTT(30), <3>1, <3>2, <3>4, <1>1
  <2> QED
    BY SMTT(30), <2>1, <2>2, <2>3, <1>1
<1>8. LineContinues' /\ written' # 0
  <2>1. k + n \in (k + 1)..(k + n)
    BY <1>1
  <2>2. wire'[k + n] = [line |-> Current, part |-> written + n]
    BY <2>1, <1>1, <1>3
  <2>3. wire' # <<>>
    BY <1>1, <1>3
  <2> QED
    BY <2>2, <2>3, <1>1, <1>3, <1>4 DEF LineContinues
<1>9. /\ phase = "running" /\ attempts = 1 /\ \A i \in 1..Len(sizes) : sizes[i] > 0
  BY <1>4 DEF WireInv
<1> QED
  BY <1>1, <1>3, <1>4, <1>6, <1>7, <1>8, <1>9 DEF WireInv, LiveIsComplete, ConnectOnce

\* Nothing the server does is spoken of.
LEMMA WireUnchanged ==
  ASSUME WireInv, phase' = phase, conn' = conn, sizes' = sizes, wire' = wire,
         attempts' = attempts, sending' = sending, written' = written
  PROVE  WireInv'
<1>1. Current' = Current /\ \A i : Whole(i)' = Whole(i)
  BY DEF Current, Whole
<1>2. NoSplice'
  BY <1>1 DEF WireInv, NoSplice
<1>3. LiveIsComplete' /\ ConnectOnce'
  BY <1>1 DEF WireInv, LiveIsComplete, ConnectOnce
<1>4. (LineStarts => LineStarts') /\ (LineContinues => LineContinues')
  BY <1>1 DEF LineStarts, LineContinues
<1> QED
  BY <1>1, <1>2, <1>3, <1>4 DEF WireInv

\* Every action keeps the invariant.
LEMMA WireNext == TypeOK /\ WireInv /\ [Next]_vars => WireInv'
<1> SUFFICES ASSUME TypeOK, WireInv, [Next]_vars PROVE WireInv'
    OBVIOUS
<1>1. CASE Rinit
  <2>1. /\ wire' = <<>> /\ sizes' = <<>> /\ conn' = "Idle" /\ attempts' = 0
        /\ phase' = "running" /\ sending' = FALSE
    BY <1>1 DEF Rinit, WireInv, TypeOK
  <2> QED
    BY <2>1 DEF WireInv, NoSplice, LiveIsComplete, ConnectOnce
<1>2. CASE Rshutdown
  BY <1>2 DEF Rshutdown, WireInv, NoSplice, Whole, LiveIsComplete, ConnectOnce, Current
<1>9. CASE Killed
  BY <1>9 DEF Killed, WireInv, NoSplice, Whole, LiveIsComplete, ConnectOnce, Current
<1>3. CASE Send
  BY <1>3, SendInv DEF Send
<1>4. CASE \E n \in 1..MaxSize : Write(n)
  BY <1>4, WriteInv
<1>5. CASE WriteFails
  BY <1>5 DEF WriteFails, WireInv, NoSplice, Whole, LiveIsComplete, ConnectOnce, Current
<1>6. CASE WriteDone
  <2>1. LineContinues
    <3>1. sizes[Current] > 0
      BY <1>6 DEF WriteDone, WireInv, Current, TypeOK
    <3> QED
      BY <1>6, <3>1 DEF WriteDone, WireInv
  <2>2. Len(wire) > 0 /\ Whole(Len(wire)) /\ wire[Len(wire)].line = Current
    BY <1>6, <2>1 DEF WriteDone, LineContinues, Whole, TypeOK
  <2> QED
    BY <1>6, <2>2 DEF WriteDone, WireInv, NoSplice, Whole, LiveIsComplete, ConnectOnce, Current
<1>7. CASE Server
  <2>1. /\ phase' = phase /\ conn' = conn /\ sizes' = sizes /\ wire' = wire
        /\ attempts' = attempts /\ sending' = sending /\ written' = written
    BY <1>7 DEF Server, Read, ServerStarts, ServerStops
  <2> QED
    BY <2>1, WireUnchanged
<1>8. CASE UNCHANGED vars
  BY <1>8, WireUnchanged DEF vars
<1> QED
  BY <1>1, <1>2, <1>3, <1>4, <1>5, <1>6, <1>7, <1>8, <1>9 DEF Next, WriteAll

\* The inductive invariant of the connection and the wire holds throughout.
LEMMA WireAlways == Spec => [](TypeOK /\ WireInv)
<1>1. Init => WireInv
  <2>1. Len(<<>>) = 0
    OBVIOUS
  <2> QED
    BY <2>1 DEF Init, WireInv, NoSplice, LiveIsComplete, ConnectOnce
<1> QED
  BY <1>1, TransportTypeCorrect, TypeNext, WireNext, PTL DEF Spec

\* The lines of a request are never spliced: after a short write nothing follows
\* on that connection (transport.rs:39-43).
THEOREM LinesNotSpliced == Spec => []NoSplice
<1>1. WireInv => NoSplice
  BY DEF WireInv
<1> QED
  BY <1>1, WireAlways, PTL

\* A connection that is live between two sends has accepted every line whole.
THEOREM LiveHasAll == Spec => []LiveIsComplete
<1>1. WireInv => LiveIsComplete
  BY DEF WireInv
<1> QED
  BY <1>1, WireAlways, PTL

\* A request connects at most once (transport.rs:3-6).
THEOREM ConnectsOnce == Spec => []ConnectOnce
<1>1. WireInv => ConnectOnce
  BY DEF WireInv
<1> QED
  BY <1>1, WireAlways, PTL

\* A dead connection stays dead and silent until the request ends.
THEOREM DeadStaysDead == Spec => DeadIsFinal
<1>1. TypeOK /\ WireInv /\ [Next]_vars
        => [conn = "Dead" /\ phase = "running" /\ requests' = requests
              => conn' = "Dead" /\ wire' = wire]_vars
  <2> SUFFICES ASSUME TypeOK, WireInv, Next, conn = "Dead", phase = "running",
                      requests' = requests
               PROVE  conn' = "Dead" /\ wire' = wire
      OBVIOUS
  <2>1. ~sending
    BY DEF WireInv
  <2> QED
    BY <2>1 DEF TypeOK, Next, Rinit, Rshutdown, Killed, Send, SendConnected, SendNotConnected, SendLive,
                SendDead, WriteAll, Write, WriteFails, WriteDone, Server, Read,
                ServerStarts, ServerStops
<1> QED
  BY <1>1, WireAlways, PTL DEF Spec, DeadIsFinal

-----------------------------------------------------------------------------
(* The refinement of LineStream.                                             *)

\* Between two sends, what was handed over is whole, or the stream has ended.
LEMMA NothingPending ==
  ASSUME TypeOK, WireInv, ~sending PROVE conn = "Dead" \/ WholeLines = Len(sizes)
<1>1. CASE conn = "Idle"
  BY <1>1 DEF WireInv, WholeLines
<1>2. CASE conn = "Live"
  BY <1>2 DEF WireInv, LiveIsComplete, WholeLines, Current, TypeOK
<1> QED
  BY <1>1, <1>2 DEF TypeOK

\* While a line is under way, the lines before it are whole.
LEMMA OnePending ==
  ASSUME TypeOK, WireInv, sending, written < sizes[Current]
  PROVE  WholeLines = Current - 1 /\ Current = Len(sizes) /\ Current > 0 /\ conn = "Live"
<1>1. Current \in Nat /\ Current > 0 /\ conn = "Live"
  BY DEF WireInv, Current, TypeOK
<1>4. Current \in 1..Len(sizes) /\ written \in Nat /\ sizes[Current] \in Nat
  BY <1>1 DEF Current, TypeOK
<1>5. wire # <<>> => wire[Len(wire)].line \in Nat
  <2>1. wire # <<>> => Len(wire) \in 1..Len(wire)
    BY DEF TypeOK
  <2> QED
    BY <2>1 DEF WireInv, TypeOK
<1>2. CASE written = 0
  <2>1. LineStarts
    BY <1>2 DEF WireInv
  <2> QED
    BY <1>1, <1>5, <2>1 DEF LineStarts, WholeLines, Current
<1>3. CASE written # 0
  <2>1. LineContinues
    BY <1>3 DEF WireInv
  <2>2. ~Whole(Len(wire))
    BY <2>1, <1>4 DEF LineContinues, Whole
  <2> QED
    BY <1>1, <2>1, <2>2 DEF LineContinues, WholeLines, Current
<1> QED
  BY <1>2, <1>3 DEF Current

\* A line handed over leaves the whole ones as they are.
LEMMA SendOffers ==
  ASSUME TypeOK, WireInv, Send
  PROVE  /\ ~sending /\ Len(sizes') = Len(sizes) + 1 /\ WholeLines' = WholeLines
         /\ conn' = conn \/ (conn = "Idle" /\ conn' \in {"Live", "Dead"})
<1> PICK size \in 1..MaxSize : \/ SendConnected(size) \/ SendNotConnected(size)
                               \/ SendLive(size) \/ SendDead(size)
    BY DEF Send
<1>1. /\ Handed(size) /\ wire' = wire /\ ~sending
      /\ conn' = conn \/ (conn = "Idle" /\ conn' \in {"Live", "Dead"})
  BY DEF SendConnected, SendNotConnected, SendLive, SendDead, Handed
<1>2. \A i \in 1..Len(wire) : Whole(i)' = Whole(i)
  BY <1>1, WireStays
<1>3. wire # <<>> => Len(wire) \in 1..Len(wire)
  BY DEF TypeOK
<1> QED
  BY <1>1, <1>2, <1>3, HandedSizes DEF WholeLines, Whole

\* A write completes the line under way, or none.
LEMMA WriteDelivers ==
  ASSUME TypeOK, WireInv, NEW n \in 1..MaxSize, Write(n)
  PROVE  /\ conn = "Live" /\ UNCHANGED <<conn, sizes>>
         /\ WholeLines = Len(sizes) - 1 /\ WholeLines' \in {WholeLines, WholeLines + 1}
<1>1. /\ sending /\ n \in Nat /\ n > 0 /\ UNCHANGED <<conn, sizes>>
      /\ Current \in Nat /\ Current \in 1..Len(sizes)
      /\ written \in Nat /\ sizes[Current] \in Nat /\ written + n <= sizes[Current]
  BY DEF Write, TypeOK, WireInv, Current
<1>2. WholeLines = Current - 1 /\ Current = Len(sizes) /\ conn = "Live"
  BY <1>1, OnePending
<1>3. Len(wire') = Len(wire) + n /\ Len(wire) \in Nat
      /\ wire'[Len(wire) + n] = [line |-> Current, part |-> written + n]
  <2>1. Len(wire) \in Nat /\ Len(wire) + n \in (Len(wire) + 1)..(Len(wire) + n)
    BY <1>1 DEF TypeOK
  <2>2. (Len(wire) + n) - Len(wire) = n
    BY <2>1, <1>1
  <2> QED
    BY <2>1, <2>2, WriteAppends
<1>4. wire' # <<>> /\ wire'[Len(wire')].line = Current
  BY <1>1, <1>3
<1>5. WholeLines' \in {Current, Current - 1}
  BY <1>4 DEF WholeLines
<1> QED
  BY <1>1, <1>2, <1>5

\* The connection implements the abstract stream of lines: whatever the kernel,
\* the server and a kill do, the lines of a request arrive whole and in order
\* until its stream ends (transport.rs:25-48).
THEOREM LinesRefined == Spec => ImplementsLineStream
<1>1. Init => Lines!Init
  BY DEF Init, Lines!Init, WholeLines
<1>2. TypeOK /\ WireInv /\ [Next]_vars => [Lines!Next]_(Lines!stream)
  <2> SUFFICES ASSUME TypeOK, WireInv, [Next]_vars
               PROVE  Lines!Next \/ UNCHANGED Lines!stream
      OBVIOUS
  <2> USE DEF Lines!Next, Lines!stream
  <2>1. CASE Rinit
    <3>1. Len(sizes') = 0 /\ WholeLines' = 0 /\ conn' = "Idle" /\ ~sending
      BY <2>1 DEF Rinit, WholeLines
    <3> QED
      BY <3>1, NothingPending DEF Lines!NewRequest
  <2>2. CASE Rshutdown \/ Killed \/ WriteFails
    <3>1. conn' = "Dead" /\ UNCHANGED <<sizes, wire>>
      BY <2>2 DEF Rshutdown, Killed, WriteFails
    <3> QED
      BY <3>1 DEF Lines!End, WholeLines, Whole
  <2>3. CASE Send
    BY <2>3, SendOffers, NothingPending DEF Lines!Offer
  <2>4. ASSUME NEW n \in 1..MaxSize, Write(n) PROVE Lines!Next \/ UNCHANGED Lines!stream
    <3>1. Len(sizes) \in Nat
      BY DEF TypeOK
    <3> QED
      BY <2>4, <3>1, WriteDelivers DEF Lines!Deliver
  <2>5. CASE WriteDone \/ Server \/ UNCHANGED vars
    BY <2>5 DEF WriteDone, Server, Read, ServerStarts, ServerStops, vars, WholeLines, Whole
  <2> QED
    BY <2>1, <2>2, <2>3, <2>4, <2>5 DEF Next, WriteAll
<1> QED
  BY <1>1, <1>2, WireAlways, PTL DEF Spec, ImplementsLineStream, Lines!Spec
=============================================================================
