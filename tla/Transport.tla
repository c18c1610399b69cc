------------------------------ MODULE Transport ------------------------------
(* The connection of a request to the dump server (src/src/transport.rs), as  *)
(* request.rs uses it: Conn::Idle at RINIT, one Conn::send per frame, dropped *)
(* at RSHUTDOWN.  The kernel, the server's process and its reader are         *)
(* external: they take bytes, stop taking them, or go away, at any moment     *)
(* between two writes.                                                        *)
(*                                                                            *)
(* A line is its position among the lines of the request; its bytes are its   *)
(* parts 1..size, the last one being the newline.                             *)
EXTENDS Naturals, Sequences

CONSTANTS
  MaxSize,      \* bound: parts of a line
  Room,         \* parts the two kernel buffers hold
  MaxLines,     \* bound: lines of a request
  MaxRequests   \* bound: requests of the worker

ASSUME TransportAssumption ==
  /\ MaxSize \in Nat /\ Room \in Nat /\ MaxLines \in Nat /\ MaxRequests \in Nat

Part == [line : Nat, part : Nat]

VARIABLES
  phase,     \* "idle", or "running" between RINIT and RSHUTDOWN
  conn,      \* "Idle", "Live" or "Dead"; "Dead" while there is no request
  sizes,     \* the sizes of the lines handed to send() in this request
  written,   \* parts of the line being sent that write_all has got rid of
  sending,   \* send() has not returned yet
  wire,      \* the parts the kernel accepted on this request's connection
  got,       \* how many of them the reader has taken
  listening, \* the server accepts connections
  peer,      \* the server's end of the connection: "none", "open" or "gone"
  attempts,  \* history: connects of this request
  requests   \* requests begun so far

vars == <<phase, conn, sizes, written, sending, wire, got, listening, peer,
          attempts, requests>>

Current == Len(sizes)          \* the line being sent, or sent last
Free    == Room - (Len(wire) - got)

Init == /\ phase = "idle" /\ conn = "Dead"
        /\ sizes = <<>> /\ written = 0 /\ sending = FALSE
        /\ wire = <<>> /\ got = 0 /\ listening \in BOOLEAN /\ peer = "none"
        /\ attempts = 0 /\ requests = 0

\* Mutant of Rinit: the reader of the new connection goes on where the reader
\* of the previous one stopped.
RinitGoesOn == /\ ~sending /\ requests < MaxRequests
               /\ phase' = "running" /\ conn' = "Idle"
               /\ sizes' = <<>> /\ written' = 0
               /\ wire' = <<>> /\ peer' = "none"
               /\ attempts' = 0 /\ requests' = requests + 1
               /\ UNCHANGED <<sending, got, listening>>

\* on_rinit: a fresh Conn::Idle.  It replaces the connection of a request whose
\* RSHUTDOWN panicked, if there is one.
Rinit == /\ ~sending /\ requests < MaxRequests
         /\ phase' = "running" /\ conn' = "Idle"
         /\ sizes' = <<>> /\ written' = 0
         /\ wire' = <<>> /\ got' = 0 /\ peer' = "none"
         /\ attempts' = 0 /\ requests' = requests + 1
         /\ UNCHANGED <<sending, listening>>

\* on_rshutdown drops the connection; what the kernel holds is still delivered.
Rshutdown == /\ phase = "running" /\ ~sending
             /\ phase' = "idle" /\ conn' = "Dead"
             /\ UNCHANGED <<sizes, written, sending, wire, got, listening, peer,
                            attempts, requests>>

\* The worker process is killed, also in the middle of a send: the kernel closes
\* the socket.
Killed == /\ phase = "running"
          /\ phase' = "idle" /\ conn' = "Dead" /\ sending' = FALSE
          /\ UNCHANGED <<sizes, written, wire, got, listening, peer, attempts, requests>>

-----------------------------------------------------------------------------
(* Conn::send.                                                               *)

Handed(size) == /\ phase = "running" /\ ~sending /\ Len(sizes) < MaxLines
                /\ sizes' = Append(sizes, size) /\ written' = 0

\* The connect of the first send succeeds only if somebody listens; it may fail
\* all the same (the 50 ms timeout, or the socket cannot be made non-blocking).
SendConnected(size) ==
  /\ Handed(size) /\ conn = "Idle" /\ listening
  /\ conn' = "Live" /\ peer' = "open" /\ sending' = TRUE /\ attempts' = attempts + 1
  /\ UNCHANGED <<phase, wire, got, listening, requests>>

\* Mutant of SendNotConnected: the next send tries again.
SendRetries(size) ==
  /\ Handed(size) /\ conn = "Idle"
  /\ attempts' = attempts + 1
  /\ UNCHANGED <<phase, conn, sending, wire, got, listening, peer, requests>>

SendNotConnected(size) ==
  /\ Handed(size) /\ conn = "Idle"
  /\ conn' = "Dead" /\ attempts' = attempts + 1
  /\ UNCHANGED <<phase, sending, wire, got, listening, peer, requests>>

SendLive(size) ==
  /\ Handed(size) /\ conn = "Live"
  /\ sending' = TRUE
  /\ UNCHANGED <<phase, conn, wire, got, listening, peer, attempts, requests>>

\* Mutant of SendDead: a dead connection is tried again.
SendReconnects(size) ==
  /\ Handed(size) /\ conn = "Dead"
  /\ conn' = "Live" /\ sending' = TRUE /\ peer' = "open"
  /\ UNCHANGED <<phase, wire, got, listening, attempts, requests>>

SendDead(size) ==
  /\ Handed(size) /\ conn = "Dead"
  /\ UNCHANGED <<phase, conn, sending, wire, got, listening, peer, attempts, requests>>

\* write_all: the kernel takes some of the bytes that are left, at least one and
\* no more than it has room for.  A peer that is gone may not be noticed yet.
Write(n) ==
  /\ sending /\ n \in 1..(sizes[Current] - written) /\ n <= Free
  /\ wire' = wire \o [i \in 1..n |-> [line |-> Current, part |-> written + i]]
  /\ written' = written + n
  /\ UNCHANGED <<phase, conn, sizes, sending, got, listening, peer, attempts, requests>>

\* Mutants of WriteFails: the connection is kept after a short write; the socket
\* is left blocking, so that a full buffer is no error.
WriteFailsStaysLive ==
  /\ sending /\ written < sizes[Current]
  /\ Free = 0 \/ peer = "gone"
  /\ sending' = FALSE
  /\ UNCHANGED <<phase, conn, sizes, written, wire, got, listening, peer, attempts, requests>>

WriteBlocks ==
  /\ sending /\ written < sizes[Current] /\ peer = "gone"
  /\ conn' = "Dead" /\ sending' = FALSE
  /\ UNCHANGED <<phase, sizes, written, wire, got, listening, peer, attempts, requests>>

\* WouldBlock on a full buffer, or an error of a connection whose peer is gone:
\* Dead, which drops the socket.
WriteFails ==
  /\ sending /\ written < sizes[Current]
  /\ Free = 0 \/ peer = "gone"
  /\ conn' = "Dead" /\ sending' = FALSE
  /\ UNCHANGED <<phase, sizes, written, wire, got, listening, peer, attempts, requests>>

\* write_all got rid of the whole line.
WriteDone ==
  /\ sending /\ written = sizes[Current]
  /\ sending' = FALSE
  /\ UNCHANGED <<phase, conn, sizes, written, wire, got, listening, peer, attempts, requests>>

Send == \E size \in 1..MaxSize : \/ SendConnected(size) \/ SendNotConnected(size)
                                 \/ SendLive(size) \/ SendDead(size)
WriteAll == (\E n \in 1..MaxSize : Write(n)) \/ WriteFails \/ WriteDone

-----------------------------------------------------------------------------
(* The server (external): it reads, or not; it comes and goes.               *)

Read == /\ peer = "open" /\ got < Len(wire)
        /\ got' = got + 1
        /\ UNCHANGED <<phase, conn, sizes, written, sending, wire, listening, peer,
                       attempts, requests>>

ServerStarts == /\ ~listening /\ listening' = TRUE
                /\ UNCHANGED <<phase, conn, sizes, written, sending, wire, got, peer,
                               attempts, requests>>

ServerStops == /\ listening /\ listening' = FALSE
               /\ peer' = IF peer = "open" THEN "gone" ELSE peer
               /\ UNCHANGED <<phase, conn, sizes, written, sending, wire, got,
                              attempts, requests>>

Server == Read \/ ServerStarts \/ ServerStops

Next == Rinit \/ Rshutdown \/ Killed \/ Send \/ WriteAll \/ Server

Spec == Init /\ [][Next]_vars

\* The worker runs its own code; nothing is assumed of the server.
FairSpec == Spec /\ WF_vars(WriteAll)

-----------------------------------------------------------------------------
(* Properties.                                                               *)

TypeOK ==
  /\ phase \in {"idle", "running"} /\ conn \in {"Idle", "Live", "Dead"}
  /\ sizes \in Seq(Nat) /\ written \in Nat /\ sending \in BOOLEAN
  /\ wire \in Seq(Part) /\ got \in 0..Len(wire)
  /\ listening \in BOOLEAN /\ peer \in {"none", "open", "gone"}
  /\ attempts \in Nat /\ requests \in Nat

Whole(i) == wire[i].part = sizes[wire[i].line]   \* the newline of its line

\* Lines are never spliced: on the wire each line starts where the previous one
\* ended with its newline, the next part of a line follows the part before it,
\* and the lines are the first ones handed over, in order (transport.rs:39-43).
NoSplice ==
  \A i \in 1..Len(wire) :
    \/ wire[i].part = 1 /\ wire[i].line = 1 /\ i = 1
    \/ /\ i > 1 /\ wire[i].part = 1 /\ Whole(i - 1)
       /\ wire[i].line = wire[i - 1].line + 1
    \/ /\ i > 1 /\ wire[i].part = wire[i - 1].part + 1
       /\ wire[i].line = wire[i - 1].line /\ ~Whole(i - 1)

\* A request that is still connected has lost nothing: every line handed over
\* before the current one is on the wire to its newline.
LiveIsComplete ==
  conn = "Live" /\ ~sending =>
    /\ Len(wire) > 0 /\ Whole(Len(wire)) /\ wire[Len(wire)].line = Current

\* A request connects at most once, whatever becomes of the server, and a line
\* is on the wire only of a request that did (transport.rs:3-6, 29).
ConnectOnce == attempts <= 1 /\ (wire # <<>> => attempts = 1)

\* Once broken, a connection stays silent for the rest of the request.
DeadIsFinal == [][conn = "Dead" /\ phase = "running" /\ requests' = requests
                    => conn' = "Dead" /\ wire' = wire]_vars

\* send() returns although the server may never read again.
SendReturns == sending ~> ~sending

\* Why they hold: a line is written only while the connection is live, from where
\* the wire stands, and a connection that fails under a line is dead at once.
LineStarts == \/ wire = <<>> /\ Current = 1
              \/ /\ wire # <<>> /\ Whole(Len(wire))
                 /\ Current = wire[Len(wire)].line + 1
LineContinues == /\ wire # <<>> /\ wire[Len(wire)].line = Current
                 /\ wire[Len(wire)].part = written
WireInv ==
  /\ conn # "Dead" => phase = "running"
  /\ conn = "Idle" => sizes = <<>> /\ wire = <<>> /\ attempts = 0
  /\ conn = "Live" => attempts = 1
  /\ \A i \in 1..Len(sizes) : sizes[i] > 0
  /\ \A i \in 1..Len(wire) : /\ wire[i].line \in 1..Len(sizes)
                             /\ wire[i].part \in 1..sizes[wire[i].line]
  /\ sending => /\ conn = "Live" /\ Len(sizes) > 0
                /\ written <= sizes[Current]
                /\ IF written = 0 THEN LineStarts ELSE LineContinues
  /\ NoSplice /\ LiveIsComplete /\ ConnectOnce

\* The lines on the wire are whole up to the last one, which may be under way.
WholeLines == IF wire = <<>> THEN 0
              ELSE IF Whole(Len(wire)) THEN wire[Len(wire)].line
              ELSE wire[Len(wire)].line - 1
Lines == INSTANCE LineStream WITH
  offered <- Len(sizes), whole <- WholeLines, ended <- conn = "Dead"
ImplementsLineStream == Lines!Spec
=============================================================================
