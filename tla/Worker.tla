------------------------------- MODULE Worker -------------------------------
(* One worker process as its application and the dump server see it: its      *)
(* request context (Request, with Me for only worker) and the connection that *)
(* the context owns (Transport).  A frame told is a line handed to Conn::send,*)
(* inside which the worker then is until write_all ends; the context's end is *)
(* the connection's.  Yerd, the server and the signal that kills the worker   *)
(* come between any two steps, those inside of a send included.               *)
EXTENDS Request

CONSTANTS
  Me,                      \* the worker
  MaxSize, Room, MaxLines  \* as in Transport; MaxLines is never reached

ASSUME WorkerAssumption ==
  /\ Workers = {Me}
  /\ MaxSize \in Nat /\ Room \in Nat
  /\ MaxLines \in Nat /\ MaxLines > MaxFires * (MaxArgs + 1)

VARIABLES
  conn, sizes, written, sending, wire, got, listening, peer, attempts, requests,
  owner,   \* history: the request that opened the connection
  base     \* history: the frames told before it did

tcp   == <<conn, sizes, written, sending, wire, got, listening, peer, attempts, requests>>
opens == <<owner, base>>
wvars == <<vars, tcp, opens>>

T == INSTANCE Transport WITH phase <- IF ctx[Me] = NoCtx THEN "idle" ELSE "running"

WInit == Init /\ T!Init /\ owner = 0 /\ base = 0

-----------------------------------------------------------------------------
(* What a step of the worker does to its connection.                         *)

Untouched == UNCHANGED <<frames, ctx, counter, tcp, opens>>

\* build_line and Conn::send, under the borrow of the context.
Hands == frames' # frames /\ T!Send /\ UNCHANGED opens

\* RINIT draws an id, for a new context: the connection of a context left over
\* goes with it.
Opens == /\ frames' = frames /\ counter' # counter
         /\ T!Rinit
         /\ owner' = req'[Me] /\ base' = Len(frames)

\* CTX = None, or RINIT of a request that is off over a context left over.
Closes == /\ frames' = frames /\ ctx' # ctx /\ ctx'[Me] = NoCtx
          /\ T!Rshutdown /\ UNCHANGED opens

Carried == Untouched \/ Hands \/ Opens \/ Closes

\* The worker's own steps, none of which is taken within a send.
Begins == ~sending /\ Rinit(Me) /\ Carried
Runs   == ~sending /\ (Fire(Me) \/ Handle(Me) \/ Bailout(Me) \/ Rshutdown(Me)) /\ Carried
Ends   == ~sending /\ Shutdown(Me) /\ Carried
Writes == UNCHANGED <<vars, opens>> /\ T!WriteAll

\* Killed or recycled at any point, also with half a line written.
Dies == /\ Respawn(Me) /\ UNCHANGED opens
        /\ IF ctx[Me] = NoCtx THEN UNCHANGED tcp ELSE T!Killed

Outside == \/ (\E doc \in Docs \cup {NoDoc} : Toggle(doc)) /\ UNCHANGED <<tcp, opens>>
           \/ UNCHANGED <<vars, opens>> /\ T!Server

WNext == Begins \/ Runs \/ Ends \/ Writes \/ Dies \/ Outside

WSpec == WInit /\ [][WNext]_wvars

\* RSHUTDOWN and write_all run by themselves; nothing is assumed of the server,
\* of Yerd, or of the application before its request ends.
WFairSpec == WSpec /\ WF_wvars(Ends \/ Writes)

-----------------------------------------------------------------------------
(* Properties.                                                               *)

\* A connection carries its request and nothing else: its lines are the frames
\* told since it was opened, these are all the frames of the request that opened
\* it, and no other's, also after a shutdown that failed or a worker that died.
WireIsRequest ==
  /\ Len(frames) = base + Len(sizes)
  /\ \A i \in 1..Len(frames) : frames[i].req = owner <=> i > base

\* A summary that has arrived whole says that nothing of its request is missing:
\* it is the last line handed over, and the lines before it have arrived whole.
SummaryComplete ==
  LET n == T!WholeLines
  IN  n > 0 /\ frames[base + n].cat = "requests" => n = Len(sizes)

\* RSHUTDOWN ends, whatever the server does: "a down server must be invisible to
\* the user's app" (transport.rs:5-6).
ShutdownEnds == phase[Me] = "flush" ~> phase[Me] = "idle"
=============================================================================
