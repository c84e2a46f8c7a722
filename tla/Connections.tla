------------------------------ MODULE Connections ------------------------------
(***************************************************************************)
(* How requests reach the courier threads: server_on accepts connections   *)
(* one at a time, reads the first piece of each itself and creates a       *)
(* courier thread, which reads the others.  A courier_generator writes     *)
(* WRITE_SIZE bytes per request, the server reads at most MESSAGE_SIZE of  *)
(* them at a time, and TCP may deliver fewer.                              *)
(*                                                                         *)
(* A stream is counted in units, bytes or runs of bytes a read does not    *)
(* end in.  The text "COURIER#name#time", with its zero, is the first TEXT *)
(* units of a write, COURIER# the first SERVICE of them and all up to the  *)
(* first digit of the time the first FIELDS, and COURIER# is nowhere else, *)
(* so that a position says what lies there.  A read may end anywhere, in a *)
(* text too.                                                               *)
(* message[b] is the request whose COURIER# buffer b begins with, or 0;    *)
(* timed[b], that three fields can be found in the buffer.                 *)
(*                                                                         *)
(* Every courier thread is handed the address of request, a variable of    *)
(* the loop that the next turn overwrites.  A buffer and a courier thread  *)
(* have the name of the client they were allocated and created for.        *)
(* skipped, torn, short, freed and clobbered are history variables.        *)
(***************************************************************************)
EXTENDS Integers, FiniteSets

CONSTANTS Clients,
          WRITE_SIZE, MESSAGE_SIZE,
          SERVICE, FIELDS, TEXT,
          MAX_REQUESTS   \* bound: how many requests each client writes

ASSUME StreamAssumption ==
  /\ WRITE_SIZE \in Nat \ {0}
  /\ MESSAGE_SIZE \in 1 .. WRITE_SIZE
  /\ WRITE_SIZE % MESSAGE_SIZE = 0   \* 4000 and 1000
  /\ SERVICE \in Nat /\ FIELDS \in Nat /\ TEXT \in Nat
  /\ 2 <= SERVICE /\ SERVICE < FIELDS /\ FIELDS <= TEXT /\ TEXT <= MESSAGE_SIZE
  /\ MAX_REQUESTS \in [Clients -> Nat]

None == "none"
ASSUME NoneAssumption == None \notin Clients

VARIABLES
  strangers,   \* the clients whose requests do not begin with COURIER#
  connected,   \* the clients connect has returned to
  closed,      \* the clients that have closed their connection
  sent,        \* the requests each client has written
  consumed,    \* the units of each connection the server has read
  accepted,    \* the connections accept has returned
  main,        \* where server_on is in its loop
  request,     \* its variable request
  message,     \* the request each buffer begins with
  timed,       \* whether strtok finds three fields in the buffer
  thread,      \* where each courier thread is
  pa_request,  \* the buffer each courier thread uses
  freed,       \* the buffers that have been freed
  handled,     \* the requests of each connection a courier was registered for
  skipped,     \* the requests whose COURIER# is not what some read begins with
  torn,        \* the requests whose text a read began with and did not reach the end of
  short,       \* the connections of which a read has returned less than MESSAGE_SIZE
  clobbered    \* request was overwritten before a courier thread had read it

streamVars == <<connected, closed, sent, consumed, skipped, torn, short>>
bufferVars == <<message, timed>>
mainVars == <<accepted, main, request, clobbered>>
threadVars == <<thread, pa_request, handled>>
vars == <<strangers, streamVars, mainVars, threadVars, bufferVars, freed>>

Init ==
  /\ strangers \in SUBSET Clients
  /\ connected = {} /\ closed = {}
  /\ sent = [k \in Clients |-> 0]
  /\ consumed = [k \in Clients |-> 0]
  /\ skipped = [k \in Clients |-> {}]
  /\ torn = [k \in Clients |-> {}]
  /\ short = {}
  /\ accepted = {}
  /\ main = "accept"
  /\ request = None
  /\ clobbered = FALSE
  /\ thread = [k \in Clients |-> "none"]
  /\ pa_request = [k \in Clients |-> None]
  /\ handled = [k \in Clients |-> {}]
  /\ message = [k \in Clients |-> 0]
  /\ timed = [k \in Clients |-> FALSE]
  /\ freed = {}

\* The process ends when main returns or something crashes.
Up == main \notin {"returned", "crashed"}

-----------------------------------------------------------------------------
\* create_client: connect returns once the connection is in the server's backlog.
Connect(k) ==
  /\ Up
  /\ k \notin connected
  /\ connected' = connected \union {k}
  /\ UNCHANGED <<closed, sent, consumed, skipped, torn, short, mainVars, threadVars, bufferVars, freed>>

\* create_client: a line of input is written, WRITE_SIZE bytes whatever its length.
Send(k) ==
  /\ Up
  /\ k \in connected \ closed
  /\ sent[k] < MAX_REQUESTS[k]
  /\ sent' = [sent EXCEPT ![k] = @ + 1]
  /\ UNCHANGED <<connected, closed, consumed, skipped, torn, short, mainVars, threadVars, bufferVars, freed>>

\* SIGINT_handler of the generator: what was written before can still be read.
Close(k) ==
  /\ Up
  /\ k \in connected \ closed
  /\ closed' = closed \union {k}
  /\ UNCHANGED <<connected, sent, consumed, skipped, torn, short, mainVars, threadVars, bufferVars, freed>>

-----------------------------------------------------------------------------
Available(k) == sent[k] * WRITE_SIZE - consumed[k]

AtEnd(k) == Available(k) = 0 /\ k \in closed

\* The number of the request whose text begins at a position, or 0.
TextAt(position) ==
  IF position % WRITE_SIZE = 0 THEN position \div WRITE_SIZE + 1 ELSE 0

\* The requests whose texts begin behind the first of n units.
Passed(position, n) == {TextAt(p) : p \in position + 1 .. position + n - 1} \ {0}

\* A buffer takes the next n units of its connection and looks from then on as if it had
\* the next m: strtok finds three fields if the piece begins with some of COURIER and goes
\* on to the time.  (The fields of a text whose COURIER is not complete are those of no
\* request: only another thread can get there, one that has found its own in the buffer.)
PieceRead(b, n, m) ==
  LET place   == consumed[b] % WRITE_SIZE
      text    == TextAt(consumed[b])
      service == IF m >= SERVICE /\ b \notin strangers THEN text ELSE 0
  IN  /\ consumed' = [consumed EXCEPT ![b] = @ + n]
      /\ message' = [message EXCEPT ![b] = service]
      /\ timed' = [timed EXCEPT ![b] = place + 1 < SERVICE /\ place + m >= FIELDS]
      /\ skipped' = [skipped EXCEPT ![b] =
                       @ \union Passed(consumed[b], n) \union ({text} \ {0, service})]
      /\ torn' = [torn EXCEPT ![b] = IF n < TEXT THEN @ \union ({text} \ {0}) ELSE @]
      /\ short' = IF n < MESSAGE_SIZE THEN short \union {b} ELSE short

\* Faulty variant: a piece is not cut where the stream ends.
ReadPieceBeyond(b) ==
  \E n \in 1 .. MESSAGE_SIZE : Available(b) > 0 /\ PieceRead(b, n, n)

\* Faulty variant: the buffer is filled up to its last byte but one.
ReadPieceLess(b) ==
  \E n \in 1 .. MESSAGE_SIZE - 1 :
    /\ n <= Available(b)
    /\ consumed' = [consumed EXCEPT ![b] = @ + n]
    /\ message' = [message EXCEPT ![b] = IF n >= SERVICE THEN TextAt(consumed[b]) ELSE 0]
    /\ timed' = [timed EXCEPT ![b] = TextAt(consumed[b]) # 0 /\ n >= FIELDS]
    /\ skipped' = [skipped EXCEPT ![b] = @ \union Passed(consumed[b], n)]
    /\ short' = IF n < MESSAGE_SIZE - 1 THEN short \union {b} ELSE short
    /\ UNCHANGED torn

\* process_courier_thread: the buffer is cleared, read returns a piece of what has been
\* written.
ReadPiece(b) ==
  \E n \in 1 .. MESSAGE_SIZE : n <= Available(b) /\ PieceRead(b, n, n)

\* server_on: the buffer is what malloc returned, so that a text that is cut may go on
\* with anything, though get_service_type looks only one byte behind the piece.
FirstPiece(b) ==
  \E n \in 1 .. MESSAGE_SIZE :
    /\ n <= Available(b)
    /\ \/ PieceRead(b, n, n)
       \/ n + 1 >= SERVICE /\ \E m \in n + 1 .. FIELDS : PieceRead(b, n, m)

-----------------------------------------------------------------------------
\* server_on: accept returns, a buffer is allocated for the connection's requests.
\* What malloc returned is not looked at before something is read into it.
Accept(k) ==
  /\ main = "accept"
  /\ k \in connected \ accepted
  /\ accepted' = accepted \union {k}
  /\ main' = "read"
  /\ request' = k
  /\ clobbered' = (clobbered \/ \E t \in Clients : thread[t] = "created")
  /\ UNCHANGED <<streamVars, threadVars, bufferVars, freed>>

\* server_on: the first read of a connection.
FirstRead ==
  /\ main = "read"
  /\ FirstPiece(request)
  /\ main' = "dispatch"
  /\ UNCHANGED <<connected, closed, sent, accepted, request, clobbered, threadVars, freed>>

\* server_on: the client has gone without a request.  The loop breaks, server_on
\* and main return.
FirstReadEnd ==
  /\ main = "read"
  /\ AtEnd(request)
  /\ main' = "returned"
  /\ freed' = freed \union {request}
  /\ UNCHANGED <<streamVars, accepted, request, clobbered, threadVars, bufferVars>>

\* get_service_type(request->message) = SERVICE_COURIER
IsCourierService == message[request] # 0

\* Faulty variant: the buffer is freed once it has been handed over.
CreateCourierFreed ==
  /\ main = "dispatch"
  /\ IsCourierService
  /\ main' = "accept"
  /\ thread' = [thread EXCEPT ![request] = "created"]
  /\ freed' = freed \union {request}
  /\ UNCHANGED <<streamVars, accepted, request, clobbered, pa_request, handled, bufferVars>>

\* server_on: a courier thread is created and handed the address of request.
CreateCourier ==
  /\ main = "dispatch"
  /\ IsCourierService
  /\ main' = "accept"
  /\ thread' = [thread EXCEPT ![request] = "created"]
  /\ UNCHANGED <<streamVars, accepted, request, clobbered, pa_request, handled, bufferVars, freed>>

\* server_on: another service, or none.  The client may be told so, and is not read
\* from again.
NoService ==
  /\ main = "dispatch"
  /\ ~IsCourierService
  /\ main' = "accept"
  /\ UNCHANGED <<streamVars, accepted, request, clobbered, threadVars, bufferVars, freed>>

-----------------------------------------------------------------------------
\* Thread t of the running process goes on.
ThreadTo(t, here, there) ==
  /\ Up
  /\ thread[t] = here
  /\ thread' = [thread EXCEPT ![t] = there]

\* Faulty variant: the thread reads before it looks at what it was handed.
StartReading(t) ==
  /\ ThreadTo(t, "created", "read")
  /\ pa_request' = [pa_request EXCEPT ![t] = request]
  /\ UNCHANGED <<streamVars, mainVars, handled, bufferVars, freed>>

\* process_courier_thread: pa_request = *(request_t**)p
Start(t) ==
  /\ ThreadTo(t, "created", "validate")
  /\ pa_request' = [pa_request EXCEPT ![t] = request]
  /\ UNCHANGED <<streamVars, mainVars, handled, bufferVars, freed>>

\* process_courier_thread: validate_request(pa_request->message)
Validate(t) ==
  /\ \/ ThreadTo(t, "validate", "handle") /\ message[pa_request[t]] # 0
     \/ ThreadTo(t, "validate", "read") /\ message[pa_request[t]] = 0
  /\ UNCHANGED <<streamVars, mainVars, pa_request, handled, bufferVars, freed>>

\* process_courier_thread: the next read of the connection.
Read(t) ==
  /\ ThreadTo(t, "read", "validate")
  /\ ReadPiece(pa_request[t])
  /\ UNCHANGED <<connected, closed, sent, mainVars, pa_request, handled, freed>>

\* process_courier_thread: the client has gone, the thread ends.
ReadEnd(t) ==
  /\ ThreadTo(t, "read", "gone")
  /\ AtEnd(pa_request[t])
  /\ freed' = freed \union {pa_request[t]}
  /\ UNCHANGED <<streamVars, mainVars, pa_request, handled, bufferVars>>

Found(b) == {message[b]} \ {0}

\* Faulty variant: the fields are read without strtok, the text stays as it is.
HandleUncut(t) ==
  /\ ThreadTo(t, "handle", "validate")
  /\ timed[pa_request[t]]
  /\ handled' = [handled EXCEPT ![pa_request[t]] = @ \union Found(pa_request[t])]
  /\ UNCHANGED <<streamVars, mainVars, pa_request, bufferVars, freed>>

\* process_courier_thread: strtok puts a zero in the place of the first #, so that
\* validate_request fails on this text from now on, and the courier is on its way
\* (see OrderProcessing for what the thread does before it validates again).  The time
\* is what has arrived of it.
Handle(t) ==
  /\ ThreadTo(t, "handle", "validate")
  /\ timed[pa_request[t]]
  /\ handled' = [handled EXCEPT ![pa_request[t]] = @ \union Found(pa_request[t])]
  /\ message' = [message EXCEPT ![pa_request[t]] = 0]
  /\ timed' = [timed EXCEPT ![pa_request[t]] = FALSE]
  /\ UNCHANGED <<streamVars, mainVars, pa_request, freed>>

\* process_courier_thread: the second or third strtok returns NULL, which strncpy and atoi
\* do not survive.  The read has ended in front of the name or of the time, or another
\* thread with the same buffer has cut its text or read something else into it.
HandleNothing(t) ==
  /\ ThreadTo(t, "handle", "gone")
  /\ ~timed[pa_request[t]]
  /\ main' = "crashed"
  /\ UNCHANGED <<streamVars, accepted, request, clobbered, pa_request, handled, bufferVars, freed>>

-----------------------------------------------------------------------------
ClientStep ==
  /\ UNCHANGED strangers
  /\ \E k \in Clients : Connect(k) \/ Send(k) \/ Close(k)

MainStep ==
  /\ UNCHANGED strangers
  /\ \/ \E k \in Clients : Accept(k)
     \/ FirstRead \/ FirstReadEnd \/ CreateCourier \/ NoService

ThreadStep(t) ==
  /\ UNCHANGED strangers
  /\ \/ Start(t) \/ Validate(t) \/ Read(t) \/ ReadEnd(t) \/ Handle(t) \/ HandleNothing(t)

Next ==
  \/ ClientStep
  \/ MainStep
  \/ \E t \in Clients : ThreadStep(t)

Spec == Init /\ [][Next]_vars

\* The threads of the server are scheduled; what clients do is up to them.
FairSpec == Spec /\ WF_vars(MainStep) /\ \A t \in Clients : WF_vars(ThreadStep(t))

-----------------------------------------------------------------------------
ConnTypeOK ==
  /\ strangers \subseteq Clients
  /\ connected \subseteq Clients
  /\ closed \subseteq connected
  /\ accepted \subseteq connected
  /\ sent \in [Clients -> Nat]
  /\ consumed \in [Clients -> Nat]
  /\ skipped \in [Clients -> SUBSET Nat]
  /\ torn \in [Clients -> SUBSET Nat]
  /\ handled \in [Clients -> SUBSET Nat]
  /\ message \in [Clients -> Nat]
  /\ timed \in [Clients -> BOOLEAN]
  /\ short \subseteq Clients
  /\ \A k \in Clients :
        /\ sent[k] <= MAX_REQUESTS[k]
        /\ consumed[k] <= sent[k] * WRITE_SIZE
        /\ skipped[k] \union torn[k] \union handled[k] \subseteq 1 .. sent[k]
        /\ message[k] <= sent[k]
  /\ main \in {"accept", "read", "dispatch", "returned", "crashed"}
  /\ request \in Clients \union {None}
  /\ thread \in [Clients -> {"none", "created", "validate", "handle", "read", "gone"}]
  /\ pa_request \in [Clients -> Clients \union {None}]
  /\ freed \subseteq Clients
  /\ clobbered \in BOOLEAN

Serving == {t \in Clients : thread[t] \in {"validate", "handle", "read"}}

\* Unless the loop has overwritten the variable it handed over, no courier thread
\* works on a buffer that is freed, or that is another thread's.
BuffersOwned ==
  ~clobbered => \A t \in Serving : pa_request[t] \notin freed
                                   /\ \A u \in Serving : pa_request[t] = pa_request[u] => t = u

\* Neither does it handle a request twice or after a later one, however the stream
\* is cut into pieces.
HandledInOrder ==
  [][\A t \in Clients : Handle(t) /\ ~clobbered =>
       \A n \in handled[pa_request[t]] : n < message[pa_request[t]]]_vars

\* A request of a courier is skipped, or taken for less than it is, only after a read of
\* its connection has returned less than the buffer holds: the pieces of full reads never
\* begin behind the start of a text.  As long as the variable that was handed over stands,
\* only a text that a read has torn can end the process.
FullReadsKeepRequests ==
  /\ \A k \in Clients \ strangers : skipped[k] \union torn[k] # {} => k \in short
  /\ main = "crashed" => clobbered \/ \E k \in Clients \ strangers : torn[k] # {}

\* The connection of k waits for server_on, which waits for the first request of
\* another client.
WaitsBehindSilent(k) ==
  k \notin accepted /\ main = "read" /\ Available(request) = 0

\* The first read of k ended in COURIER#: server_on took it for no service, and nobody
\* reads the connection again.
RefusedForPiece(k) ==
  /\ 1 \in skipped[k] /\ 1 \in torn[k]
  /\ k \in accepted /\ thread[k] = "none"

\* Nor does it lose one: in the end every request has been handled, or no read begins
\* with its COURIER#, whether its client has left or not, unless the client was refused
\* for a short first read, server_on waits for the first request of somebody else or the
\* server has ended.
RequestsHandled ==
  <>[](~Up \/ clobbered \/ \A k \in Clients \ strangers :
          \/ 1 .. sent[k] \subseteq handled[k] \union skipped[k]
          \/ RefusedForPiece(k) \/ WaitsBehindSilent(k))

-----------------------------------------------------------------------------
\* README.md:59-66: a client that closes its connection no longer makes the server
\* end.
ServerStaysUp == Up
=============================================================================
