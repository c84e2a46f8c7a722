------------------------------ MODULE ClientTable ------------------------------
(***************************************************************************)
(* server.c: g_sock_clients, the sockets of the clients, and its counter.  *)
(* The accept loop enters a socket, a courier thread whose connection has  *)
(* ended lowers the counter (and so drops the last socket, whichever it    *)
(* is), and the handler of SIGINT closes what the counter includes.        *)
(*                                                                         *)
(* None of them takes a mutex.  The accept loop loads the counter, stores  *)
(* it incremented and then stores the socket; a courier thread compares    *)
(* the counter with 0, loads it and stores it decremented, as the build of *)
(* the repository does.  In that build the array is the last thing in its  *)
(* segment: a store behind it ends the process, one before it (the counter *)
(* is unsigned and may wrap) falls into unused bytes.                      *)
(*                                                                         *)
(* The server closes no socket before the handler does, so every socket is *)
(* of one connection only.  entered, lost, moved, full are history.        *)
(***************************************************************************)
EXTENDS Integers, FiniteSets

CONSTANTS Sockets,        \* what accept returns
          MAX_CLIENT,
          COUNT_MODULUS   \* 2^64: what the counter's arithmetic is modulo of

ASSUME TableAssumption ==
  /\ IsFiniteSet(Sockets) /\ {"stdin", "failed", "server_on"} \intersect Sockets = {}
  /\ MAX_CLIENT \in Nat \ {0}
  /\ COUNT_MODULUS \in Nat /\ COUNT_MODULUS > MAX_CLIENT + 1
  /\ COUNT_MODULUS > Cardinality(Sockets) + 1   \* a process has fewer than 2^31 descriptors

VARIABLES
  g_sock_clients, g_sock_client_count,
  server,         \* the statement server_on executes next
  client_socket,  \* its variable of that name
  worker,         \* where the courier thread of a socket is
  loaded,         \* the value of the counter a thread has loaded
  closer,         \* where the handler of SIGINT is
  slot,           \* its i
  shut,           \* the sockets it has closed
  entered,        \* the sockets counted and not yet counted out
  lost,           \* an update of the counter was lost
  moved,          \* the counter or the table changed after the handler had begun
  full            \* more than MAX_CLIENT sockets were counted at once

tableVars == <<g_sock_clients, g_sock_client_count, server, client_socket, worker,
               loaded, closer, slot, shut, entered, lost, moved, full>>
handlerVars == <<closer, slot, shut>>

\* A cell nobody has written holds 0, the descriptor of the standard input.  accept may
\* fail; what it returned is entered all the same.
Descriptors == Sockets \union {"stdin", "failed"}
Main == "server_on"

TableInit ==
  /\ g_sock_clients = [i \in 0 .. MAX_CLIENT - 1 |-> "stdin"]
  /\ g_sock_client_count = 0
  /\ server = "accept"
  /\ client_socket = "failed"
  /\ worker = [s \in Sockets |-> "none"]
  /\ loaded = [t \in Sockets \union {Main} |-> 0]
  /\ closer = "none"
  /\ slot = 0
  /\ shut = {}
  /\ entered = {}
  /\ lost = FALSE
  /\ moved = FALSE
  /\ full = FALSE

\* The process ends when main returns, the handler calls exit or a store hits nothing.
Serving == server \notin {"returned", "crashed"} /\ closer # "exited"

\* The counter is stored: what other threads did to it since it was loaded is lost.
StoreCount(t, n) ==
  /\ g_sock_client_count' = n % COUNT_MODULUS
  /\ lost' = (lost \/ loaded[t] # g_sock_client_count)
  /\ moved' = (moved \/ closer # "none")

LoadCount(t) ==
  loaded' = [loaded EXCEPT ![t] = g_sock_client_count]

-----------------------------------------------------------------------------
\* accept
AcceptClient ==
  /\ Serving /\ server = "accept"
  /\ client_socket' \in {s \in Sockets : worker[s] = "none"} \union {"failed"}
  /\ worker' = [s \in Sockets |-> IF s = client_socket' THEN "accepted" ELSE worker[s]]
  /\ server' = "load"
  /\ UNCHANGED <<g_sock_clients, g_sock_client_count, loaded, handlerVars, entered, lost, moved, full>>

\* g_sock_clients[g_sock_client_count++] = client_socket: the counter is loaded, ...
EnterLoad ==
  /\ Serving /\ server = "load"
  /\ LoadCount(Main)
  /\ server' = "count"
  /\ UNCHANGED <<g_sock_clients, g_sock_client_count, client_socket, worker, handlerVars,
                 entered, lost, moved, full>>

\* ... stored ...
EnterCount ==
  /\ Serving /\ server = "count"
  /\ StoreCount(Main, loaded[Main] + 1)
  /\ entered' = entered \union {client_socket}
  /\ server' = "slot"
  /\ full' = (full \/ Cardinality(entered') > MAX_CLIENT)
  /\ UNCHANGED <<g_sock_clients, client_socket, worker, loaded, handlerVars>>

\* Faulty variant: the index is the incremented counter.
EnterSocketBehind ==
  /\ Serving /\ server = "slot"
  /\ LET i == (loaded[Main] + 1) % COUNT_MODULUS IN
       /\ g_sock_clients' =
            [c \in DOMAIN g_sock_clients |-> IF c = i THEN client_socket ELSE g_sock_clients[c]]
       /\ server' = IF i \in MAX_CLIENT .. COUNT_MODULUS - 2 THEN "crashed" ELSE "read"
  /\ moved' = (moved \/ closer # "none")
  /\ UNCHANGED <<g_sock_client_count, client_socket, worker, loaded, handlerVars, entered, lost, full>>

\* ... and the cell of the value loaded gets the socket.
EnterSocket ==
  /\ Serving /\ server = "slot"
  /\ LET i == loaded[Main] IN
       /\ g_sock_clients' =
            [c \in DOMAIN g_sock_clients |-> IF c = i THEN client_socket ELSE g_sock_clients[c]]
       /\ server' = IF i \in MAX_CLIENT .. COUNT_MODULUS - 2 THEN "crashed" ELSE "read"
  /\ moved' = (moved \/ closer # "none")
  /\ UNCHANGED <<g_sock_client_count, client_socket, worker, loaded, handlerVars, entered, lost, full>>

\* The first read: a request makes a courier thread, anything else leaves the socket
\* open, without a thread, and counted for ever.
FirstRequest ==
  /\ Serving /\ server = "read" /\ client_socket # "failed"
  /\ server' = "accept"
  /\ \/ worker' = [worker EXCEPT ![client_socket] = "reading"]
     \/ UNCHANGED worker
  /\ UNCHANGED <<g_sock_clients, g_sock_client_count, client_socket, loaded, handlerVars,
                 entered, lost, moved, full>>

\* The first read fails, and the loop breaks: main returns, with the counter lowered.
FirstReadFails ==
  /\ Serving /\ server = "read"
  /\ server' = "returned"
  /\ g_sock_client_count' = IF g_sock_client_count > 0 THEN g_sock_client_count - 1 ELSE 0
  /\ entered' = entered \ {client_socket}
  /\ moved' = (moved \/ closer # "none")
  /\ UNCHANGED <<g_sock_clients, client_socket, worker, loaded, handlerVars, lost, full>>

-----------------------------------------------------------------------------
\* process_courier_thread: the connection has ended.
WorkerTo(s, here, there) ==
  /\ Serving
  /\ worker[s] = here
  /\ worker' = [worker EXCEPT ![s] = there]

\* Faulty variant: without goto end the thread reads once more, and fails once more.
ReadFailsAgain(s) ==
  /\ Serving
  /\ worker[s] \in {"reading", "ended"}
  /\ worker' = [worker EXCEPT ![s] = "check"]
  /\ UNCHANGED <<g_sock_clients, g_sock_client_count, server, client_socket, loaded,
                 handlerVars, entered, lost, moved, full>>

ReadFails(s) ==
  /\ WorkerTo(s, "reading", "check")
  /\ UNCHANGED <<g_sock_clients, g_sock_client_count, server, client_socket, loaded,
                 handlerVars, entered, lost, moved, full>>

\* if (g_sock_client_count > 0)
CheckCount(s) ==
  /\ WorkerTo(s, "check", IF g_sock_client_count > 0 THEN "load" ELSE "ended")
  /\ UNCHANGED <<g_sock_clients, g_sock_client_count, server, client_socket, loaded,
                 handlerVars, entered, lost, moved, full>>

\* --g_sock_client_count
LeaveLoad(s) ==
  /\ WorkerTo(s, "load", "store")
  /\ LoadCount(s)
  /\ UNCHANGED <<g_sock_clients, g_sock_client_count, server, client_socket,
                 handlerVars, entered, lost, moved, full>>

LeaveCount(s) ==
  /\ WorkerTo(s, "store", "ended")
  /\ StoreCount(s, loaded[s] - 1)
  /\ entered' = entered \ {s}
  /\ UNCHANGED <<g_sock_clients, server, client_socket, loaded, handlerVars, full>>

-----------------------------------------------------------------------------
\* SIGINT_handler, in whatever thread.  The other threads go on.
SigInt ==
  /\ Serving /\ closer = "none"
  /\ closer' = "closing"
  /\ moved' = (server = "slot")
  /\ UNCHANGED <<g_sock_clients, g_sock_client_count, server, client_socket, worker,
                 loaded, slot, shut, entered, lost, full>>

\* Faulty variant: i < g_sock_client_count - 1.
InTableButLast == slot + 1 < g_sock_client_count

\* i < g_sock_client_count, read in every turn.
InTable == slot < g_sock_client_count

\* close(g_sock_clients[i]).  What lies behind the array belongs to nobody: there
\* another descriptor is closed, or none, or the read fails.
CloseSocket ==
  /\ Serving /\ closer = "closing" /\ InTable
  /\ \/ /\ slot < MAX_CLIENT
        /\ shut' = shut \union {g_sock_clients[slot]}
        /\ UNCHANGED server
     \/ /\ slot >= MAX_CLIENT
        /\ server' \in {server, "crashed"}
        /\ UNCHANGED shut
  /\ slot' = slot + 1
  /\ UNCHANGED <<g_sock_clients, g_sock_client_count, client_socket, worker, loaded,
                 closer, entered, lost, moved, full>>

\* exit(1)
ExitServer ==
  /\ Serving /\ closer = "closing" /\ ~InTable
  /\ closer' = "exited"
  /\ UNCHANGED <<g_sock_clients, g_sock_client_count, server, client_socket, worker,
                 loaded, slot, shut, entered, lost, moved, full>>

TableNext ==
  \/ AcceptClient \/ EnterLoad \/ EnterCount \/ EnterSocket \/ FirstRequest \/ FirstReadFails
  \/ \E s \in Sockets : ReadFails(s) \/ CheckCount(s) \/ LeaveLoad(s) \/ LeaveCount(s)
  \/ SigInt \/ CloseSocket \/ ExitServer

TableSpec == TableInit /\ [][TableNext]_tableVars

-----------------------------------------------------------------------------
Counts == 0 .. COUNT_MODULUS - 1

TableTypeOK ==
  /\ g_sock_clients \in [0 .. MAX_CLIENT - 1 -> Descriptors]
  /\ g_sock_client_count \in Counts
  /\ server \in {"accept", "load", "count", "slot", "read", "returned", "crashed"}
  /\ client_socket \in Sockets \union {"failed"}
  /\ worker \in [Sockets -> {"none", "accepted", "reading", "check", "load", "store", "ended"}]
  /\ loaded \in [Sockets \union {Main} -> Counts]
  /\ closer \in {"none", "closing", "exited"}
  /\ slot \in Counts
  /\ shut \subseteq Descriptors
  /\ entered \subseteq Descriptors
  /\ lost \in BOOLEAN /\ moved \in BOOLEAN /\ full \in BOOLEAN

\* While no two threads change the counter at the same time, it is the number of
\* connections that were counted in and not out, so that it cannot wrap either.
CountTrue == lost \/ g_sock_client_count = Cardinality(entered)

\* Nothing is stored or read behind the array (server.c:141 checks no index) unless an
\* update of the counter was lost or more than MAX_CLIENT connections were counted at
\* once: the open ones, and those left open for a request that is no courier's.
CrashesOverfull == server = "crashed" => lost \/ full

\* The sockets the handler would close now.
Listed == {g_sock_clients[i] : i \in 0 .. g_sock_client_count - 1}

\* As long as no connection has ended either, the table holds all open connections and
\* nothing else, except for the cell the accept loop has counted and not yet written.
\* (The end of a connection takes the last socket out, not its own.)
TableHoldsThem ==
  (/\ ~lost /\ Serving /\ server # "slot" /\ g_sock_client_count <= MAX_CLIENT
   /\ \A s \in Sockets : worker[s] # "ended")
    => Listed = entered

\* Then the handler, if nothing changes while it runs, closes all of them and no other
\* descriptor.
HandlerClosesThem ==
  (/\ closer = "exited" /\ ~moved /\ ~lost
   /\ \A s \in Sockets : worker[s] # "ended")
    => shut = entered
=============================================================================
