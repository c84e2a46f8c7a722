-------------------------------- MODULE Actors --------------------------------
(***************************************************************************)
(* The threads and the heap objects of order_process_server that the       *)
(* modules of its shared data structures have in common.                   *)
(***************************************************************************)
CONSTANTS Orders,    \* the order_t objects; the cook thread of order o is named o
          Couriers,  \* the courier_t objects, one per request
          Clients,   \* the courier threads, one per connection
          NULL

\* The threads that call into the list of orders and the queue of couriers.
Threads == Orders \union Clients
=============================================================================
