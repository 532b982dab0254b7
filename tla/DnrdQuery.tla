----------------------------- MODULE DnrdQuery -----------------------------
(***************************************************************************)
(* dnrd: the list of outstanding queries (query.c) and the pool of query   *)
(* identifiers it draws from (qid.c).                                      *)
(*                                                                         *)
(* qlist is the circular list hanging off the static head node, in list    *)
(* order; every node owns one upstream socket and one identifier.  Times   *)
(* are kept as ages in seconds, saturated at AgeCap: the code compares a   *)
(* node's client_time with now only through `age > ttl'.                   *)
(***************************************************************************)
EXTENDS Integers, SequencesExt

CONSTANTS
  Clients,             \* resolvers that send queries to dnrd
  Ids,                 \* the identifiers a client can put in a query
  Servers,             \* forward servers (one srvnode each)
  Domains,             \* domnodes, the default domain included
  NULL,                \* the C null pointer
  PoolSize,            \* QID_POOL_SIZE
  MaxSockets,          \* max_sockets (-M)
  ForwardTimeout,      \* forward_timeout (-t), seconds
  ReactivateInterval   \* reactivate_interval (-r), seconds

(* max_sockets is 200 by default and the pool holds 65536 identifiers.     *)
ASSUME SizesAssumption ==
  /\ PoolSize \in Nat \ {0}
  /\ MaxSockets \in 0 .. PoolSize

(* -r 0 turns reactivation off and is a different mode of the relay (see   *)
(* README); -t 0 only disables deactivation by timeout.                    *)
ASSUME TimesAssumption ==
  /\ ForwardTimeout \in Nat
  /\ ReactivateInterval \in Nat \ {0}

ASSUME NullAssumption ==
  NULL \notin Clients \cup Servers \cup Domains

VARIABLES
  qlist,               \* the nodes after the head, in order
  qid_pool,            \* identifiers, the free ones at 0 .. pool_ptr
  pool_ptr,            \* index of the last free identifier
  upstream_sockets     \* number of sockets open towards servers

qvars == <<qlist, qid_pool, pool_ptr, upstream_sockets>>

Slots == 0 .. PoolSize - 1

AgeCap == 1 + IF ForwardTimeout < ReactivateInterval
              THEN ReactivateInterval ELSE ForwardTimeout

(* query_t.  dom is NULL for a reactivation probe, whose client is not a   *)
(* client either; out is the set of servers a datagram was sent to from    *)
(* the node's socket.                                                      *)
Query ==
  [ srv : Servers, dom : Domains \cup {NULL},
    client : Clients \cup {NULL}, client_qid : Ids, my_qid : Slots,
    age : 0 .. AgeCap, ttl : {ForwardTimeout, ReactivateInterval},
    out : SUBSET Servers ]

QTypeOK ==
  /\ qlist \in Seq(Query)
  /\ qid_pool \in [Slots -> Slots]
  /\ pool_ptr \in -1 .. PoolSize - 1
  /\ upstream_sockets \in 0 .. MaxSockets

-----------------------------------------------------------------------------
(* qid_init_pool and query_init.                                           *)
QInit ==
  /\ qlist = <<>>
  /\ qid_pool = [i \in Slots |-> i]
  /\ pool_ptr = PoolSize - 1
  /\ upstream_sockets = 0

(* myrand(pool_ptr): the product is rounded to a float before the division *)
(* so that the largest random numbers yield pool_ptr itself.               *)
myrand == 0 .. pool_ptr

(* Fault: the identifier handed out stays among the free ones.             *)
FaultyQidGet(i) ==
  /\ pool_ptr' = pool_ptr - 1
  /\ UNCHANGED qid_pool

qid_get(i) ==
  /\ qid_pool' = [qid_pool EXCEPT ![i] = qid_pool[pool_ptr]]
  /\ pool_ptr' = pool_ptr - 1

qid_return(qid) ==
  /\ qid_pool' = [qid_pool EXCEPT ![(pool_ptr + 1) % PoolSize] = qid]
  /\ pool_ptr' = pool_ptr + 1

(* Fault: the search starts at the second node.                            *)
FaultyInList(id) == {k \in 2 .. Len(qlist) : qlist[k].client_qid = id}

(* The positions whose node carries the client identifier id; query_add    *)
(* looks at nothing but the identifier.                                    *)
InList(id) == {k \in 1 .. Len(qlist) : qlist[k].client_qid = id}

(* query_add finding the identifier at k: the node is kept and its clock   *)
(* restarted.  The caller may then shorten its ttl and send again.         *)
query_found(k, ttl, out) ==
  /\ qlist' = [qlist EXCEPT ![k].age = 0, ![k].ttl = ttl,
                            ![k].out = @ \cup out]
  /\ UNCHANGED <<qid_pool, pool_ptr, upstream_sockets>>

(* query_get_new and query_create give the query a socket and an id ...    *)
query_create(i) ==
  /\ upstream_sockets < MaxSockets
  /\ upstream_sockets' = upstream_sockets + 1
  /\ qid_get(i)

(* ... and query_add puts it at the tail.                                  *)
query_add(d, s, c, id, i, ttl, out) ==
  /\ InList(id) = {}
  /\ query_create(i)
  /\ qlist' = Append(qlist,
       [ srv |-> s, dom |-> d, client |-> c, client_qid |-> id,
         my_qid |-> qid_pool[i], age |-> 0, ttl |-> ttl, out |-> out ])

(* Faults: the socket counter is not decremented, or decremented twice.    *)
FaultyDelete(k) ==
  /\ qlist' = RemoveAt(qlist, k)
  /\ qid_return(qlist[k].my_qid)
  /\ UNCHANGED upstream_sockets

FaultyDeleteTwice(k) ==
  /\ qlist' = RemoveAt(qlist, k)
  /\ qid_return(qlist[k].my_qid)
  /\ upstream_sockets' = upstream_sockets - 2

(* query_delete_next on the predecessor of node k, with query_destroy.     *)
query_delete(k) ==
  /\ qlist' = RemoveAt(qlist, k)
  /\ qid_return(qlist[k].my_qid)
  /\ upstream_sockets' = upstream_sockets - 1

(* query_add followed in the same call of udp_handle_request by            *)
(* query_delete_next of the new node: only the pool order changes.         *)
query_bounce(id, i) ==
  /\ InList(id) = {}
  /\ upstream_sockets < MaxSockets
  /\ qid_pool' = [qid_pool EXCEPT ![i] = qid_pool[pool_ptr],
                                  ![pool_ptr] = qid_pool[i]]
  /\ UNCHANGED <<qlist, pool_ptr, upstream_sockets>>

(* One second passes for every node.                                       *)
Older(q) == [q EXCEPT !.age = IF @ < AgeCap THEN @ + 1 ELSE @]

query_tick ==
  /\ qlist' = [k \in 1 .. Len(qlist) |-> Older(qlist[k])]
  /\ UNCHANGED <<qid_pool, pool_ptr, upstream_sockets>>

Expired(k) == qlist[k].age > qlist[k].ttl

-----------------------------------------------------------------------------
(* What any caller may do to the list and the pool.                        *)
QNext ==
  \/ \E d \in Domains \cup {NULL}, s \in Servers, c \in Clients \cup {NULL},
        id \in Ids, i \in myrand, ttl \in {ForwardTimeout, ReactivateInterval},
        out \in SUBSET Servers : query_add(d, s, c, id, i, ttl, out)
  \/ \E k \in 1 .. Len(qlist), ttl \in {ForwardTimeout, ReactivateInterval},
        out \in SUBSET Servers : query_found(k, ttl, out)
  \/ \E k \in 1 .. Len(qlist) : query_delete(k)
  \/ \E id \in Ids, i \in myrand : query_bounce(id, i)
  \/ query_tick

QSpec == QInit /\ [][QNext]_qvars

-----------------------------------------------------------------------------
(* qid.c hands out "an unused QID" (query.c:115): no two outstanding       *)
(* queries share an identifier, none of them is among the free ones of the *)
(* pool, and no identifier is free twice.                                  *)
QidsUnused ==
  /\ \A j, k \in 1 .. Len(qlist) :
       j # k => qlist[j].my_qid # qlist[k].my_qid
  /\ \A k \in 1 .. Len(qlist), i \in myrand : qlist[k].my_qid # qid_pool[i]
  /\ \A i, j \in myrand : i # j => qid_pool[i] # qid_pool[j]

(* The socket counter that query_create tests against max_sockets is the   *)
(* number of nodes, and the pool is never drained below what is listed:    *)
(* no identifier is lost, whatever the order of additions and deletions.   *)
NothingLeaks ==
  /\ upstream_sockets = Len(qlist)
  /\ pool_ptr + 1 + Len(qlist) = PoolSize

(* query_add matches on client_qid alone, so that a client identifier      *)
(* names at most one node, be it a client's query or a probe.              *)
ClientQidsDistinct ==
  \A j, k \in 1 .. Len(qlist) :
    j # k => qlist[j].client_qid # qlist[k].client_qid

=============================================================================
