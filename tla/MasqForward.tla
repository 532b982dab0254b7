---------------------------- MODULE MasqForward ----------------------------
(***************************************************************************)
(* dnsmasq: the table of forwarded queries and the sockets they share      *)
(* (forward.c), the list of upstream servers it points into (network.c),   *)
(* and the parts of the main loop that drive them (dnsmasq.c).             *)
(*                                                                         *)
(* A record is NULL while it is free.  The order of the records in the     *)
(* table, which one of several free records is taken and which shared      *)
(* socket comes next (finger) are left open.  Times are ages in seconds.   *)
(* Addresses are IPv4 ones: rfd6 is handled like rfd4.                     *)
(***************************************************************************)
EXTENDS Integers, FiniteSets, SequencesExt

CONSTANTS
  Queries,             \* the queries clients send: source, identifier, crc
  Ids,                 \* identifiers for forwarded queries
  NoCrc,               \* the crc of a message whose question is unreadable
  CmdList,             \* the servers given on the command line, in order
  ResolvServers,       \* servers that resolv.conf may name
  DomainOf,            \* the domain a server is for, NULL for any
  QDomain,             \* the configured domain a question falls into
  Bound,               \* servers with a socket of their own (sfd)
  NULL,
  FREED,               \* a pointer to a server that was freed
  Files,               \* what resolv.conf may hold: lists of its servers
  OptionSets,          \* the sets of options dnsmasq may be started with
  ftabsize, TIMEOUT, RANDOM_SOCKS,
  MaxRef               \* 0xffff

CmdServers == ToSet(CmdList)
Servers == CmdServers \cup ResolvServers
Socks == 1 .. RANDOM_SOCKS

ASSUME ForwardAssumption ==
  /\ NULL \notin Servers /\ NULL \notin Nat
  /\ FREED \notin Servers \cup {NULL}
  /\ Files \subseteq Seq(ResolvServers) /\ CmdList \in Seq(CmdServers)
  /\ CmdServers \cap ResolvServers = {}
  /\ IsFiniteSet(Servers)
  /\ \A s \in ResolvServers : DomainOf[s] = NULL
  /\ ftabsize \in Nat /\ TIMEOUT \in Nat \ {0}
  /\ RANDOM_SOCKS \in Nat /\ MaxRef \in Nat \ {0}
  /\ IsFiniteSet(Ids) /\ Cardinality(Ids) > ftabsize

VARIABLES
  opts,                \* the options in force
  servers,             \* daemon->servers
  frec_list,           \* the records, in order of allocation
  refcount,            \* of daemon->randomsocks
  last_server,         \* the server last known to work
  srv_save,            \* where the packet in the buffer was sent
  listening,           \* do we select() on the clients' sockets?
  undefined            \* was a freed server used?

vars == <<opts, servers, frec_list, refcount, last_server, srv_save,
          listening, undefined>>

ORDER == "strict-order" \in opts
ALL_SERVERS == "all-servers" \in opts
NO_POLL == "no-poll" \in opts

Frec ==
  [ sentto : Servers \cup {FREED}, age : 0 .. 4 * TIMEOUT,
    query : Queries, new_id : Ids,
    forwardall : 0 .. 1 + Cardinality(Servers), rfd4 : Socks \cup {NULL} ]

ASSUME NullAssumption == NULL \notin Frec

TypeOK ==
  /\ opts \in OptionSets
  /\ servers \in Seq(Servers)
  /\ frec_list \in Seq(Frec \cup {NULL})
  /\ refcount \in [Socks -> 0 .. MaxRef]
  /\ last_server \in Servers \cup {NULL, FREED}
  /\ srv_save \in Servers \cup {NULL, FREED}
  /\ listening \in BOOLEAN /\ undefined \in BOOLEAN

-----------------------------------------------------------------------------
Listed == ToSet(servers)
InUse == {k \in 1 .. Len(frec_list) : frec_list[k] # NULL}

(* What is left of a list when the members of S stay, in their order.  The *)
(* set has that one list in it.                                            *)
Only(list, S) ==
  LET K == {i \in 1 .. Len(list) : list[i] \in S}
      n == Cardinality(K)
  IN {[i \in 1 .. n |-> list[f[i]]] :
        f \in {g \in [1 .. n -> K] :
                 \A i, j \in 1 .. n : i < j => g[i] < g[j]}}

Pos(s) == CHOOSE i \in 1 .. Len(servers) : servers[i] = s

(* lookup_frec: a reply whose question cannot be read matches on its       *)
(* identifier alone.                                                       *)
lookup_frec(id, crc) ==
  {k \in InUse : /\ frec_list[k].new_id = id
                 /\ frec_list[k].query.crc = crc \/ crc = NoCrc}

(* Fault: only the first record is looked at.                              *)
FaultyBySender(q) == {k \in InUse \cap {1} : frec_list[k].query = q}

lookup_frec_by_sender(q) == {k \in InUse : frec_list[k].query = q}

(* Fault: identifiers in use are not avoided.                              *)
FaultyGetId(crc, freed) == Ids

(* The identifiers get_id may return, the records freed being free.        *)
get_id(crc, freed) == {id \in Ids : lookup_frec(id, crc) \subseteq freed}

(* free_frec on the records K: what is left of the reference counts.       *)
Released(K) ==
  [i \in Socks |-> refcount[i] - Cardinality({k \in K : frec_list[k].rfd4 = i})]

(* The sockets allocate_rfd may return, given the counts.  Opening a       *)
(* socket in an unused slot may fail at any time; then one is shared.      *)
allocate_rfd(count) ==
  LET shared == {i \in Socks : count[i] \notin {0, MaxRef}}
  IN {i \in Socks : count[i] # MaxRef} \cup (IF shared = {} THEN {NULL} ELSE {})

-----------------------------------------------------------------------------
(* get_new_frec: records of four timeouts are wiped, a free record is      *)
(* used, else the oldest if it is past its timeout, unless the table can   *)
(* still grow.  An outcome is the record returned (NULL for none, one past *)
(* the end for a new one) and the records freed on the way.                *)
Swept == {k \in InUse : frec_list[k].age >= 4 * TIMEOUT}

Vacant == (1 .. Len(frec_list)) \ InUse

Oldest == {k \in InUse : \A j \in InUse : frec_list[j].age <= frec_list[k].age}

Grown == [at |-> Len(frec_list) + 1, freed |-> {}]

Nothing == [at |-> NULL, freed |-> {}]

(* Fault: the table grows whenever the oldest record is kept.              *)
FaultyGrowth ==
  LET old == {k \in Oldest : frec_list[k].age >= TIMEOUT}
  IN IF Swept \cup Vacant # {}
     THEN {[at |-> k, freed |-> Swept] : k \in Swept \cup Vacant}
     ELSE IF old # {} THEN {Grown}
     ELSE {Nothing} \cup IF Len(frec_list) <= ftabsize THEN {Grown} ELSE {}

get_new_frec ==
  LET old == {k \in Oldest : frec_list[k].age >= TIMEOUT}
      young == {k \in old : frec_list[k].age < 2 * TIMEOUT}
  IN IF Swept \cup Vacant # {}
     THEN {[at |-> k, freed |-> Swept] : k \in Swept \cup Vacant}
     ELSE IF old # {}
     THEN {[at |-> k, freed |-> {k}] : k \in old}
            \cup IF young # {} /\ Len(frec_list) <= ftabsize THEN {Grown} ELSE {}
     ELSE {Nothing} \cup IF Len(frec_list) <= ftabsize THEN {Grown} ELSE {}

-----------------------------------------------------------------------------
(* The sending loop of forward_query walks once round the list of servers  *)
(* from start and tries the ones for domain d.  F are those sendto fails   *)
(* for, got tells whether a shared socket is at hand when one is needed:   *)
(* without it the loop ends at the first server that needs one.            *)
For(d) == {s \in Listed : DomainOf[s] = d}

Dist(start, s) == (Pos(s) - Pos(start)) % Len(servers)

Reached(start, d, F, got) ==
  {s \in For(d) \ F :
     got \/ \A t \in For(d) \ Bound : Dist(start, t) > Dist(start, s)}

(* Either all of them are tried or the first that works will do.           *)
Sent(start, d, all, F, got) ==
  LET reached == Reached(start, d, F, got)
  IN {s \in reached :
        all \/ \A t \in reached : Dist(start, s) <= Dist(start, t)}

Needed(start, d, all, F) ==
  \E t \in For(d) \ Bound :
    all \/ \A s \in For(d) \ F : Dist(start, t) <= Dist(start, s)

LastOf(start, S) ==
  CHOOSE s \in S : \A t \in S : Dist(start, t) <= Dist(start, s)

(* The table with the records K free and f as record k.                    *)
Put(k, f, K) ==
  LET n == IF k > Len(frec_list) THEN k ELSE Len(frec_list)
  IN [j \in 1 .. n |-> IF j = k THEN f ELSE IF j \in K THEN NULL ELSE frec_list[j]]

(* The rest of forward_query for the record k, whose contents are f but    *)
(* for what sending changes, the records K having been freed before.  When *)
(* nothing can be sent the record is cancelled.                            *)
SendOn(k, f, K, start, d, all) ==
  \E F \in SUBSET For(d), rfd \in Socks \cup {NULL} :
    LET sent == Sent(start, d, all, F, rfd # NULL)
        record == [f EXCEPT !.sentto = LastOf(start, sent),
                            !.forwardall = IF all THEN 1 + Cardinality(sent) ELSE 0,
                            !.rfd4 = rfd]
        free == Released(K \cup ({k} \cap InUse))
    IN /\ IF f.rfd4 = NULL /\ Needed(start, d, all, F)
          THEN rfd \in allocate_rfd(Released(K)) ELSE rfd = f.rfd4
       /\ IF sent = {}
          THEN /\ frec_list' = Put(k, NULL, K)
               /\ refcount' = free
               /\ srv_save' = NULL
          ELSE /\ frec_list' = Put(k, record, K)
               /\ refcount' = [i \in Socks |-> free[i] + IF rfd = i THEN 1 ELSE 0]
               /\ srv_save' = record.sentto

(* forward_query for a record in use: the query goes on to the servers     *)
(* after the one it was sent to last.                                      *)
Resend(k) ==
  LET f == frec_list[k]
      next == servers[1 + (Pos(f.sentto) % Len(servers))]
  IN /\ f.sentto # FREED
     /\ last_server' = IF ORDER THEN last_server ELSE NULL
     /\ SendOn(k, f, {}, next, DomainOf[f.sentto], ~ORDER)

-----------------------------------------------------------------------------
(* main: check_servers may already find that it cannot use some servers.   *)
Init ==
  /\ opts \in OptionSets
  /\ \E D \in SUBSET CmdServers : servers \in Only(CmdList, CmdServers \ D)
  /\ frec_list = <<>>
  /\ refcount = [i \in Socks |-> 0]
  /\ last_server = NULL
  /\ srv_save = NULL
  /\ listening = FALSE
  /\ undefined = FALSE

Tick ==
  /\ frec_list' = [k \in 1 .. Len(frec_list) |->
       IF k \in InUse /\ frec_list[k].age < 4 * TIMEOUT
       THEN [frec_list[k] EXCEPT !.age = @ + 1] ELSE frec_list[k]]
  /\ UNCHANGED <<opts, servers, refcount, last_server, srv_save, listening,
                 undefined>>

(* Fault: old records are freed and their sockets are not.                 *)
FaultyListeners ==
  /\ \E o \in get_new_frec : listening' = (o.at # NULL)
  /\ frec_list' = [k \in 1 .. Len(frec_list) |->
                     IF k \in Swept THEN NULL ELSE frec_list[k]]
  /\ UNCHANGED <<opts, servers, refcount, last_server, srv_save, undefined>>

(* Fault: old records are freed only for a query, and a full table waits   *)
(* for one of them to be free.                                             *)
FaultyWait ==
  /\ listening' = (Vacant # {} \/ Len(frec_list) <= ftabsize)
  /\ UNCHANGED <<opts, servers, frec_list, refcount, last_server, srv_save,
                 undefined>>

(* set_dns_listeners calls get_new_frec only to learn how long to wait:    *)
(* the oldest record is not freed, but old ones are and a new one may be   *)
(* made.  Clients are not listened to while there is none to be had.       *)
set_dns_listeners ==
  /\ \E o \in get_new_frec :
       /\ listening' = (o.at # NULL)
       /\ frec_list' = IF o = Grown THEN Append(frec_list, NULL)
                       ELSE [k \in 1 .. Len(frec_list) |->
                               IF k \in Swept THEN NULL ELSE frec_list[k]]
  /\ refcount' = Released(Swept)
  /\ UNCHANGED <<opts, servers, last_server, srv_save, undefined>>

(* receive_query.  Nothing is forwarded: a bad packet, an answer from the  *)
(* cache or the configuration, no servers, or no record.                   *)
QueryNotForwarded ==
  /\ listening
  /\ srv_save' = NULL
  /\ UNCHANGED <<opts, servers, frec_list, refcount, last_server, listening,
                 undefined>>

QueryAgain(q) ==
  /\ listening
  /\ \E k \in lookup_frec_by_sender(q) : Resend(k)
  /\ UNCHANGED <<opts, servers, listening, undefined>>

(* search_servers finds the domain among those that servers are listed for.*)
Domain(q) ==
  IF For(QDomain[q.crc]) # {} THEN QDomain[q.crc] ELSE NULL

(* Now and then a query for any domain goes to all servers, to find the    *)
(* best one; forwardcount and forwardtime decide when.                     *)
NewQuery(q) ==
  /\ listening
  /\ servers # <<>>
  /\ lookup_frec_by_sender(q) = {}
  /\ \E o \in get_new_frec, start \in Listed, all \in BOOLEAN :
       /\ o.at # NULL
       /\ \/ ORDER /\ ~all /\ start = servers[1]
          \/ ~ORDER /\ all /\ start = servers[1]
          \/ ~ORDER /\ ~all /\ Domain(q) = NULL /\ start = last_server
       /\ \E id \in get_id(q.crc, o.freed) :
            SendOn(o.at, [sentto |-> start, age |-> 0, query |-> q, new_id |-> id,
                          forwardall |-> 0, rfd4 |-> NULL],
                   o.freed, start, Domain(q), all)
  /\ UNCHANGED <<opts, servers, last_server, listening, undefined>>

(* reply_query.  The packet comes from no known server, or no query is     *)
(* waiting for it.                                                         *)
ReplyIgnored ==
  /\ srv_save' = NULL
  /\ UNCHANGED <<opts, servers, frec_list, refcount, last_server, listening,
                 undefined>>

(* An error in answer to a query sent to one server only: try the others.  *)
ReplyRetries(k) ==
  /\ ~ORDER
  /\ frec_list[k].forwardall = 0
  /\ Resend(k)

(* Fault: the record is kept for one reply too many.                       *)
FaultyTaken(k, s, bad) ==
  LET f == frec_list[k]
  IN /\ f.sentto # FREED
     /\ srv_save' = NULL
     /\ UNCHANGED last_server
     /\ IF ~bad \/ f.forwardall \in {0, 1}
        THEN frec_list' = Put(k, NULL, {}) /\ refcount' = Released({k})
        ELSE /\ frec_list' = [frec_list EXCEPT ![k].forwardall = @ - 1]
             /\ UNCHANGED refcount

(* Other replies, from server s: a good one, and the last of the bad ones, *)
(* go to the client and end the record.                                    *)
ReplyTaken(k, s, bad) ==
  LET f == frec_list[k]
      good == IF DomainOf[s] = NULL THEN s ELSE f.sentto
      ends == ~bad \/ f.forwardall \in {0, 2}
  IN /\ f.sentto # FREED
     /\ srv_save' = NULL
     /\ last_server' = IF DomainOf[f.sentto] # NULL \/ ALL_SERVERS THEN last_server
                       ELSE IF bad THEN NULL ELSE good
     /\ IF ends
        THEN /\ frec_list' = Put(k, NULL, {})
             /\ refcount' = Released({k})
        ELSE /\ frec_list' = [frec_list EXCEPT ![k].forwardall = @ - 1]
             /\ UNCHANGED refcount

(* A signed packet is not retried.                                         *)
Reply(id, crc, s, bad) ==
  /\ \E k \in lookup_frec(id, crc) :
       ReplyTaken(k, s, bad) \/ (bad /\ ReplyRetries(k))
  /\ UNCHANGED <<opts, servers, listening, undefined>>

-----------------------------------------------------------------------------
(* reload_servers takes the servers of resolv.conf off the list, with what *)
(* refers to them (server_gone), and puts the ones of the file on it.  It  *)
(* leaves the list in reverse.                                             *)
Kept == Only(servers, CmdServers)

Gone == Listed \cap ResolvServers

(* check_servers reverses the list and frees the servers D: their address  *)
(* is now a local one, or no socket can be bound for them.                 *)
Forget(D, p) == IF p \in D THEN FREED ELSE p

(* Fault: the records are freed, the two other pointers stay.              *)
FaultyServerGone(gone, D) ==
  LET K == {k \in InUse : frec_list[k].sentto \in gone}
  IN /\ frec_list' = [k \in 1 .. Len(frec_list) |->
          IF k \in K THEN NULL
          ELSE IF k \in InUse
               THEN [frec_list[k] EXCEPT !.sentto = Forget(D, @)]
               ELSE NULL]
     /\ refcount' = Released(K)
     /\ last_server' = Forget(D \cup gone, last_server)
     /\ srv_save' = Forget(D \cup gone, srv_save)

server_gone(gone, D) ==
  LET K == {k \in InUse : frec_list[k].sentto \in gone}
      off(p) == IF p \in gone THEN NULL ELSE Forget(D, p)
  IN /\ frec_list' = [k \in 1 .. Len(frec_list) |->
          IF k \in K THEN NULL
          ELSE IF k \in InUse
               THEN [frec_list[k] EXCEPT !.sentto = Forget(D, @)]
               ELSE NULL]
     /\ refcount' = Released(K)
     /\ last_server' = off(last_server)
     /\ srv_save' = off(srv_save)

Reload(file, D) ==
  /\ \E kept \in Kept : servers' \in Only(kept \o file, Servers \ D)
  /\ server_gone(Gone, D)
  /\ UNCHANGED <<opts, listening, undefined>>

(* poll_resolv: without a server in the file check_servers is not called.  *)
PollResolv(file, D) ==
  /\ ~NO_POLL
  /\ file # <<>>
  /\ Reload(file, D)

PollFindsNone ==
  /\ ~NO_POLL
  /\ \E kept \in Kept : servers' = Reverse(kept)
  /\ server_gone(Gone, {})
  /\ UNCHANGED <<opts, listening, undefined>>

(* EVENT_RELOAD calls both, whether or not the file could be read.         *)
HangUp(file, D) == NO_POLL /\ Reload(file, D)

HangUpUnreadable(D) ==
  /\ NO_POLL
  /\ servers' \in Only(Reverse(servers), Servers \ D)
  /\ server_gone({}, D)
  /\ UNCHANGED <<opts, listening, undefined>>

(* A freed server is used: to send a packet again when a route appears, to *)
(* send a query on or again, or when an answer arrives.  What happens then *)
(* is undefined.                                                           *)
UseFreed ==
  /\ \/ srv_save = FREED
     \/ last_server = FREED /\ listening /\ servers # <<>> /\ ~ORDER
     \/ \E k \in InUse : frec_list[k].sentto = FREED /\ servers # <<>>
  /\ undefined' = TRUE
  /\ UNCHANGED <<opts, servers, frec_list, refcount, last_server, srv_save,
                 listening>>

Step ==
  \/ set_dns_listeners
  \/ QueryNotForwarded
  \/ \E q \in Queries : QueryAgain(q) \/ NewQuery(q)
  \/ ReplyIgnored
  \/ \E id \in Ids, crc \in {q.crc : q \in Queries} \cup {NoCrc},
        s \in Listed, bad \in BOOLEAN : Reply(id, crc, s, bad)
  \/ \E file \in Files : \E D \in SUBSET ((Listed \cap CmdServers) \cup ToSet(file)) :
       PollResolv(file, D) \/ HangUp(file, D)
  \/ PollFindsNone
  \/ \E D \in SUBSET Listed : HangUpUnreadable(D)
  \/ UseFreed

Next == Tick \/ (~undefined /\ Step)

(* With clients not listened to, select() waits for a bounded time.        *)
Fairness == WF_vars(Tick) /\ WF_vars(~undefined /\ ~listening /\ set_dns_listeners)

Spec == Init /\ [][Next]_vars /\ Fairness

-----------------------------------------------------------------------------
(* The count of a shared socket is the number of records that use it: it   *)
(* is closed when the last of them ends, neither before (a query would     *)
(* never see its answer) nor never (the slots would run out), whatever     *)
(* ends the records: answers, failed sends, the sweep or a reload.  The    *)
(* state has its type.                                                     *)
RefCountsExact ==
  /\ TypeOK
  /\ \A i \in Socks :
       refcount[i] = Cardinality({k \in InUse : frec_list[k].rfd4 = i})

(* get_id returns "unique random ids": an answer with a readable question  *)
(* belongs to one query.                                                   *)
RepliesUnambiguous ==
  \A j, k \in InUse :
    j # k => \/ frec_list[j].new_id # frec_list[k].new_id
             \/ frec_list[j].query.crc # frec_list[k].query.crc

(* A repeated query is recognised: it never occupies two records.          *)
OneRecordPerQuery ==
  \A j, k \in InUse : j # k => frec_list[j].query # frec_list[k].query

(* get_new_frec lets the table grow to one record more than ftabsize, also *)
(* while records are kept "for twice timeout if we can".  The one more is  *)
(* the code's: config.h:17 calls ftabsize the "max number of outstanding   *)
(* requests" and dnsmasq.8:512 "the maximum number of concurrent DNS       *)
(* queries", but the count is tested with > when a record is to be added.  *)
TableBounded == Len(frec_list) <= ftabsize + 1

(* reply_query keeps a record "in case we get a good reply from another    *)
(* server" and kills it "when we've had replies from all": a record always *)
(* has an answer left to wait for, and never more than there are servers.  *)
AnswersCounted ==
  \A k \in InUse :
    \/ frec_list[k].forwardall = 0
    \/ frec_list[k].forwardall - 1 \in 1 .. Cardinality(Servers)

(* Something refers to a server that is not listed any more.               *)
Dangling ==
  ~ ({last_server, srv_save} \cup {frec_list[k].sentto : k \in InUse}
       \subseteq Listed \cup {NULL})

(* network.c:852: "forward table rules reference servers, so have to blow  *)
(* them away".  While resolv.conf is polled and the command line's servers *)
(* stay usable, nothing refers to a server that was freed.                 *)
ResolvServersForgotten ==
  ~NO_POLL /\ CmdServers \subseteq Listed => ~Dangling

(* The same promise for every server, as server_gone's comment has it ("A  *)
(* server record is going away, remove references to it").  check_servers  *)
(* frees servers without it.                                               *)
ServersForgotten == ~Dangling

(* "if we are out of resources, find how long we have to wait for some to  *)
(* come free, we'll loop around then and restart listening for queries".   *)
ListensAgain == []<>(listening \/ undefined)
=============================================================================
