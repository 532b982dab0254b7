----------------------------- MODULE DnrdRelay -----------------------------
(***************************************************************************)
(* dnrd: the relay loop (relay.c), the UDP side (udp.c), and the choice    *)
(* and life cycle of forward servers (domnode.c, srvnode.c), on top of the *)
(* query list of DnrdQuery.                                                *)
(*                                                                         *)
(* The daemon is one thread.  pc is where run() stands; the two loops that *)
(* walk qlist while deleting from it are modelled node by node, cursor     *)
(* being the node q points at (0 is the list head).  The network is the    *)
(* nondeterminism of the receive steps.                                    *)
(***************************************************************************)
EXTENDS DnrdQuery

CONSTANTS
  SrvNodes,            \* all srvnodes: the lists of domain_list in order
  Dom,                 \* the domnode each srvnode belongs to
  RoundRobin           \* domnodes configured with -b

ASSUME ServersAssumption ==
  /\ SrvNodes \in Seq(Servers)
  /\ \A s \in Servers : \E i \in 1 .. Len(SrvNodes) : SrvNodes[i] = s
  /\ \A i, j \in 1 .. Len(SrvNodes) : SrvNodes[i] = SrvNodes[j] => i = j
  /\ Dom \in [Servers -> Domains]
  /\ RoundRobin \subseteq Domains

VARIABLES
  pc,                  \* where run() stands
  cursor,              \* the node, or the srvnode, a loop stands at
  inactive,            \* seconds since deactivation, Unset if active
  send_age,            \* seconds since send_time, Unset if send_time is 0
  current,             \* d->current of each domnode
  since_retry          \* seconds since last_try of reactivate_servers

rvars == <<inactive, send_age, current>>
vars == <<qvars, pc, cursor, rvars, since_retry>>

Unset == -1            \* the C value 0 of inactive and of send_time

Phases == {"select", "retry", "check", "replies", "request", "maintain",
           "timeout", "aborted"}

RTypeOK ==
  /\ pc \in Phases
  /\ cursor \in Nat
  /\ inactive \in [Servers -> Unset .. ReactivateInterval]
  /\ send_age \in [Servers -> Unset .. ForwardTimeout + 1]
  /\ current \in [Domains -> Servers \cup {NULL}]
  /\ since_retry \in 0 .. ReactivateInterval

TypeOK == QTypeOK /\ RTypeOK

-----------------------------------------------------------------------------
(* The circular server lists.  A domain's list head never is a candidate:  *)
(* alloc_srvnode makes it inactive for good.                               *)
ServersOf(d) == {s \in Servers : Dom[s] = d}

Ring == Len(SrvNodes) + 1

(* 0, the list head, for NULL.                                             *)
Pos(s) == IF s = NULL THEN 0
          ELSE CHOOSE i \in 1 .. Len(SrvNodes) : SrvNodes[i] = s

(* The first of S met when walking the ring from position p.               *)
FirstFrom(p, S) ==
  IF S = {} THEN NULL
  ELSE CHOOSE s \in S : \A t \in S : (Pos(s) - p) % Ring <= (Pos(t) - p) % Ring

(* Fault: inactive servers are not skipped.                                *)
FaultyNextActive(d, cur, ina) == FirstFrom(Pos(cur) + 1, ServersOf(d))

(* The walk starts after cur and ends at cur.                              *)
next_active(d, cur, ina) ==
  FirstFrom(Pos(cur) + 1, {s \in ServersOf(d) : ina[s] = Unset})

set_inactive(ina, S) == [s \in Servers |-> IF s \in S THEN 0 ELSE ina[s]]

(* handle_query picks a server for domain d ...                            *)
Picked(d) ==
  next_active(d, IF d \in RoundRobin THEN current[d] ELSE NULL, inactive)

(* ... deactivates it if its last answer is overdue ...                    *)
Overdue(s) == /\ ForwardTimeout # 0
              /\ send_age[s] > ForwardTimeout

Dropped(d) == {s \in {Picked(d)} \ {NULL} : Overdue(s)}

Inactive1(d) == set_inactive(inactive, Dropped(d))

(* ... and then has the next one as d->current.                            *)
Current1(d) ==
  [current EXCEPT ![d] = IF Dropped(d) = {} THEN Picked(d)
                         ELSE next_active(d, Picked(d), Inactive1(d))]

(* send2current for domain d when sendto fails for the servers of F: every *)
(* failure deactivates the current server and moves on to the next active. *)
Tried(d, cur, ina) ==
  {s \in ServersOf(d) : cur[d] # NULL /\ (s = cur[d] \/ ina[s] = Unset)}

send2current(d, cur, ina, F) ==
  FirstFrom(Pos(cur[d]), Tried(d, cur, ina) \ F)

Failed(d, cur, ina, F) ==
  LET to == send2current(d, cur, ina, F)
      before(s) == (Pos(s) - Pos(cur[d])) % Ring < (Pos(to) - Pos(cur[d])) % Ring
  IN {s \in Tried(d, cur, ina) : to = NULL \/ before(s)}

(* udp_send starts the server's clock unless it is already running.        *)
udp_send(S) ==
  send_age' = [s \in Servers |->
                 IF s \in S /\ send_age[s] = Unset THEN 0 ELSE send_age[s]]

-----------------------------------------------------------------------------
(* main() makes the first server of each list its current one.             *)
Init ==
  /\ QInit
  /\ pc = "select"
  /\ cursor = 0
  /\ inactive = [s \in Servers |-> Unset]
  /\ send_age = [s \in Servers |-> Unset]
  /\ current = [d \in Domains |-> FirstFrom(0, ServersOf(d))]
  /\ since_retry = 0

(* The clock.  No time passes inside the node loops: query_timeout reads   *)
(* it once, and what the reply loop does depends on no age.                *)
Aged(f, cap) == [s \in Servers |->
                   IF f[s] \in 0 .. cap - 1 THEN f[s] + 1 ELSE f[s]]

Tick ==
  /\ pc \in {"select", "check", "request", "maintain", "aborted"}
  /\ query_tick
  /\ inactive' = Aged(inactive, ReactivateInterval)
  /\ send_age' = Aged(send_age, ForwardTimeout + 1)
  /\ since_retry' = IF since_retry < ReactivateInterval
                    THEN since_retry + 1 ELSE since_retry
  /\ UNCHANGED <<pc, cursor, current>>

(* Fault: the round starts at the second srvnode.                          *)
FaultyWake ==
  /\ pc = "select"
  /\ IF since_retry < ReactivateInterval
     THEN pc' = "check" /\ UNCHANGED <<cursor, since_retry>>
     ELSE pc' = "retry" /\ cursor' = 2 /\ since_retry' = 0
  /\ UNCHANGED <<qvars, rvars>>

(* pselect returns; reactivate_servers starts a round when one is due.     *)
Wake ==
  /\ pc = "select"
  /\ IF since_retry < ReactivateInterval
     THEN pc' = "check" /\ UNCHANGED <<cursor, since_retry>>
     ELSE pc' = "retry" /\ cursor' = 1 /\ since_retry' = 0
  /\ UNCHANGED <<qvars, rvars>>

(* One srvnode of retry_srvlist.                                           *)
RetryDone ==
  /\ pc = "retry"
  /\ cursor > Len(SrvNodes)
  /\ pc' = "check"
  /\ cursor' = 0
  /\ UNCHANGED <<qvars, rvars, since_retry>>

Retrying(s) ==
  /\ pc = "retry"
  /\ cursor <= Len(SrvNodes)
  /\ s = SrvNodes[cursor]
  /\ cursor' = cursor + 1
  /\ UNCHANGED <<pc, current, since_retry>>

RetrySkips(s) ==
  /\ Retrying(s)
  /\ inactive[s] < ReactivateInterval
  /\ UNCHANGED <<qvars, inactive, send_age>>

(* udp_send_dummy.  The probe's identifier is the previous probe's random  *)
(* my_qid plus one: any identifier.  to is {s}, or {} if sendto fails.     *)
RetryProbes(s, id, to) ==
  /\ Retrying(s)
  /\ inactive[s] = ReactivateInterval
  /\ inactive' = [inactive EXCEPT ![s] = 0]
  /\ udp_send(to)
  /\ \/ \E k \in InList(id) : query_found(k, ReactivateInterval, to)
     \/ \E i \in myrand :
          query_add(NULL, s, NULL, id, i, ReactivateInterval, to)

(* query_add returned NULL: no socket for the probe.                       *)
RetryLacksSocket(s, id) ==
  /\ Retrying(s)
  /\ inactive[s] = ReactivateInterval
  /\ InList(id) = {}
  /\ inactive' = [inactive EXCEPT ![s] = 0]
  /\ UNCHANGED <<qvars, send_age>>

(* deactivate_servers.  Run more than once a second it has no effect, so   *)
(* that its own last_try is left out.                                      *)
Late == {s \in Servers : inactive[s] = Unset /\ Overdue(s)}

(* Fault: a late server stays current.                                     *)
FaultyDeactivate ==
  /\ inactive' = set_inactive(inactive, Late)
  /\ UNCHANGED current

deactivate_servers ==
  LET ina == set_inactive(inactive, Late) IN
  /\ inactive' = ina
  /\ current' = [d \in Domains |->
                   IF current[d] \in Late
                   THEN next_active(d, current[d], ina) ELSE current[d]]

(* After it run() goes to the replies, to the maintenance work when idle,  *)
(* or, interrupted by a signal, straight back to pselect.                  *)
Check(next) ==
  /\ pc = "check"
  /\ pc' = next
  /\ deactivate_servers
  /\ UNCHANGED <<qvars, cursor, send_age, since_retry>>

Proceed == Check("replies") \/ Check("maintain")

Interrupted == Check("select")

-----------------------------------------------------------------------------
(* The loops that walk qlist.  After a deletion the loop still executes    *)
(* q = q->next: it steps over the node that followed the deleted one and,  *)
(* when there was none, restarts from the head.                            *)
Advance == cursor' = IF cursor + 1 < Len(qlist) THEN cursor + 1 ELSE 0

LoopEnds(phase, next) ==
  /\ pc = phase
  /\ cursor = Len(qlist)
  /\ pc' = next
  /\ cursor' = 0
  /\ UNCHANGED <<qvars, rvars, since_retry>>

AtNode(phase, k) ==
  /\ pc = phase
  /\ cursor < Len(qlist)
  /\ k = cursor + 1
  /\ UNCHANGED <<pc, current, since_retry>>

NodeKept(phase, k) ==
  /\ AtNode(phase, k)
  /\ cursor' = k
  /\ UNCHANGED <<qvars, inactive, send_age>>

RepliesDone == LoopEnds("replies", "request")

NoReply(k) == NodeKept("replies", k)

(* udp_handle_reply, the datagram coming from the address of q->srv and    *)
(* passing check_reply: the answer goes to the client, unless the node is  *)
(* a probe, and the server is active again.                                *)
ReplyAccepted(k) ==
  /\ AtNode("replies", k)
  /\ qlist[k].srv \in qlist[k].out
  /\ send_age' = [send_age EXCEPT ![qlist[k].srv] = Unset]
  /\ inactive' = [inactive EXCEPT ![qlist[k].srv] = Unset]
  /\ query_delete(k)
  /\ Advance

(* A receive error, another sender than q->srv, or a malformed message.    *)
ReplyRejected(k) ==
  /\ AtNode("replies", k)
  /\ query_delete(k)
  /\ Advance
  /\ UNCHANGED <<inactive, send_age>>

TimeoutDone == LoopEnds("timeout", "select")

(* query_timeout.                                                          *)
TimeoutKeeps(k) ==
  /\ NodeKept("timeout", k)
  /\ ~Expired(k)

(* Fault: the node is unlinked and not destroyed.                          *)
FaultyTimeout(k) ==
  /\ AtNode("timeout", k)
  /\ Expired(k)
  /\ qlist' = RemoveAt(qlist, k)
  /\ Advance
  /\ UNCHANGED <<qid_pool, pool_ptr, upstream_sockets, inactive, send_age>>

TimeoutDeletes(k) ==
  /\ AtNode("timeout", k)
  /\ Expired(k)
  /\ query_delete(k)
  /\ Advance
  /\ UNCHANGED <<inactive, send_age>>

(* Fault: query_timeout is not called.                                     *)
FaultyMaintain ==
  /\ pc = "maintain"
  /\ pc' = "select"
  /\ UNCHANGED <<qvars, cursor, rvars, since_retry>>

(* cache_expire, then query_timeout reads the clock.                       *)
Maintain ==
  /\ pc = "maintain"
  /\ pc' = "timeout"
  /\ UNCHANGED <<qvars, cursor, rvars, since_retry>>

-----------------------------------------------------------------------------
(* udp_handle_request.                                                     *)
AtRequest ==
  /\ pc = "request"
  /\ UNCHANGED <<cursor, since_retry>>

(* Nothing to read, a bogus query, one answered by the master database or  *)
(* by the cache, or one for a domain without servers.                      *)
RequestNotForwarded ==
  /\ AtRequest
  /\ pc' = "maintain"
  /\ UNCHANGED <<qvars, rvars>>

Forwarding(d) ==
  /\ AtRequest
  /\ ServersOf(d) # {}

(* handle_query found every server of the domain inactive.                 *)
RequestSrvFail(d) ==
  /\ Forwarding(d)
  /\ pc' = "maintain"
  /\ Current1(d)[d] = NULL
  /\ current' = Current1(d)
  /\ inactive' = Inactive1(d)
  /\ UNCHANGED <<qvars, send_age>>

(* query_add returned NULL: socket limit reached, or socket() failed.      *)
RequestLacksSocket(d, id) ==
  /\ Forwarding(d)
  /\ pc' = "maintain"
  /\ Current1(d)[d] # NULL
  /\ InList(id) = {}
  /\ current' = Current1(d)
  /\ inactive' = Inactive1(d)
  /\ UNCHANGED <<qvars, send_age>>

(* The datagram is sent for domain e, that of the node found or added.     *)
(* to is the server it left for, NULL if sendto failed for all of them.    *)
RequestSends(d, e, F, to) ==
  /\ Forwarding(d)
  /\ pc' = "maintain"
  /\ Current1(d)[d] # NULL
  /\ to = send2current(e, Current1(d), Inactive1(d), F)
  /\ inactive' = set_inactive(Inactive1(d), Failed(e, Current1(d), Inactive1(d), F))
  /\ current' = [Current1(d) EXCEPT ![e] = to]
  /\ udp_send({to} \ {NULL})

(* A query whose identifier is not in the list.  When no server could be   *)
(* reached the node is deleted if master_dontknow can compose a reply.     *)
RequestNew(d, c, id, F, to) ==
  /\ RequestSends(d, d, F, to)
  /\ \E i \in myrand :
       \/ query_add(d, Current1(d)[d], c, id, i, ForwardTimeout, {to} \ {NULL})
       \/ to = NULL /\ query_bounce(id, i)

(* A query whose identifier is in the list, whoever sent it.               *)
RequestAgain(d, k, F, to) ==
  /\ qlist[k].dom # NULL
  /\ RequestSends(d, qlist[k].dom, F, to)
  /\ \/ query_found(k, qlist[k].ttl, {to} \ {NULL})
     \/ to = NULL /\ query_delete(k)

(* The node found is a probe: assert(q->domain != NULL) in send2current.   *)
RequestAborts(d, k) ==
  /\ Forwarding(d)
  /\ Current1(d)[d] # NULL
  /\ qlist[k].dom = NULL
  /\ pc' = "aborted"
  /\ current' = Current1(d)
  /\ inactive' = Inactive1(d)
  /\ query_found(k, qlist[k].ttl, {})
  /\ UNCHANGED send_age

Request ==
  \/ RequestNotForwarded
  \/ \E d \in Domains :
       \/ RequestSrvFail(d)
       \/ \E id \in Ids : RequestLacksSocket(d, id)
       \/ \E c \in Clients, id \in Ids, F \in SUBSET ServersOf(d),
             to \in Servers \cup {NULL} : RequestNew(d, c, id, F, to)
       \/ \E k \in 1 .. Len(qlist), F \in SUBSET Servers,
             to \in Servers \cup {NULL} : RequestAgain(d, k, F, to)
       \/ \E k \in 1 .. Len(qlist) : RequestAborts(d, k)

Retry ==
  \/ RetryDone
  \/ \E s \in Servers :
       \/ RetrySkips(s)
       \/ \E id \in Ids : \/ RetryLacksSocket(s, id)
                          \/ \E to \in SUBSET {s} : RetryProbes(s, id, to)

Replies ==
  \/ RepliesDone
  \/ \E k \in 1 .. Len(qlist) :
       NoReply(k) \/ ReplyAccepted(k) \/ ReplyRejected(k)

Timeouts ==
  \/ TimeoutDone
  \/ \E k \in 1 .. Len(qlist) : TimeoutKeeps(k) \/ TimeoutDeletes(k)

Run == Wake \/ Retry \/ Proceed \/ Interrupted \/ Replies \/ Request
       \/ Maintain \/ Timeouts

Next == Tick \/ Run

(* pselect returns after at most select_timeout seconds and every other    *)
(* step of run() just executes; a signal does not interrupt every pselect; *)
(* the clock advances although Tick is not enabled inside the node loops.  *)
Fairness == SF_vars(Tick) /\ WF_vars(Run) /\ SF_vars(Proceed)

Spec == Init /\ [][Next]_vars /\ Fairness

-----------------------------------------------------------------------------
(* The query list as the relay uses it is the one DnrdQuery specifies:     *)
(* every step of run() is one operation on the list or leaves it alone.    *)
ListDiscipline == QSpec

(* dnrd.8: a server that timed out "will be deactivated and will not be    *)
(* used until it comes back".  A domain's current server is an active one  *)
(* of its own list, whatever the order of deactivations by timeout, by a   *)
(* failing sendto and by overdue answers, and of reactivations.            *)
CurrentIsActive ==
  \A d \in Domains :
    current[d] # NULL => /\ current[d] \in ServersOf(d)
                         /\ inactive[current[d]] = Unset

(* The same seen from the network: udp_handle_request sends a client's     *)
(* query to no server that was inactive when the request came in, and the  *)
(* server it is sent to is still active when the handler returns.          *)
NoQueryToInactive ==
  [][pc = "request" =>
       \A k \in 1 .. Len(qlist') :
         LET before == IF k \in 1 .. Len(qlist) THEN qlist[k].out ELSE {}
             same == Len(qlist') >= Len(qlist)
         IN same => \A s \in qlist'[k].out \ before :
                      inactive[s] = Unset /\ inactive'[s] = Unset]_vars

(* A deactivated server is never forgotten: once it has been inactive for  *)
(* reactivate_interval, retry_srvlist gets to it again (or an answer does).*)
RetryComes ==
  \A s \in Servers :
    (inactive[s] = ReactivateInterval)
      ~> (inactive[s] # ReactivateInterval \/ pc = "aborted")

(* query_timeout removes every query that nobody repeats, although a pass  *)
(* skips the successor of a node it deletes: a listed query disappears     *)
(* unless requests with its identifier keep restarting its clock.          *)
Repeated(id) ==
  \E k \in InList(id) : /\ Len(qlist') = Len(qlist)
                        /\ qlist'[k].age < qlist[k].age

QueriesEnd ==
  \A id \in Ids :
    \/ []<><<Repeated(id)>>_vars
    \/ (InList(id) # {}) ~> (InList(id) = {} \/ pc = "aborted")

(* send2current: assert(q->domain != NULL).  No client's query is ever     *)
(* taken for a reactivation probe.                                         *)
NoAssertFailure == pc # "aborted"
=============================================================================
