------------------------------ MODULE MasqTcp -------------------------------
(* dnsmasq's tcp_request: a child, or the daemon itself in debug mode,     *)
(* serves one TCP connection, query after query, asking its servers over   *)
(* connections that it keeps for the next query.  Queries are given by     *)
(* what the other parts make of them: extract_request, answer_request,     *)
(* search_servers (MasqPacket, MasqAnswer, MasqForward).                   *)
EXTENDS Naturals, Sequences, FiniteSets, SequencesExt

CONSTANTS TcpLoads  \* a set of [servers, start, queries, ups, turns]:
                    \*  servers  a sequence of types: "" or the domain of the server
                    \*  start    the index of daemon->last_server, 0 without or with OPT_ORDER
                    \*  queries  a sequence of [kind, type, norebind]; kind: "empty", "short",
                    \*           "cached", "local" (flags of search_servers), "forward"
                    \*  ups      what a server does with a query: see Exchange
                    \*  turns    how often a server goes away, comes back, closes

VARIABLES tload, tc
tcpvars == <<tload, tc>>

Upstreams == DOMAIN tload.servers
Query == tload.queries[tc.k]

TcpInit ==
  /\ tload \in TcpLoads
  /\ tc = [at |-> "read", k |-> 0, asked |-> 0, ended |-> FALSE, cur |-> 0, first |-> 0, tcpfd |-> {},
           dead |-> {}, down |-> {}, turns |-> 0, norebind |-> FALSE, tried |-> {}, m |-> <<>>, out |-> <<>>]

(* A reply: to which query, from where, whether it has the question of the *)
(* query, and whether its addresses were checked (OPT_NO_REBIND is set).   *)
TcpReply(k, from, same, checked) == <<[k |-> k, from |-> from, same |-> same, checked |-> checked]>>

Here == 0          \* an answer of dnsmasq's own
Refused == 100     \* setup_reply without flags: no server has answered
EmptyReply == 101     \* the same, after an answer of length zero

-----------------------------------------------------------------------------
(* The world (external): the client sends queries without waiting, and     *)
(* ends; servers go and come back, and close connections they hold.        *)
ClientAsks ==
  /\ tc.asked < Len(tload.queries) /\ ~tc.ended
  /\ tc' = [tc EXCEPT !.asked = @ + 1]
  /\ UNCHANGED tload

ClientEnds ==
  /\ ~tc.ended
  /\ tc' = [tc EXCEPT !.ended = TRUE]
  /\ UNCHANGED tload

ServerTurns ==
  /\ tc.turns < tload.turns
  /\ \E s \in Upstreams :
       \/ tc' = [tc EXCEPT !.turns = @ + 1, !.down = @ \cup {s}, !.dead = @ \cup (tc.tcpfd \cap {s})]
       \/ s \in tc.down /\ tc' = [tc EXCEPT !.turns = @ + 1, !.down = @ \ {s}]
       \/ s \in tc.tcpfd /\ tc' = [tc EXCEPT !.turns = @ + 1, !.dead = @ \cup {s}]
  /\ UNCHANGED tload

-----------------------------------------------------------------------------
(* The next query.  Length zero ends the connection, a packet without a    *)
(* whole header is passed over.  norebind is set by search_servers, and    *)
(* nothing resets it before the next query.                                *)
ReadQuery ==
  /\ tc.at = "read" /\ tc.k < tc.asked
  /\ LET q == tload.queries[tc.k + 1]
         v == [tc EXCEPT !.k = @ + 1, !.tried = {}, !.first = 0,
                         !.norebind = @ \/ (q.kind \in {"local", "forward"} /\ q.norebind)]
     IN tc' = CASE q.kind = "empty" -> [v EXCEPT !.at = "closed"]
                [] q.kind = "short" -> v
                [] q.kind \in {"cached", "local"} -> [v EXCEPT !.at = "reply", !.m = TcpReply(v.k, Here, TRUE, FALSE)]
                [] Upstreams = {} -> [v EXCEPT !.at = "reply", !.m = TcpReply(v.k, Refused, TRUE, FALSE)]
                [] OTHER -> [v EXCEPT !.at = "servers",
                                      !.cur = IF q.type # "" \/ tload.start = 0 THEN 1 ELSE tload.start]
  /\ UNCHANGED tload

ReadEnd ==
  /\ tc.at = "read" /\ tc.k = tc.asked /\ tc.ended
  /\ tc' = [tc EXCEPT !.at = "closed"]
  /\ UNCHANGED tload

(* The loop round the servers: the one to look at next, 0 after the last.  *)
FaultyNextServer ==
  IF tc.first = 0 THEN tc.cur ELSE IF tc.cur = Len(tload.servers) THEN 0 ELSE tc.cur + 1

NextServer ==
  LET n == IF tc.cur = Len(tload.servers) THEN 1 ELSE tc.cur + 1
  IN IF tc.first = 0 THEN tc.cur ELSE IF n = tc.first THEN 0 ELSE n

(* What a server's connection gives: an answer, one to another question,   *)
(* an empty one, half of one, or the end before its length is read.        *)
Exchange(v, s) ==
  {CASE u = "answer" -> [v EXCEPT !.at = "reply", !.m = TcpReply(v.k, s, TRUE, ~v.norebind)]
     [] u = "other"  -> [v EXCEPT !.at = "reply", !.m = TcpReply(v.k, s, FALSE, FALSE)]
     [] u = "empty"  -> [v EXCEPT !.at = "reply", !.m = TcpReply(v.k, EmptyReply, TRUE, FALSE)]
     [] u = "half"   -> [v EXCEPT !.at = "closed"]
     [] u = "closes" -> [v EXCEPT !.tcpfd = @ \ {s}, !.dead = @ \ {s}]
   : u \in IF s \in v.dead THEN {"closes"} ELSE tload.ups}

TryServer ==
  /\ tc.at = "servers"
  /\ LET s == NextServer
         v == [tc EXCEPT !.cur = s, !.first = IF @ = 0 THEN s ELSE @, !.tried = @ \cup {s}]
     IN CASE s = 0 -> tc' = [tc EXCEPT !.at = "reply", !.m = TcpReply(tc.k, Refused, TRUE, FALSE)]
          [] s # 0 /\ tload.servers[s] # Query.type -> tc' = v
          [] s # 0 /\ tload.servers[s] = Query.type /\ s \notin tc.tcpfd /\ s \in tc.down -> tc' = v
          [] OTHER -> tc' \in Exchange([v EXCEPT !.tcpfd = @ \cup {s}], s)
  /\ UNCHANGED tload

(* The reply goes out; the client may have gone.                           *)
WriteReply ==
  /\ tc.at = "reply"
  /\ \/ tc' = [tc EXCEPT !.at = "read", !.out = @ \o tc.m, !.m = <<>>]
     \/ tc.ended /\ tc' = [tc EXCEPT !.at = "closed"]
  /\ UNCHANGED tload

(* SIGALRM, after CHILD_LIFETIME seconds.                                  *)
Alarm ==
  /\ tc.at # "closed"
  /\ tc' = [tc EXCEPT !.at = "closed"]
  /\ UNCHANGED tload

TcpNext ==
  \/ ClientAsks \/ ClientEnds \/ ServerTurns \/ ReadQuery \/ ReadEnd \/ TryServer \/ WriteReply \/ Alarm

-----------------------------------------------------------------------------
(* The replies on a connection come in the order of its queries, one for   *)
(* each that has a header; one from a server comes from a server for the   *)
(* query's domain, whatever connections are open, and the client is        *)
(* refused only after every server for it has been tried, wherever the     *)
(* loop began.  The addresses of a reply with the right question are not   *)
(* checked if its query is for a domain where that is not wanted, and are  *)
(* while no query has been for one: what an earlier query does to them is  *)
(* the matter of RebindChecked.  (The loop in tcp_request keeps servers,   *)
(* connections and norebind from one query to the next.)                   *)
TcpOrderly ==
  LET Counts(k) == tload.queries[k].kind \notin {"empty", "short"}
      done == {k \in 1 .. (IF tc.at = "read" THEN tc.k ELSE tc.k - 1) : Counts(k)}
      r == tc.m[1]
      q == tload.queries[r.k]
  IN /\ tc.at # "closed" => {tc.out[i].k : i \in DOMAIN tc.out} = done
     /\ \A i, j \in DOMAIN tc.out : i < j => tc.out[i].k < tc.out[j].k
     /\ tc.m # <<>> =>
          /\ r.from \in Upstreams => tload.servers[r.from] = q.type
          /\ r.from = Refused =>
               q.kind = "forward" /\ \A s \in Upstreams : tload.servers[s] = q.type => s \in tc.tried
          /\ r.from \in Upstreams /\ r.same =>
               /\ q.norebind => ~r.checked
               /\ (\A k \in 1 .. r.k : ~tload.queries[k].norebind) => r.checked
     /\ tc.dead \subseteq tc.tcpfd

(* dnsmasq.8:300 and 310: --stop-dns-rebind has addresses "from upstream   *)
(* nameservers" rejected, and --rebind-domain-ok exempts "queries to these *)
(* domains": whether the addresses of a reply are checked depends on its   *)
(* own query.  tcp_request sets norebind to 0 before its loop, not in it.  *)
RebindChecked ==
  \A i \in DOMAIN tc.m :
    tc.m[i].from \in Upstreams /\ tc.m[i].same =>
      (tc.m[i].checked <=> ~tload.queries[tc.m[i].k].norebind)
=============================================================================
