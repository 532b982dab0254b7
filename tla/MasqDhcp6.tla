----------------------------- MODULE MasqDhcp6 -----------------------------
(***************************************************************************)
(* dnsmasq: the DHCPv6 server (rfc3315.c, dhcp6.c).                        *)
(*                                                                         *)
(* dhcp6_reply is a function of the message and of the record s of         *)
(* MasqDhcp, with epoch6 for the ranges of DHCPv6.  A message m is [type,  *)
(* clid, name, iface, via, tags, ours, rapid, time, ias]; ias is a         *)
(* sequence of identity associations [type, iaid, addrs].  The loops over  *)
(* the options of the message are folds with the record w:                 *)
(*   s        the server's state                                           *)
(*   chain    the contexts, cut off behind each one that is used           *)
(*   name     the host's name, dropped when a context's tag says so        *)
(*   used     used_config: the configured address is used once a message   *)
(*   serial   the number of addresses allocated so far                     *)
(*   out      the addresses of the reply; abort: there is no reply         *)
(***************************************************************************)
EXTENDS MasqDhcp

CONSTANT Ranges6       \* [net, addrs, filter, tag, kind, time, local]

complete_context6(net) ==
  Reverse(SelectSeq([r \in DOMAIN Ranges6 |-> r], LAMBDA r : Ranges6[r].net = net))

(* The link of the message: that of the innermost relay, if there is one.  *)
dhcp6_maybe_relay(m) == complete_context6(IF m.via # NULL THEN m.via ELSE IfaceNet[m.iface])

is_addr_in_context6(chain, addr) ==
  \E k \in DOMAIN chain : NetOf[addr] = Ranges6[chain[k]].net

config_find_by_address6(conf, addr) ==
  SelectInSeq(conf, LAMBDA c : c.addr6 # NULL /\ c.addr6 = addr)

find_config6(conf, chain, clid, name) ==
  LET In(c) == chain = <<>> \/ c.addr6 = NULL \/ is_addr_in_context6(chain, c.addr6)
      k == SelectInSeq(conf, LAMBDA c : clid # NULL /\ c.clid = clid /\ In(c))
  IN IF k # 0 THEN k
     ELSE SelectInSeq(conf, LAMBDA c : /\ name # NULL /\ chain # <<>>
                                       /\ c.name = name /\ In(c))

address6_available(chain, addr, tags) ==
  LET k == SelectInSeq(chain, LAMBDA r :
             /\ Ranges6[r].kind \in {"dynamic", "deprecated"}
             /\ addr \in ToSet(Ranges6[r].addrs)
             /\ match_netid(Ranges6[r].filter, tags, TRUE))
  IN IF k = 0 THEN 0 ELSE chain[k]

narrow_context6(chain, addr, tags) ==
  LET On(kinds) == SelectInSeq(chain, LAMBDA r :
                     /\ match_netid(Ranges6[r].filter, tags, TRUE)
                     /\ NetOf[addr] = Ranges6[r].net /\ Ranges6[r].kind \in kinds)
      Of(k) == IF k = 0 THEN 0 ELSE chain[k]
      avail == address6_available(chain, addr, tags)
  IN CASE avail # 0 -> avail
       [] avail = 0 /\ On({"static"}) # 0 -> Of(On({"static"}))
       [] OTHER -> Of(On({"dynamic", "deprecated", "static", "stateless"}))

(* address6_allocate: the first address from the seed on that has no lease *)
(* and no dhcp-host; there is no ping and no record of what was offered.   *)
address6_allocate(s, chain, clid, serial, tags) ==
  LET Size(r) == Len(Ranges6[r].addrs)
      From(r) == LET start == Hash[clid] + s.epoch6[r] + serial
                 IN [k \in 1 .. Size(r) |-> Ranges6[r].addrs[1 + ((start + k - 1) % Size(r))]]
      Open(r, pass) == /\ Ranges6[r].kind = "dynamic"
                       /\ match_netid(Ranges6[r].filter, tags, pass = 1)
      Pass(n) == FlattenSeq([k \in DOMAIN chain |->
                               IF Open(chain[k], n) THEN From(chain[k]) ELSE <<>>])
      Free(a) == /\ \A k \in DOMAIN chain : Ranges6[chain[k]].local # a
                 /\ lease6_find_by_addr(s.db, a) = 0
                 /\ config_find_by_address6(s.conf, a) = 0
      all == Pass(0) \o Pass(1)
      k == SelectInSeq(all, Free)
  IN IF k = 0 THEN NULL ELSE all[k]

-----------------------------------------------------------------------------
(* dhcp6_no_relay: the dhcp-host, the tags and the name of the sender.     *)
Identify6(s, m) ==
  LET chain == dhcp6_maybe_relay(m)
      first == find_config6(s.conf, chain, m.clid, NULL)
      second == IF first = 0 /\ m.clid # NULL /\ m.name # NULL
                THEN find_config6(s.conf, chain, NULL, m.name) ELSE 0
      i == IF second = 0 THEN first
           ELSE IF s.conf[second].clid = NULL /\ s.conf[second].macs = {}
                   /\ s.conf[second].wild = {}
                THEN second ELSE 0
      tags == m.tags \cup {"dhcpv6"} \cup Config(s.conf, i).tags
              \cup (IF i = 0 THEN {} ELSE {"known"})
      auth == Config(s.conf, first).name # NULL
  IN [ chain |-> chain, conf |-> i, auth |-> auth, tags |-> tags,
       ignore |-> \/ "DISABLE" \in Config(s.conf, i).flags
                  \/ MatchAny(dhcp_ignore, run_tag_if(tags), FALSE),
       name |-> CASE auth -> Config(s.conf, first).name
                  [] ~auth /\ MatchAny(dhcp_ignore_names, run_tag_if(tags), TRUE) -> NULL
                  [] OTHER -> m.name ]

(* A context is used: the chain ends with it.  Only the tag of the first   *)
(* context of the chain is ever taken, for it alone is marked as unused.   *)
UseContext(w, r, q) ==
  LET tag == Ranges6[r].tag
      fresh == r = q.chain[1] /\ tag # NULL /\ tag \notin w.tags
      tags == IF fresh THEN w.tags \cup {tag} ELSE w.tags
  IN [w EXCEPT !.chain = SubSeq(@, 1, SelectInSeq(@, LAMBDA c : c = r)),
               !.tags = tags,
               !.name = IF fresh /\ ~q.auth /\ MatchAny(dhcp_ignore_names, tags, TRUE)
                        THEN NULL ELSE @]

(* The lease time of addr, if the client asks for asked (0: it does not).  *)
LeaseTime6(w, r, q, addr, asked) ==
  LET c == Config(w.s.conf, q.conf)
      valid == c.addr6 \in {NULL, addr}
      time == IF valid /\ c.time # 0 THEN c.time ELSE Ranges6[r].time
      want == IF asked = Forever \/ asked >= MinTime THEN asked ELSE MinTime
  IN IF asked # 0 /\ (time = Forever \/ (want # Forever /\ want < time)) THEN want ELSE time

(* An address of the message comes with a lifetime, 0 if it has no wish.   *)
Wanted(m) == IF m.time = 0 THEN MinTime ELSE m.time

(* Address addr is assigned: a lease there is already (i) is updated, also *)
(* for a mere advertisement, a missing one made if make says so.           *)
Assign(w, m, q, ia, addr, asked, i, make, now) ==
  LET r == narrow_context6(w.chain, addr, run_tag_if(q.tags))
      Name(d, j, v) == IF v.name = NULL \/ ia.type # "NA" THEN d
                       ELSE lease_set_hostname(d, j, v.name, q.auth, Domain[addr])
      Report(d, j) == IF opt.script THEN [d EXCEPT !.leases[j].flags = @ \cup {"CHANGED"}] ELSE d
      Update(d, j, v, time) ==
        LET owned == lease_set_hwaddr(lease_set_expires(d, j, time, now), j, NULL, ia.iaid,
                                      m.clid, now, FALSE)
        IN Report(Name(lease_set_interface(owned, j, m.iface, now), j, v), j)
      Give(v, d, time) ==
        CASE d.crashed -> [v EXCEPT !.s.db = d, !.abort = TRUE]
          [] ~d.crashed /\ (i # 0 \/ make) ->
               [v EXCEPT !.s.db = Update(d, IF i # 0 THEN i ELSE 1, v, time),
                         !.out = @ \cup {[iaid |-> ia.iaid, addr |-> addr, time |-> time]}]
          [] OTHER -> [v EXCEPT !.out = @ \cup {[iaid |-> ia.iaid, addr |-> addr, time |-> time]}]
      Then(v) == Give(v, IF i = 0 /\ make THEN lease_allocate(v.s.db, ia.type, addr) ELSE v.s.db,
                      LeaseTime6(v, r, q, addr, asked))
  IN IF r = 0 THEN w ELSE Then(UseContext(w, r, q))

(* An address that the client asks for: refused when it is not on the link *)
(* or when another client has it under the same IAID.                      *)
AssignAsked(w, m, q, ia, addr, make, now) ==
  LET c == Config(w.s.conf, q.conf)
      i == lease6_find(w.s.db, NULL, ia.type, ia.iaid, addr)
      found == [w EXCEPT !.s.db = Use(@, i)]
  IN CASE address6_available(w.chain, addr, q.tags) = 0 /\ c.addr6 # addr -> w
       [] ~(address6_available(w.chain, addr, q.tags) = 0 /\ c.addr6 # addr)
          /\ i # 0 /\ w.s.db.leases[i].clid # m.clid -> found
       [] OTHER -> Assign(found, m, q, ia, addr, Wanted(m), i, make, now)

(* An address of the server's choice: the configured one, else that of an  *)
(* existing lease, else a free one.  The lease of an address that is       *)
(* configured for another host is not used, yet it is the one updated.     *)
AssignChosen(w, m, q, ia, make, now) ==
  LET c == Config(w.s.conf, q.conf)
      mayConf == c.addr6 # NULL /\ ~w.used /\ ia.type = "NA"
      at == lease6_find_by_addr(w.s.db, c.addr6)
      conf == /\ mayConf
              /\ at = 0 \/ w.s.db.leases[at].clid \in {NULL, m.clid}
              /\ ~Declined(c, now)
      own == lease6_find(w.s.db, m.clid, ia.type, ia.iaid, IF conf THEN c.addr6 ELSE NULL)
      kept == own # 0 /\ config_find_by_address6(w.s.conf, w.s.db.leases[own].addr) = 0
      v == [w EXCEPT !.used = @ \/ mayConf, !.s.db = Use(@, own),
                     !.serial = IF conf \/ kept THEN @ ELSE @ + 1]
      fresh == address6_allocate(w.s, w.chain, m.clid, w.serial, q.tags)
      addr == CASE conf -> c.addr6
                [] ~conf /\ kept -> w.s.db.leases[own].addr
                [] OTHER -> fresh
      Then(a) == IF a = NULL THEN v ELSE Assign(v, m, q, ia, a, 0, own, make, now)
  IN Then(addr)

Filtered(w, ia) ==
  [w EXCEPT !.s.db = lease6_filter(@, ia.type, ia.iaid,
                       {a \in Addrs6 : is_addr_in_context6(w.chain, a)})]

SOLICIT(w, m, q, now) ==
  LET make == m.type = "REQUEST" \/ m.rapid
      One(v, ia) ==
        CASE v.abort -> v
          [] ~v.abort /\ ia.addrs # <<>> ->
               FoldLeft(LAMBDA u, a : IF u.abort THEN u
                                      ELSE AssignAsked(u, m, q, ia, a, make, now),
                        Filtered(v, ia), ia.addrs)
          [] ~v.abort /\ ia.addrs = <<>> /\ m.type = "REQUEST" /\ ia.type = "NA" ->
               [v EXCEPT !.abort = TRUE]
          [] OTHER -> AssignChosen(Filtered(v, ia), m, q, ia, make, now)
  IN IF q.ignore THEN [w EXCEPT !.abort = TRUE] ELSE FoldLeft(One, w, m.ias)

(* RENEW: at an address without a lease the reply to its identity          *)
(* association is reset and the rest skipped; an address that is no longer *)
(* on the link gets no time.                                               *)
RENEW(w, m, q, now) ==
  LET tags == run_tag_if(q.tags)
      Extend(u, ia, addr, i, time) ==
        LET Name(d) == IF u.name = NULL \/ ia.type # "NA" THEN d
                       ELSE lease_set_hostname(d, i, u.name, q.auth, Domain[addr])
        IN [u EXCEPT !.s.db = Name(lease_set_expires(@, i, time, now)),
                     !.out = @ \cup {[iaid |-> ia.iaid, addr |-> addr, time |-> time]}]
      Address(u, ia, addr, i, before) ==
        LET r == narrow_context6(u.chain, addr, tags)
        IN CASE u.stop \/ i = 0 -> [u EXCEPT !.stop = TRUE, !.out = before]
             [] ~u.stop /\ i # 0 /\ address6_available(u.chain, addr, tags) = 0 ->
                  [u EXCEPT !.s.db = Use(@, i),
                            !.out = @ \cup {[iaid |-> ia.iaid, addr |-> addr, time |-> 0]}]
             [] OTHER -> Extend([UseContext(u, r, q) EXCEPT !.s.db = Use(@, i)], ia, addr, i,
                                LeaseTime6(u, r, q, addr, Wanted(m)))
      One(v, ia) ==
        FoldLeft(LAMBDA u, a :
                   Address(u, ia, a, lease6_find(u.s.db, m.clid, ia.type, ia.iaid, a), v.out),
                 [Filtered(v, ia) EXCEPT !.stop = FALSE], ia.addrs)
  IN FoldLeft(One, w, m.ias)

(* What RELEASE and DECLINE share: the lease of the address goes.          *)
DropLease(w, m, ia, addr, now) ==
  LET i == lease6_find(w.s.db, m.clid, ia.type, ia.iaid, addr)
  IN IF i = 0 THEN w ELSE [w EXCEPT !.s.db = lease_prune(@, i, now)]

RELEASE(w, m, now) ==
  LET One(v, ia) == FoldLeft(LAMBDA u, a : DropLease(u, m, ia, a, now),
                             Filtered(v, ia), ia.addrs)
  IN FoldLeft(One, w, m.ias)

(* DECLINE: the configured address is disabled for a while; for any other  *)
(* the ranges move on, once, for the loop leaves context at its end.       *)
DECLINE(w, m, q, now) ==
  LET Refuse(u, addr) ==
        IF Config(w.s.conf, q.conf).addr6 = addr
        THEN [u EXCEPT !.s.conf[q.conf].declined = now]
        ELSE [u EXCEPT !.chain = <<>>, !.s.epoch6 = [r \in DOMAIN @ |->
                IF r \in ToSet(u.chain) THEN (@[r] + 1) % Len(Ranges6[r].addrs) ELSE @[r]]]
      One(v, ia) == FoldLeft(LAMBDA u, a : DropLease(Refuse(u, a), m, ia, a, now),
                             Filtered(v, ia), ia.addrs)
  IN FoldLeft(One, w, m.ias)

CONFIRM(w, m, q) ==
  LET all == UNION {ToSet(m.ias[k].addrs) : k \in DOMAIN m.ias}
  IN [w EXCEPT !.out = IF \A a \in all : address6_available(w.chain, a, run_tag_if(q.tags)) # 0
                       THEN {[iaid |-> NULL, addr |-> a, time |-> 0] : a \in all} ELSE {}]

(* dhcp6_no_relay, for a message that comes from q (see Identify6).        *)
dhcp6_no_relay(s, m, q, now) ==
  LET w == [ s |-> s, chain |-> q.chain, name |-> q.name, tags |-> {}, used |-> FALSE,
             serial |-> 0, out |-> {}, abort |-> FALSE, stop |-> FALSE ]
      needsId == m.type \notin {"SOLICIT", "CONFIRM", "IREQ"}
      mute == [w EXCEPT !.abort = TRUE]
  IN CASE q.chain = <<>> \/ (m.clid = NULL /\ m.type # "IREQ") \/ (needsId /\ ~m.ours) -> mute
       [] m.type \in {"SOLICIT", "REQUEST"} -> SOLICIT(w, m, q, now)
       [] m.type = "RENEW" -> RENEW(w, m, q, now)
       [] m.type = "RELEASE" -> RELEASE(w, m, now)
       [] m.type = "DECLINE" -> DECLINE(w, m, q, now)
       [] m.type = "CONFIRM" -> CONFIRM(w, m, q)
       [] m.type = "IREQ" -> IF q.ignore THEN mute ELSE w
       [] OTHER -> mute

(* dhcp6_reply: what is sent.  The USED flags are reset by the next        *)
(* message: they are forgotten here.                                       *)
dhcp6_reply(w, m) ==
  [ s |-> [w.s EXCEPT !.db.leases = Each(LAMBDA l : [l EXCEPT !.flags = @ \ {"USED"}], @)],
    out |-> IF w.abort THEN {} ELSE w.out,
    type |-> CASE w.abort -> "none"
               [] ~w.abort /\ m.type = "SOLICIT" /\ ~m.rapid -> "ADVERTISE"
               [] OTHER -> "REPLY" ]
=============================================================================
