------------------------------ MODULE MasqDhcp ------------------------------
(***************************************************************************)
(* dnsmasq: the DHCPv4 server (rfc2131.c, dhcp.c, dhcp-common.c).          *)
(*                                                                         *)
(* dhcp_reply is a function of the packet and of the server's record s:    *)
(*   db      the leases, see MasqLease                                     *)
(*   epoch   addr_epoch of every range (modulo its length)                 *)
(*   pings   ping_results: [addr, time, hash], those still valid           *)
(*   conf    dhcp_conf: a sequence of [clid, macs, wild, name, addr,       *)
(*           addr6, hosts, time, tags, flags, declined]                    *)
(* A packet m is [type, hw, clid, name, iface, via, tags, req, ci, ours,   *)
(* sid, unicast, time]: via is the net of the relay or of the subnet       *)
(* selector, tags those of its MAC, options and interface, req the         *)
(* requested address, ci its ciaddr, sid says whether it names a server    *)
(* and ours whether that is this one.  An absent field is NULL (time: 0).  *)
(* An address is in one net; netmasks and broadcast addresses are left out *)
(* and so are PXE, the server identifier override, addresses that end in 0 *)
(* or 255, hosts without a MAC and an identifier, and the ranking of two   *)
(* dhcp-hosts whose wildcards both match.                                  *)
(***************************************************************************)
EXTENDS MasqLease

CONSTANTS
  Ranges,              \* dhcp-range: [net, addrs, filter, tag, kind, time, router]
  NetOf,               \* the net of an address
  IfaceNet,            \* the net of an interface
  Hash,                \* the hash of a MAC, or of a client's DUID
  TagIf,               \* tag-if: a sequence of [when, set]
  dhcp_ignore, dhcp_ignore_names, dhcp_gen_names, bootp_dynamic,
                       \* sequences of sets of tags
  GenName,             \* the name made of a MAC
  MinTime,             \* 120: the shortest lease a client may ask for
  PING_CACHE_TIME, PingMax, DECLINE_BACKOFF

(* A set of tags to match: all of the first, none of the second kind.      *)
match_netid(check, pool, tagnotneeded) ==
  /\ check = [all |-> {}, none |-> {}] => tagnotneeded
  /\ check.all \subseteq pool
  /\ check.none \cap pool = {}

MatchAny(list, pool, tagnotneeded) ==
  \E k \in DOMAIN list : match_netid(list[k], pool, tagnotneeded)

run_tag_if(tags) ==
  FoldLeft(LAMBDA t, e : IF match_netid(e.when, t, TRUE) THEN t \cup e.set ELSE t,
           tags, TagIf)

-----------------------------------------------------------------------------
(* Ranges: a chain is a sequence of ranges, the last configured first.     *)

complete_context(net) ==
  Reverse(SelectSeq([r \in DOMAIN Ranges |-> r], LAMBDA r : Ranges[r].net = net))

(* The net of the packet: that of the relay, else the one its ciaddr is in *)
(* if there is a range, else that of the interface.                        *)
Chain(m) ==
  CASE m.via # NULL -> complete_context(m.via)
    [] m.via = NULL /\ m.ci # NULL /\ complete_context(NetOf[m.ci]) # <<>> ->
         complete_context(NetOf[m.ci])
    [] OTHER -> complete_context(IfaceNet[m.iface])

(* The range of the chain that addr is in, or 0.                           *)
address_available(chain, addr, tags) ==
  LET k == SelectInSeq(chain, LAMBDA r :
             /\ Ranges[r].kind = "dynamic"
             /\ addr \in ToSet(Ranges[r].addrs)
             /\ match_netid(Ranges[r].filter, tags, TRUE))
  IN IF k = 0 \/ addr = Ranges[chain[1]].router THEN 0 ELSE chain[k]

(* The range for addr: the one it is in, else a static one, else any one   *)
(* of its net.                                                             *)
narrow_context(chain, addr, tags) ==
  LET On(kinds) == SelectInSeq(chain, LAMBDA r :
                     /\ match_netid(Ranges[r].filter, tags, TRUE)
                     /\ NetOf[addr] = Ranges[r].net /\ Ranges[r].kind \in kinds)
      Of(k) == IF k = 0 THEN 0 ELSE chain[k]
      avail == address_available(chain, addr, tags)
  IN CASE avail # 0 -> avail
       [] avail = 0 /\ On({"static"}) # 0 -> Of(On({"static"}))
       [] OTHER -> Of(On({"dynamic", "static"}))

-----------------------------------------------------------------------------
(* dhcp-host.                                                              *)

config_find_by_address(conf, addr) ==
  SelectInSeq(conf, LAMBDA c : c.addr # NULL /\ c.addr = addr)

is_addr_in_context(chain, c) ==
  \/ chain = <<>> \/ c.addr = NULL
  \/ \E k \in DOMAIN chain : NetOf[c.addr] = Ranges[chain[k]].net

(* find_config: by client identifier, MAC, name, MAC with wildcards.       *)
find_config(conf, chain, clid, hw, name) ==
  LET First(Match(_)) ==
        SelectInSeq(conf, LAMBDA c : is_addr_in_context(chain, c) /\ Match(c))
      found == << First(LAMBDA c : clid # NULL /\ c.clid = clid),
                  First(LAMBDA c : hw \in c.macs),
                  First(LAMBDA c : name # NULL /\ chain # <<>> /\ c.name = name),
                  First(LAMBDA c : hw \in c.wild) >>
      k == SelectInSeq(found, LAMBDA i : i # 0)
  IN IF k = 0 THEN 0 ELSE found[k]

NoConfig == [clid |-> NULL, macs |-> {}, wild |-> {}, name |-> NULL, addr |-> NULL,
             addr6 |-> NULL, hosts |-> FALSE, time |-> 0, tags |-> {}, flags |-> {},
             declined |-> 0]

Config(conf, i) == IF i = 0 THEN NoConfig ELSE conf[i]

FaultyUpdateConfigs(conf, hosts) ==
  [i \in DOMAIN conf |->
     IF conf[i].name \in DOMAIN hosts
     THEN [conf[i] EXCEPT !.addr = hosts[conf[i].name].v4,
                          !.addr6 = hosts[conf[i].name].v6, !.hosts = TRUE]
     ELSE conf[i]]

(* dhcp_update_configs: addresses from the hosts file for the hosts that   *)
(* have a name and no address, unless another host has the address.  What  *)
(* the file gave before is taken back first, an IPv6 address of the        *)
(* configuration with it.                                                  *)
dhcp_update_configs(conf, hosts) ==
  LET Reset(c) == IF c.hosts THEN [c EXCEPT !.addr = NULL, !.addr6 = NULL, !.hosts = FALSE]
                  ELSE c
      Named(c) == c.name # NULL /\ c.name \in DOMAIN hosts
      Give4(cs, i) ==
        LET a == hosts[cs[i].name].v4
        IN IF /\ Named(cs[i]) /\ cs[i].addr = NULL /\ a # NULL
              /\ config_find_by_address(cs, a) = 0
           THEN [cs EXCEPT ![i].addr = a, ![i].hosts = TRUE] ELSE cs
      Give6(cs, i) ==
        LET a == hosts[cs[i].name].v6
        IN IF /\ Named(cs[i]) /\ cs[i].addr6 = NULL /\ a # NULL
              /\ \A k \in DOMAIN cs : cs[k].addr6 # a
           THEN [cs EXCEPT ![i].addr6 = a, ![i].hosts = TRUE] ELSE cs
      all == [i \in DOMAIN conf |-> i]
  IN FoldLeft(Give6, FoldLeft(Give4, Each(Reset, conf), all), all)

(* dhcp_read_ethers: the lines of /etc/ethers, [mac, addr, name] with one  *)
(* of addr and name, go into the dhcp-host with that address or name, else *)
(* into the one with that MAC alone, else into a new one (flag ETHERS).    *)
(* Those of the last reading are removed first; what it put into other     *)
(* hosts stays.  file is NULL if it cannot be read, bad lines have no MAC. *)
dhcp_read_ethers(conf, file) ==
  LET Old(c) == "ETHERS" \in c.flags
      Bind(cs, k, mac) == [cs EXCEPT ![k].macs = {mac}, ![k].wild = {}, ![k].flags = @ \cup {"NOCLID"}]
      Fill(cs, k, x) == IF x.addr # NULL THEN [cs EXCEPT ![k].addr = x.addr]
                        ELSE [cs EXCEPT ![k].name = x.name]
      Read(cs, x) ==
        LET same == SelectInSeq(cs, LAMBDA c : IF x.addr # NULL THEN c.addr = x.addr ELSE c.name = x.name)
            alone == SelectInSeq(cs, LAMBDA c : c.macs = {x.mac} /\ c.wild = {})
        IN CASE x.mac = NULL -> cs
             [] x.mac # NULL /\ same # 0 -> IF Old(cs[same]) THEN cs ELSE Bind(cs, same, x.mac)
             [] x.mac # NULL /\ same = 0 /\ alone # 0 -> Bind(Fill(cs, alone, x), alone, x.mac)
             [] OTHER -> Bind(Fill(<<[NoConfig EXCEPT !.flags = {"ETHERS"}]>> \o cs, 1, x), 1, x.mac)
  IN IF file = NULL THEN conf
     ELSE FoldLeft(Read, SelectSeq(conf, LAMBDA c : ~Old(c)), file)

(* host_from_dns: the name that the hosts file has for an address.         *)
host_from_dns(hosts, addr) ==
  LET names == {n \in DOMAIN hosts : addr # NULL /\ hosts[n].v4 = addr}
  IN IF names = {} THEN NULL ELSE CHOOSE n \in names : TRUE

(* lease_update_from_configs.  A DHCPv6 lease has no IPv4 address here.    *)
lease_update_from_configs(d, conf, hosts) ==
  LET addr4(l) == IF IsV4(l) THEN l.addr ELSE NULL
      Update(e, k) ==
        LET l == e.leases[k]
            c == Config(conf, find_config(conf, <<>>, l.clid, l.hw, NULL))
            host == host_from_dns(hosts, addr4(l))
        IN CASE c.name # NULL /\ c.addr \in {NULL, addr4(l)} ->
                  lease_set_hostname(e, k, c.name, TRUE, Domain[addr4(l)])
             [] ~(c.name # NULL /\ c.addr \in {NULL, addr4(l)}) /\ host # NULL ->
                  lease_set_hostname(e, k, host, TRUE, Domain[addr4(l)])
             [] OTHER -> e
  IN FoldLeft(Update, d, [k \in DOMAIN d.leases |-> k])

-----------------------------------------------------------------------------
(* address_allocate.                                                       *)

Recent(pings, now) == {p \in pings : now - p.time <= PING_CACHE_TIME}

(* One address of range r: free, and either tested lately or not answering *)
(* a ping (alive is the set of those that answer).                         *)
TryAddress(w, r, addr, chain, hash, now, alive) ==
  LET s == w.s
      recent == Recent(s.pings, now)
      tested == {p \in recent : p.addr = addr}
  IN CASE \/ w.addr # NULL
          \/ \E k \in DOMAIN chain : addr = Ranges[chain[k]].router
          \/ lease_find_by_addr(s.db, addr) # 0
          \/ config_find_by_address(s.conf, addr) # 0 -> w
       [] \E p \in tested : opt.consec /\ p.hash # hash -> w
       [] \E p \in tested : ~(opt.consec /\ p.hash # hash) -> [w EXCEPT !.addr = addr]
       [] tested = {} /\ Cardinality(recent) < PingMax /\ ~opt.noping /\ addr \in alive ->
            [w EXCEPT !.s.epoch[r] = IF opt.consec THEN @ ELSE (@ + 1) % Len(Ranges[r].addrs)]
       [] OTHER -> [w EXCEPT !.addr = addr,
                             !.s.pings = recent \cup {[addr |-> addr, time |-> now, hash |-> hash]}]

(* Two passes over the chain: the ranges that need a tag, then all.        *)
address_allocate(s, chain, hash, tags, now, alive) ==
  LET Size(r) == Len(Ranges[r].addrs)
      Start(w, r) == IF opt.consec THEN lease_find_max_addr(w.s.db, Ranges[r].addrs) - 1
                     ELSE (hash + w.s.epoch[r]) % Size(r)
      From(w, r, start) ==
        FoldLeft(LAMBDA v, k : TryAddress(v, r, Ranges[r].addrs[1 + ((start + k) % Size(r))],
                                          chain, hash, now, alive),
                 w, [k \in 1 .. Size(r) |-> k - 1])
      Visit(w, p) ==
        IF /\ w.addr = NULL /\ Ranges[p.r].kind = "dynamic"
           /\ match_netid(Ranges[p.r].filter, tags, p.pass = 1)
        THEN From(w, p.r, Start(w, p.r)) ELSE w
      Pass(n) == [k \in DOMAIN chain |-> [r |-> chain[k], pass |-> n]]
  IN FoldLeft(Visit, [s |-> s, addr |-> NULL], Pass(0) \o Pass(1))

-----------------------------------------------------------------------------
(* dhcp_reply: who sends the packet.                                       *)

(* The lease, the client identifier (a packet without one is given that of *)
(* the lease), the chain, the dhcp-host and the tags.                      *)
Identify(s, m) ==
  LET bootp == m.type = "BOOTP"
      lease == IF bootp THEN 0 ELSE lease_find_by_client(s.db, m.hw, m.clid)
      clid == CASE bootp -> NULL
                [] m.clid = NULL /\ lease # 0 -> s.db.leases[lease].clid
                [] OTHER -> m.clid
      chain == Chain(m)
      first == find_config(s.conf, chain, clid, m.hw, NULL)
      second == IF first = 0 /\ m.name # NULL /\ ~bootp
                THEN find_config(s.conf, chain, NULL, m.hw, m.name) ELSE 0
      named == IF second = 0 THEN first
               ELSE IF s.conf[second].clid = NULL /\ s.conf[second].macs = {}
                       /\ s.conf[second].wild = {}
                    THEN second ELSE 0
      Then(i, c) ==
        [ lease |-> lease, chain |-> chain, conf |-> i,
          clid |-> IF "NOCLID" \in c.flags THEN NULL ELSE clid,
          tags |-> m.tags \cup c.tags \cup (IF i = 0 THEN {} ELSE {"known"})
                   \cup (IF bootp THEN {"bootp"} ELSE {}),
          name |-> IF Config(s.conf, first).name # NULL THEN Config(s.conf, first).name
                   ELSE IF bootp THEN NULL ELSE m.name,
          auth |-> Config(s.conf, first).name # NULL ]
  IN Then(named, Config(s.conf, named))

calc_time(r, c, req) ==
  LET time == IF c.time # 0 THEN c.time ELSE Ranges[r].time
      want == IF req = Forever \/ req >= MinTime THEN req ELSE MinTime
  IN IF req # 0 /\ (time = Forever \/ (want # Forever /\ want < time)) THEN want ELSE time

Silent(s) == [s |-> s, type |-> "none", addr |-> NULL, time |-> 0]

Answer(s, type, addr, time) == [s |-> s, type |-> type, addr |-> addr, time |-> time]

(* The tags with that of the range.                                        *)
WithRange(r, tags) ==
  run_tag_if(IF r # 0 /\ Ranges[r].tag # NULL THEN tags \cup {Ranges[r].tag} ELSE tags)

Declined(c, now) == c.declined # 0 /\ now - c.declined < DECLINE_BACKOFF

BOOTP(s, m, q, now, alive) ==
  LET c == Config(s.conf, q.conf)
      tags == run_tag_if(q.tags)
      own == lease_find_by_client(s.db, m.hw, NULL)
      at == lease_find_by_addr(s.db, c.addr)
      keep == own # 0 /\ address_available(q.chain, s.db.leases[own].addr, tags) # 0
      pruned == IF own = 0 THEN s ELSE [s EXCEPT !.db = lease_prune(@, own, now)]
      Place(p) == [s |-> p.s, addr |-> p.addr, lease |-> 0]
      place == CASE c.addr # NULL -> [s |-> s, lease |-> at,
                                      addr |-> IF at = 0 \/ s.db.leases[at].hw = m.hw
                                               THEN c.addr ELSE NULL]
                 [] c.addr = NULL /\ keep -> [s |-> s, lease |-> own,
                                              addr |-> s.db.leases[own].addr]
                 [] OTHER -> Place(address_allocate(pruned, q.chain, Hash[m.hw], tags, now, alive))
      time == IF c.time # 0 THEN c.time ELSE Forever
      Name(e, i) == IF q.name = NULL THEN e
                    ELSE lease_set_hostname(e, i, q.name, TRUE, Domain[e.leases[i].addr])
      Lend(e, i) ==
        IF e.crashed THEN e
        ELSE lease_set_interface(
               lease_set_expires(
                 Name(lease_set_hwaddr(e, i, m.hw, NULL, NULL, now, TRUE), i), i, time, now),
               i, m.iface, now)
      Finish(p) ==
        LET r == IF p.addr = NULL THEN 0 ELSE narrow_context(q.chain, p.addr, q.tags)
        IN CASE \/ r = 0
                \/ c.addr = NULL /\ ~MatchAny(bootp_dynamic, WithRange(r, q.tags), TRUE) ->
                  Silent(p.s)
             [] OTHER ->
                  Answer([p.s EXCEPT !.db = Lend(IF p.lease # 0 THEN @
                                                 ELSE lease_allocate(@, "v4", p.addr),
                                                 IF p.lease # 0 THEN p.lease ELSE 1)],
                         "ACK", p.addr, time)
  IN IF "DISABLE" \in c.flags \/ MatchAny(dhcp_ignore, tags, FALSE)
     THEN Silent(s) ELSE Finish(place)

DHCPDECLINE(s, m, q, now) ==
  LET mine == q.lease # 0 /\ s.db.leases[q.lease].addr = m.req
      free == IF mine THEN [s EXCEPT !.db = lease_prune(@, q.lease, now)] ELSE s
  IN CASE ~(m.sid /\ m.ours) \/ m.req = NULL -> Silent(s)
       [] m.sid /\ m.ours /\ m.req # NULL /\ Config(s.conf, q.conf).addr = m.req ->
            Silent([free EXCEPT !.conf[q.conf].declined = now])
       [] OTHER ->
            Silent([free EXCEPT !.epoch = [r \in DOMAIN @ |->
                      IF r \in ToSet(q.chain) THEN (@[r] + 1) % Len(Ranges[r].addrs) ELSE @[r]]])

DHCPRELEASE(s, m, q, now) ==
  IF /\ narrow_context(q.chain, m.ci, run_tag_if(q.tags)) # 0
     /\ m.sid /\ m.ours
     /\ q.lease # 0 /\ s.db.leases[q.lease].addr = m.ci
  THEN Silent([s EXCEPT !.db = lease_prune(@, q.lease, now)])
  ELSE Silent(s)

(* DHCPDISCOVER: the configured address, else that of the lease, else the  *)
(* one asked for, else a free one.  Nothing is reserved.                   *)
DHCPDISCOVER(s, m, q, now, alive) ==
  LET c == Config(s.conf, q.conf)
      tags == run_tag_if(q.tags)
      at == lease_find_by_addr(s.db, c.addr)
      fixed == /\ c.addr # NULL
               /\ at \in {0, q.lease} \/ s.db.leases[at].hw \in c.macs
               /\ Ranges[q.chain[1]].router # c.addr
               /\ ~Declined(c, now)
      Open(addr) == /\ address_available(q.chain, addr, tags) # 0
                    /\ config_find_by_address(s.conf, addr) = 0
      Offer(p) ==
        LET r == IF p.addr = NULL THEN 0 ELSE narrow_context(q.chain, p.addr, tags)
        IN IF r = 0 THEN Silent(p.s) ELSE Answer(p.s, "OFFER", p.addr, calc_time(r, c, m.time))
      chosen == CASE fixed -> c.addr
                  [] ~fixed /\ q.lease # 0 /\ Open(s.db.leases[q.lease].addr) ->
                       s.db.leases[q.lease].addr
                  [] ~fixed /\ ~(q.lease # 0 /\ Open(s.db.leases[q.lease].addr))
                     /\ m.req # NULL /\ Open(m.req) /\ lease_find_by_addr(s.db, m.req) = 0 ->
                       m.req
                  [] OTHER -> NULL
  IN CASE MatchAny(dhcp_ignore, tags, FALSE) \/ "DISABLE" \in c.flags -> Silent(s)
       [] chosen # NULL -> Offer([s |-> s, addr |-> chosen])
       [] OTHER -> Offer(address_allocate(s, q.chain, Hash[m.hw], tags, now, alive))

(* Whether the address yi must be refused, for a client that has lease i.  *)
Refused(d, s, m, q, yi, i, r, tags, now) ==
  LET c == Config(s.conf, q.conf)
      reserved == config_find_by_address(s.conf, yi)
      at == lease_find_by_addr(d, yi)
  IN \/ r = 0
     \/ address_available(<<r>>, yi, tags) = 0 /\ c.addr # yi
     \/ /\ c.addr # NULL /\ c.addr # yi /\ ~(m.req # NULL /\ m.sid)
        /\ Ranges[q.chain[1]].router # c.addr
        /\ c.declined = 0 \/ now - c.declined > DECLINE_BACKOFF
        /\ lease_find_by_addr(d, c.addr) \in {0, i}
     \/ reserved # 0 /\ reserved # q.conf
     \/ i = 0 /\ at # 0 /\ d.leases[at].hw \notin c.macs

(* The lease is confirmed: its MAC, name, expiry and interface.            *)
Confirm(d, i, m, q, r, hosts, time, classes, now) ==
  LET tags == WithRange(r, q.tags)
      host == host_from_dns(hosts, d.leases[i].addr)
      auth == q.auth \/ host # NULL
      given == CASE q.auth -> q.name
                 [] ~q.auth /\ host # NULL -> host
                 [] OTHER -> IF MatchAny(dhcp_ignore_names, tags, TRUE) THEN NULL ELSE q.name
      name == IF given = NULL /\ MatchAny(dhcp_gen_names, tags, TRUE) THEN GenName[m.hw] ELSE given
      flagged == IF classes THEN [d EXCEPT !.leases[i].flags = @ \cup {"CHANGED"}] ELSE d
      Name(e, n) == IF n = NULL THEN e
                    ELSE lease_set_hostname(e, i, n, auth, Domain[d.leases[i].addr])
      named == Name(lease_set_hwaddr(flagged, i, m.hw, NULL, q.clid, now, classes), name)
  IN lease_set_interface(lease_set_expires(named, i, time, now), i, m.iface, now)

FaultyRequest(s, m, q, hosts, now) ==
  LET yi == IF m.req # NULL THEN m.req ELSE m.ci
      r == narrow_context(q.chain, yi, run_tag_if(q.tags))
      e == lease_allocate(s.db, "v4", yi)
  IN IF r = 0 \/ e.crashed THEN Silent(s)
     ELSE Answer([s EXCEPT !.db = Confirm(e, 1, m, q, r, hosts, Ranges[r].time, TRUE, now)],
                 "ACK", yi, Ranges[r].time)

(* DHCPREQUEST, of a client that selects an offer (req and sid), that      *)
(* reboots (req) or that renews its lease (neither).                       *)
DHCPREQUEST(s, m, q, hosts, now) ==
  LET yi == IF m.req # NULL THEN m.req ELSE m.ci
      selecting == m.req # NULL /\ m.sid
      other == q.lease # 0 /\ s.db.leases[q.lease].addr # yi
      none == q.lease = 0 /\ ~opt.authoritative
      squash == selecting /\ other
      tags == run_tag_if(q.tags)
      Nak(p) == Answer(p, "NAK", NULL, 0)
      Ack(p, e, i, r, time, classes) ==
        IF e.crashed THEN Silent([p EXCEPT !.db = e])
        ELSE Answer([p EXCEPT !.db = Confirm(e, i, m, q, r, hosts, time, classes, now)],
                    "ACK", yi, time)
      Decide(p, i, r) ==
        LET at == IF i # 0 THEN i ELSE lease_find_by_addr(p.db, yi)
            time == calc_time(r, Config(p.conf, q.conf), m.time)
        IN CASE Refused(p.db, p, m, q, yi, i, r, tags, now) -> Nak(p)
             [] OTHER -> Ack(p, IF at # 0 THEN p.db ELSE lease_allocate(p.db, "v4", yi),
                             IF at # 0 THEN at ELSE 1, r, time, at = 0 \/ m.req # NULL)
      Checked(p) ==
        IF \/ selecting /\ ~m.ours
           \/ m.req # NULL /\ ~m.sid /\ other
           \/ m.req = NULL /\ (other \/ none)
        THEN Nak(p)
        ELSE Decide(p, IF squash THEN 0 ELSE q.lease, narrow_context(q.chain, yi, tags))
  IN IF \/ MatchAny(dhcp_ignore, tags, FALSE)
        \/ "DISABLE" \in Config(s.conf, q.conf).flags
        \/ selecting /\ ~m.ours /\ ~opt.authoritative
        \/ m.req # NULL /\ ~m.sid /\ none
        \/ m.req = NULL /\ (other \/ none) /\ ~m.unicast
     THEN Silent(s)
     ELSE Checked(IF squash THEN [s EXCEPT !.db = lease_prune(@, q.lease, now)] ELSE s)

DHCPINFORM(s, m, q, now) ==
  LET i == IF q.lease # 0 THEN q.lease ELSE lease_find_by_addr(s.db, m.ci)
      tags == run_tag_if(q.tags)
  IN CASE \/ MatchAny(dhcp_ignore, tags, FALSE)
          \/ "DISABLE" \in Config(s.conf, q.conf).flags
          \/ m.ci = NULL -> Silent(s)
       [] OTHER -> Answer(IF i = 0 THEN s
                          ELSE [s EXCEPT !.db = lease_set_interface(@, i, m.iface, now)],
                          "INFO", NULL, 0)

(* dhcp_reply, for a packet that comes from q (see Identify).              *)
dhcp_reply(s, m, q, hosts, now, alive) ==
  CASE q.chain = <<>> -> Silent(s)
    [] q.chain # <<>> /\ Ranges[q.chain[1]].kind = "proxy" -> Silent(s)
    [] m.type = "BOOTP" -> BOOTP(s, m, q, now, alive)
    [] m.type = "DECLINE" -> DHCPDECLINE(s, m, q, now)
    [] m.type = "RELEASE" -> DHCPRELEASE(s, m, q, now)
    [] m.type = "DISCOVER" -> DHCPDISCOVER(s, m, q, now, alive)
    [] m.type = "REQUEST" -> DHCPREQUEST(s, m, q, hosts, now)
    [] m.type = "INFORM" -> DHCPINFORM(s, m, q, now)
=============================================================================
