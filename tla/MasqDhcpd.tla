----------------------------- MODULE MasqDhcpd -----------------------------
(***************************************************************************)
(* dnsmasq: the DHCP side of the daemon at work.  Composes MasqLease,      *)
(* MasqRadv, MasqDhcp and MasqDhcp6 with the event pipe and the alarm of   *)
(* dnsmasq.c, the helper process that runs the lease-change script         *)
(* (helper.c), the kernel's addresses (netlink.c), the lease file, and     *)
(* clients on a network that loses packets.  The daemon may be killed at   *)
(* any time and started again.                                             *)
(***************************************************************************)
EXTENDS MasqDhcp6

CONSTANTS
  Client,              \* [v6, hw, clid, iaid, name, iface, via, tags, does, time]
  Options,             \* the values of opt to be considered
  Conf,                \* dhcp_conf as configured
  HostsFiles,          \* contents of the hosts file: name -> [v4, v6]
  EthersFiles,         \* contents of /etc/ethers, see dhcp_read_ethers
  Iface,               \* interfaces: [addrs, except, chosen]
  if_addrs,            \* --listen-address
  AddrIface,           \* the interface of an address's net
  dhcp_max,            \* the limit on leases
  Links,               \* the IPv6 addresses that interfaces may get
  Backlog              \* bound: leases that the script has to be told of

VARIABLES
  srv,                 \* the server's record of MasqDhcp6
  file,                \* the lease file
  alarm,               \* when SIGALRM is due, or 0
  events,              \* the event pipe
  hosts,               \* the hosts file, as last loaded
  hbuf, pipe,          \* an event for the script: in the buffer, in the pipe
  seen,                \* the script's own table: address -> name
  netlink,             \* a netlink message about an address waits
  held,                \* what every client believes: [state, addr, until]
  now, up, faults,
  lossy,               \* history: the lease file was lost or not written
  missed,              \* history: events for the script died with the daemon
  bereft               \* history: the interfaces that lost an address

daemon == <<srv, file, alarm, events, hosts>>
script == <<hbuf, pipe, seen>>
kernel == <<links, netlink, bereft>>
vars == <<srv, file, alarm, events, hosts, hbuf, pipe, seen, links, netlink, bereft,
          held, now, up, faults, lossy, missed, opt>>

db == srv.db

(* Without a helper do_script_run only forgets what there was to report.   *)
Settled(d) ==
  IF opt.script THEN d
  ELSE [d EXCEPT !.old = <<>>, !.leases = Each(LAMBDA l :
          [l EXCEPT !.old = NULL, !.flags = @ \ {"NEW", "CHANGED"}], @)]

(* An alarm behind an alarm does nothing more.                             *)
send_event(q, e) == IF e = "ALARM" /\ e \in ToSet(q) THEN q ELSE Append(q, e)

(* send_alarm, for the first of the times T and the events of the pipe q.  *)
send_alarm(T, q) ==
  LET next == CHOOSE t \in T : \A u \in T : t <= u
  IN CASE T = {} -> alarm' = alarm /\ events' = q
       [] T # {} /\ next <= now -> alarm' = alarm /\ events' = send_event(q, "ALARM")
       [] OTHER -> alarm' = next /\ events' = q

(* lease_update_file on disk, then lease_update_dns: not at all, as needed *)
(* or by force, when the scripts are run again too.  The file is empty     *)
(* after a failed write.                                                   *)
Finish(s, q, ok, dark, dns) ==
  LET e == lease_update_file(s.db, now, ok, dark)
      Ended(d) == Settled(CASE dns = "no" -> d
                            [] dns = "yes" -> lease_update_dns(d, FALSE)
                            [] OTHER -> rerun_scripts(lease_update_dns(d, TRUE)))
  IN /\ srv' = [s EXCEPT !.db = Ended(e), !.pings = Recent(@, now)]
     /\ file' = CASE ~s.db.file_dirty -> file
                  [] s.db.file_dirty /\ ok -> Image(s.db.leases)
                  [] OTHER -> <<>>
     /\ send_alarm(Events(e, now), q)

(* A fault of the environment, or none.                                    *)
Fault(happens) == happens => faults < opt.faults

Faulty(happens) == faults' = IF happens THEN faults + 1 ELSE faults

Pending == db.old # <<>> \/ hbuf # NULL \/
           \E k \in DOMAIN db.leases :
             db.leases[k].old # NULL \/ db.leases[k].flags \cap {"NEW", "CHANGED"} # {}

(* The daemon dies, between two handlers or in the middle of writing the   *)
(* file (torn).  The helper still runs what it has been sent.              *)
Die(torn) ==
  /\ up' = FALSE
  /\ file' = IF torn THEN <<>> ELSE file
  /\ lossy' = (lossy \/ ToSet(file') # ToSet(Image(db.leases)))
  /\ missed' = (missed \/ Pending)
  /\ alarm' = 0 /\ events' = <<>>

(* After a packet: the file and the names, unless the handler crashed.     *)
Served(s, ok) ==
  \/ s.db.crashed /\ ok /\ Die(FALSE) /\ UNCHANGED srv
  \/ ~s.db.crashed /\ (ok \/ s.db.file_dirty)
     /\ Finish(s, events, ok, FALSE, "yes") /\ UNCHANGED <<up, lossy, missed>>

-----------------------------------------------------------------------------
(* Clients.                                                                *)

Nobody == [state |-> "init", addr |-> NULL, until |-> 0]

Holds(c) == /\ held[c].state = "bound"
            /\ held[c].until = 0 \/ now < held[c].until

Until(time) == IF time = Forever THEN 0 ELSE now + time

(* A packet of client c; its fields by the client's record and state.      *)
Packet(c, type, req, ci, sid, ours, unicast) ==
  LET k == Client[c]
  IN [ type |-> type, hw |-> k.hw, clid |-> k.clid, name |-> k.name, iface |-> k.iface,
       via |-> IF unicast THEN NULL ELSE k.via, tags |-> k.tags, req |-> req, ci |-> ci,
       sid |-> sid, ours |-> ours, unicast |-> unicast, time |-> k.time ]

(* What c may send now: a REQUEST selects an offer of this server or of    *)
(* another one, or is that of a client that reboots or renews its lease.   *)
Sends(c) ==
  LET h == held[c]
      Kind(k, P) == IF k \in Client[c].does THEN P ELSE {}
  IN Kind("BOOTP", {Packet(c, "BOOTP", NULL, NULL, FALSE, FALSE, FALSE)}) \cup
     CASE h.state = "init" ->
            Kind("DISCOVER", {Packet(c, "DISCOVER", h.addr, NULL, FALSE, FALSE, FALSE)})
       [] h.state = "offered" ->
            Kind("SELECT", {Packet(c, "REQUEST", h.addr, NULL, TRUE, TRUE, FALSE)}) \cup
            Kind("OTHER", {Packet(c, "REQUEST", h.addr, NULL, TRUE, FALSE, FALSE)})
       [] h.state = "bound" ->
            Kind("REBOOT", {Packet(c, "REQUEST", h.addr, NULL, FALSE, FALSE, FALSE)}) \cup
            Kind("RENEW", {Packet(c, "REQUEST", NULL, h.addr, FALSE, FALSE, u) : u \in BOOLEAN})
            \cup Kind("DECLINE", {Packet(c, "DECLINE", h.addr, NULL, TRUE, TRUE, FALSE)})
            \cup Kind("RELEASE", {Packet(c, "RELEASE", NULL, h.addr, TRUE, TRUE, TRUE)})
            \cup Kind("INFORM", {Packet(c, "INFORM", NULL, h.addr, FALSE, FALSE, TRUE)})

(* What c believes after the reply r to its packet m; lost says that it    *)
(* does not arrive.                                                        *)
Believes(c, m, r, lost) ==
  LET h == held[c]
  IN CASE m.type \in {"DECLINE", "RELEASE"} -> [Nobody EXCEPT !.addr = IF m.type = "RELEASE" THEN h.addr ELSE NULL]
       [] m.type = "REQUEST" /\ m.sid /\ ~m.ours -> Nobody
       [] r.type = "OFFER" /\ ~lost -> [state |-> "offered", addr |-> r.addr, until |-> 0]
       [] r.type = "ACK" /\ ~lost -> [state |-> "bound", addr |-> r.addr, until |-> Until(r.time)]
       [] r.type = "NAK" /\ ~lost -> Nobody
       [] OTHER -> h

(* The addresses that answer a ping: those in use, unless the hosts keep   *)
(* silent.                                                                 *)
Answering(m) ==
  IF m.type \in {"DISCOVER", "BOOTP"}
  THEN {{}, {held[c].addr : c \in {k \in opt.clients : Holds(k)}}} ELSE {{}}

(* Packets of an interface without an address or with --dhcp-except are    *)
(* dropped, and those of one that neither iface_check (chosen) nor the     *)
(* --listen-address of any of its addresses allows.                        *)
Listens(i) ==
  /\ Iface[i].addrs # {} /\ ~Iface[i].except
  /\ Iface[i].chosen \/ Iface[i].addrs \cap if_addrs # {}

(* dhcp_packet: a packet arrives and is answered.                          *)
dhcp_packet(c) ==
  /\ up /\ ~Client[c].v6 /\ Listens(Client[c].iface) /\ Len(db.old) < Backlog
  /\ \E s \in {[srv EXCEPT !.db = lease_prune(@, 0, now)]}, m \in Sends(c) :
       \E q \in {Identify(s, m)}, alive \in Answering(m) :
         \E r \in {dhcp_reply(s, m, q, hosts, now, alive)}, ok \in BOOLEAN, lost \in BOOLEAN :
           /\ lost => r.type # "none" /\ ok
           /\ Fault(lost \/ ~ok) /\ Faulty(lost \/ ~ok)
           /\ Served(r.s, ok)
           /\ held' = [held EXCEPT ![c] = IF r.s.db.crashed THEN @ ELSE Believes(c, m, r, lost)]
  /\ UNCHANGED <<hosts, script, kernel, now, opt>>

(* A message of DHCPv6: client c wants one address that lasts (NA), and,   *)
(* if it does TA, a temporary one too.                                     *)
Message(c, type, addrs, rapid) ==
  LET k == Client[c]
      na == [type |-> "NA", iaid |-> k.iaid, addrs |-> addrs]
      ta == [type |-> "TA", iaid |-> k.iaid, addrs |-> <<>>]
  IN [ type |-> type, clid |-> k.clid, name |-> k.name, iface |-> k.iface, via |-> k.via,
       tags |-> k.tags, ours |-> TRUE, rapid |-> rapid, time |-> k.time,
       ias |-> IF "TA" \in k.does /\ type = "SOLICIT" THEN <<na, ta>> ELSE <<na>> ]

Sends6(c) ==
  LET h == held[c]
      all == CASE h.state = "init" ->
                    {Message(c, "SOLICIT", <<>>, rapid) : rapid \in BOOLEAN}
                    \cup {Message(c, "IREQ", <<>>, FALSE)}
               [] h.state = "offered" -> {Message(c, "REQUEST", <<h.addr>>, FALSE)}
               [] h.state = "bound" ->
                    {Message(c, type, <<h.addr>>, FALSE) :
                       type \in {"RENEW", "CONFIRM", "RELEASE", "DECLINE"}}
  IN {m \in all : m.type \in Client[c].does /\ (m.rapid => "RAPID" \in Client[c].does)}

Believes6(c, m, r, lost) ==
  LET h == held[c]
      got == {x \in r.out : x.time # 0}
      first == CHOOSE x \in got : TRUE
  IN CASE m.type \in {"DECLINE", "RELEASE"} -> Nobody
       [] m.type \in {"CONFIRM", "IREQ"} \/ lost \/ r.type = "none" -> h
       [] OTHER ->
            IF got = {} THEN Nobody
            ELSE [state |-> IF r.type = "ADVERTISE" THEN "offered" ELSE "bound",
                  addr |-> first.addr, until |-> Until(first.time)]

dhcp6_packet(c) ==
  /\ up /\ Client[c].v6 /\ Listens(Client[c].iface) /\ Len(db.old) < Backlog
  /\ \E s \in {[srv EXCEPT !.db = lease_prune(@, 0, now)]}, m \in Sends6(c) :
       \E q \in {Identify6(s, m)} :
         \E w \in {dhcp6_no_relay(s, m, q, now)} :
           \E r \in {dhcp6_reply(w, m)}, ok \in BOOLEAN, lost \in BOOLEAN :
             /\ lost => r.type # "none" /\ ok
             /\ Fault(lost \/ ~ok) /\ Faulty(lost \/ ~ok)
             /\ Served(r.s, ok)
             /\ held' = [held EXCEPT ![c] = IF r.s.db.crashed THEN @ ELSE Believes6(c, m, r, lost)]
  /\ UNCHANGED <<hosts, script, kernel, now, opt>>

-----------------------------------------------------------------------------
(* The main loop's other handlers.                                         *)

(* SIGHUP.                                                                 *)
Hangup ==
  /\ up
  /\ Fault(TRUE) /\ Faulty(TRUE)
  /\ "hup" \in opt.env /\ "RELOAD" \notin ToSet(events)
  /\ events' = send_event(events, "RELOAD")
  /\ UNCHANGED <<srv, file, alarm, hosts, script, kernel, held, now, up, lossy, missed, opt>>

(* async_event, clear_cache_and_reload: EVENT_RELOAD.                      *)
Reload ==
  /\ up
  /\ events # <<>> /\ Head(events) = "RELOAD"
  /\ \E h \in HostsFiles[opt.hosts], e \in EthersFiles[opt.ethers], ok \in BOOLEAN :
       \E conf \in {dhcp_update_configs(dhcp_read_ethers(srv.conf, e), h)} :
         \E d \in {lease_update_from_configs(db, conf, h)} :
           /\ ~ok => d.file_dirty
           /\ Fault(~ok) /\ Faulty(~ok)
           /\ hosts' = h
           /\ Finish([srv EXCEPT !.db = d, !.conf = conf], Tail(events), ok, FALSE, "force")
  /\ UNCHANGED <<script, kernel, held, now, up, lossy, missed, opt>>

(* async_event: EVENT_ALARM.  The DNS names are left for later.            *)
Alarm ==
  /\ up
  /\ events # <<>> /\ Head(events) = "ALARM"
  /\ \E ok \in BOOLEAN, dark \in {FALSE, "dark" \in opt.env} :
       \E d \in {lease_prune(db, 0, now)} :
         /\ ~ok => d.file_dirty
         /\ Fault(~ok) /\ Faulty(~ok)
         /\ Finish([srv EXCEPT !.db = d], Tail(events), ok, dark, "no")
  /\ UNCHANGED <<hosts, script, kernel, held, now, up, lossy, missed, opt>>

Tick ==
  /\ now < opt.until
  /\ now' = now + 1
  /\ IF alarm # 0 /\ alarm <= now'
     THEN alarm' = 0 /\ events' = send_event(events, "ALARM")
     ELSE UNCHANGED <<alarm, events>>
  /\ UNCHANGED <<srv, file, hosts, script, kernel, held, up, faults, lossy, missed, opt>>

-----------------------------------------------------------------------------
(* The lease-change script.                                                *)

(* The top of the main loop: queue_script, if the buffer is empty.         *)
queue_script ==
  /\ up
  /\ opt.script /\ hbuf = NULL
  /\ \E r \in {do_script_run(db)} :
       /\ r.event # NULL
       /\ hbuf' = r.event
       /\ srv' = [srv EXCEPT !.db = r.db]
  /\ UNCHANGED <<file, alarm, events, hosts, pipe, seen, kernel, held, now, up, faults,
                 lossy, missed, opt>>

helper_write ==
  /\ up
  /\ hbuf # NULL /\ pipe = NULL
  /\ pipe' = hbuf /\ hbuf' = NULL
  /\ UNCHANGED <<daemon, seen, kernel, held, now, up, faults, lossy, missed, opt>>

(* create_helper's loop: one event after the other; the script keeps a     *)
(* table of the leases.                                                    *)
create_helper ==
  /\ pipe # NULL
  /\ pipe' = NULL
  /\ seen' = IF pipe.action = "del"
             THEN [a \in DOMAIN seen \ {pipe.addr} |-> seen[a]]
             ELSE [a \in DOMAIN seen \cup {pipe.addr} |->
                     IF a = pipe.addr THEN pipe.name ELSE seen[a]]
  /\ UNCHANGED <<daemon, hbuf, kernel, held, now, up, faults, lossy, missed, opt>>

-----------------------------------------------------------------------------
(* The kernel's IPv6 addresses.                                            *)

AddLink ==
  /\ "links" \in opt.env
  /\ \E l \in Links : /\ \A k \in DOMAIN links : links[k].prefix # l.prefix
                      /\ links' = Append(links, l)
  /\ netlink' = TRUE
  /\ UNCHANGED <<daemon, script, bereft, held, now, up, faults, lossy, missed, opt>>

(* Duplicate address detection is done.                                    *)
LinkReady ==
  /\ \E k \in DOMAIN links : links[k].dad /\ links' = [links EXCEPT ![k].dad = FALSE]
  /\ UNCHANGED <<daemon, script, netlink, bereft, held, now, up, faults, lossy, missed, opt>>

(* RTM_DELADDR is not among the messages that nl_async handles.            *)
DropLink ==
  /\ "links" \in opt.env /\ Fault(TRUE) /\ Faulty(TRUE)
  /\ \E k \in DOMAIN links : /\ links' = RemoveAt(links, k)
                             /\ bereft' = bereft \cup {links[k].iface}
  /\ UNCHANGED <<daemon, script, netlink, held, now, up, lossy, missed, opt>>

(* nl_async: RTM_NEWADDR.                                                  *)
nl_async ==
  /\ up
  /\ netlink
  /\ netlink' = FALSE
  /\ \E soon \in Soon :
       srv' = [srv EXCEPT !.db.ra = ra_start_unsolicted(schedule_subnet_map(@), now,
                                                        [c \in Contexts |-> soon])]
  /\ events' = send_event(events, "ALARM")
  /\ bereft' = {}
  /\ UNCHANGED <<file, alarm, hosts, script, links, held, now, up, faults, lossy, missed, opt>>

(* icmp6_packet: a router solicitation, or the answer to a SLAAC ping.     *)
icmp6_packet ==
  /\ up
  /\ opt.ra
  /\ \/ \E k \in DOMAIN links :
          srv' = [srv EXCEPT !.db.ra = send_ra(@, links[k].iface)]
     \/ \E k \in DOMAIN db.leases : \E x \in db.leases[k].slaac :
          /\ x.backoff > 1
          /\ srv' = [srv EXCEPT !.db = Settled(slaac_ping_reply(@, x.addr))]
  /\ UNCHANGED <<file, alarm, events, hosts, script, kernel, held, now, up, faults, lossy,
                 missed, opt>>

-----------------------------------------------------------------------------
(* Starting and dying.                                                     *)

(* main: ra_init, lease_init and lease_find_interfaces; the pipe is primed *)
(* with EVENT_RELOAD.                                                      *)
Started(stored, soon) ==
  LET ra == ra_start_unsolicted([ time |-> [c \in Contexts |-> 0], short |-> 0,
                                  if_index |-> [c \in Contexts |-> 0], rebuild |-> FALSE ],
                                now, [c \in Contexts |-> soon])
      empty == [ leases |-> <<>>, old |-> <<>>, left |-> dhcp_max, file_dirty |-> FALSE,
                 dns_dirty |-> FALSE, dns |-> {}, ra |-> ra, crashed |-> FALSE ]
      loaded == lease_init(empty, stored, now)
  IN [ db |-> Settled(lease_find_interfaces(loaded, AddrIface, now)),
       epoch |-> [r \in DOMAIN Ranges |-> 0], epoch6 |-> [r \in DOMAIN Ranges6 |-> 0],
       pings |-> {}, conf |-> Conf[opt.conf] ]

(* Without router advertisements the timers stay as they are.              *)
First == IF opt.ra THEN Soon ELSE {0}

Crash ==
  /\ up
  /\ "crash" \in opt.env /\ Fault(TRUE) /\ Faulty(TRUE)
  /\ \E torn \in BOOLEAN : Die(torn)
  /\ UNCHANGED <<srv, hosts, script, kernel, held, now, opt>>

Restart ==
  /\ ~up /\ up' = TRUE
  /\ \E soon \in First : srv' = Started(file, soon)
  /\ alarm' = 0 /\ events' = <<"RELOAD">>
  /\ hbuf' = NULL
  /\ netlink' = FALSE /\ bereft' = {}
  /\ UNCHANGED <<file, hosts, pipe, seen, links, held, now, faults, lossy, missed, opt>>

Init ==
  /\ opt \in Options
  /\ links = opt.links
  /\ now = 1
  /\ file = <<>> /\ alarm = 0 /\ events = <<"RELOAD">>
  /\ \E soon \in First : srv = Started(<<>>, soon)
  /\ hosts = [n \in {} |-> NULL]
  /\ hbuf = NULL /\ pipe = NULL /\ seen = [a \in {} |-> NULL]
  /\ netlink = FALSE
  /\ held = [c \in opt.clients |-> Nobody]
  /\ up = TRUE /\ faults = 0 /\ lossy = FALSE /\ missed = FALSE /\ bereft = {}

Next ==
  \/ \E c \in opt.clients : dhcp_packet(c)
  \/ \E c \in opt.clients : dhcp6_packet(c)
  \/ Hangup \/ Reload \/ Alarm \/ Tick
  \/ queue_script \/ helper_write \/ create_helper
  \/ AddLink \/ LinkReady \/ DropLink \/ nl_async \/ icmp6_packet
  \/ Crash \/ Restart

Spec == Init /\ [][Next]_vars

-----------------------------------------------------------------------------
(* The state of the daemon has its type, and every lease is counted.       *)
DhcpTypeOK ==
  /\ ToSet(file) \subseteq
       [ type : {"v4", "NA", "TA"}, addr : Addrs4 \cup Addrs6, hw : {Client[c].hw : c \in opt.clients} \cup {NULL},
         iaid : {Client[c].iaid : c \in opt.clients} \cup {NULL}, name : STRING \cup {NULL},
         clid : {Client[c].clid : c \in opt.clients} \cup {NULL}, expires : Nat ]
  /\ db.ra \in RaType(Nat, {l.iface : l \in Links \cup ToSet(links)})
  /\ ToSet(events) \subseteq {"RELOAD", "ALARM"} /\ alarm \in Nat
  /\ \A c \in opt.clients : held[c].addr \in Addrs4 \cup Addrs6 \cup {NULL}

(* No address is lent twice: two clients that both have an unexpired       *)
(* lease, as they see it, have different addresses, whatever offers, lost  *)
(* replies, releases, expiries and restarts came before, as long as the    *)
(* lease file is intact.  The MACs of one dhcp-host may share an address.  *)
NoTwoHolders ==
  \A c, d \in opt.clients :
    c # d /\ Holds(c) /\ Holds(d) /\ held[c].addr = held[d].addr =>
      \/ lossy
      \/ \E k \in DOMAIN srv.conf : {Client[c].hw, Client[d].hw} \subseteq srv.conf[k].macs

(* The list of leases: leases_left counts what is missing to the limit, no *)
(* two leases have the same IPv4 address, none the same IPv4 client        *)
(* identifier, and none the same IAID, client and IPv6 address.  The state *)
(* has its type.                                                           *)
LeaseTable ==
  LET l == db.leases
  IN /\ DhcpTypeOK
     /\ db.left + Len(l) = dhcp_max
     /\ \A i, j \in DOMAIN l : i # j /\ l[i].type = l[j].type =>
          /\ IsV4(l[i]) => l[i].addr # l[j].addr /\ (l[i].clid = NULL \/ l[i].clid # l[j].clid)
          /\ ~IsV4(l[i]) => <<l[i].addr, l[i].clid, l[i].iaid>> # <<l[j].addr, l[j].clid, l[j].iaid>>

(* The lease file has every lease as it is, unless a write failed; and     *)
(* whatever waits for its time - an expiry, the next try to write, an      *)
(* advertisement, a ping - has an alarm set for it or an event in the      *)
(* pipe: lease_update_file sets the alarm, which is one for all of them.   *)
SavedOrRetried ==
  up => /\ db.file_dirty \/ ToSet(file) = ToSet(Image(db.leases))
        /\ events # <<>> \/ \A t \in Events(db, now) : alarm \in 1 .. t

(* A name belongs to one lease of a family (and, with --dhcp-fqdn, of a    *)
(* domain), except that a DHCPv6 client may have it for several addresses; *)
(* and what the DNS says of a DHCP name, and is not expired, is a lease.   *)
NamesExact ==
  LET l == db.leases
      At(e) == {i \in DOMAIN l :
                  /\ l[i].name = e.name
                  /\ \/ l[i].addr = e.addr
                     \/ \E s \in l[i].slaac : s.backoff = 0 /\ s.addr = e.addr}
  IN /\ \A i, j \in DOMAIN l :
          i # j /\ l[i].name # NULL /\ l[i].name = l[j].name /\ IsV4(l[i]) = IsV4(l[j]) =>
            \/ opt.fqdn /\ (l[i].dom = NULL \/ l[i].dom # l[j].dom)
            \/ ~IsV4(l[i]) /\ l[i].clid = l[j].clid
     /\ up => \A e \in db.dns : (e.ttd = 0 \/ now <= e.ttd) => At(e) # {}

(* The lease-change script is told of the loss of a name before its new    *)
(* place, so its table never has a name twice (with --dhcp-fqdn it may,    *)
(* under two domains); and when do_script_run has told it everything, the  *)
(* table is the list of leases.                                            *)
ScriptTable ==
  LET l == db.leases
  IN ~missed =>
       /\ \A a, b \in DOMAIN seen :
            a # b /\ seen[a] # NULL /\ {a, b} \subseteq Addrs4 /\ ~opt.fqdn => seen[a] # seen[b]
       /\ up /\ opt.script /\ ~Pending /\ pipe = NULL =>
            /\ DOMAIN seen = {l[i].addr : i \in DOMAIN l}
            /\ \A i \in DOMAIN l : seen[l[i].addr] = l[i].name

(* dhcp_update_configs: "any IP address can appear in at most one          *)
(* dhcp-host", however the hosts file changes.                             *)
HostsDistinct ==
  \A i, j \in DOMAIN srv.conf : i # j =>
    /\ srv.conf[i].addr # NULL => srv.conf[i].addr # srv.conf[j].addr
    /\ srv.conf[i].addr6 # NULL => srv.conf[i].addr6 # srv.conf[j].addr6

(* Router advertisements do not cease: an interface with an advertised     *)
(* prefix that has lost no address since the last new one has a timer,     *)
(* although the timers of all prefixes but one are zeroed each time.       *)
RaKeepsGoing ==
  up /\ opt.ra /\ ~netlink =>
    \A k \in DOMAIN links :
      links[k].iface \in bereft \/ Covered(links[k].iface) = {} \/
      \E c \in Covered(links[k].iface) : db.ra.time[c] # 0

(* dhcp6_no_relay: an address that is leased to another DUID is refused,   *)
(* so an address has one lease.                                            *)
OneLeasePerAddress6 ==
  \A i, j \in DOMAIN db.leases : i # j /\ ~IsV4(db.leases[i]) /\ ~IsV4(db.leases[j]) =>
    db.leases[i].addr # db.leases[j].addr
=============================================================================
