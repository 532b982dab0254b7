----------------------------- MODULE MasqLease -----------------------------
(***************************************************************************)
(* dnsmasq: the database of DHCP leases (lease.c) with the SLAAC addresses *)
(* guessed for them (slaac.c).                                             *)
(*                                                                         *)
(* A lease of DHCPv4 (type "v4") and one of DHCPv6 ("NA" or "TA") are on   *)
(* the same list, newest first.  The record db is the module's state:      *)
(*   leases, old       the lists leases and old_leases                     *)
(*   left              leases_left                                         *)
(*   file_dirty, dns_dirty                                                 *)
(*   dns               the DHCP names in the DNS store (see MasqCache)     *)
(*   ra                the timers of MasqRadv                              *)
(*   crashed           a lease was allocated beyond the limit: the code    *)
(*                     dereferences the NULL of lease_allocate             *)
(* Calls run to completion: each is an operator from db to db.  A fully    *)
(* qualified name is the pair (name, dom); old_hostname is its name, which *)
(* is what the helper hands to the script.                                 *)
(***************************************************************************)
EXTENDS MasqRadv

CONSTANTS
  NULL, Addrs4, Addrs6,
  Domain,              \* get_domain, get_domain6: the domain of an address
  Slaac,               \* the address a context's prefix and a MAC make
  Forever,             \* a lease time of 0xffffffff
  Slop,                \* 10: how long after an expiry the alarm is set
  LEASE_RETRY,         \* after how long a failed write is repeated
  BackoffMax           \* 12: the longest pause between two SLAAC pings

(* opt: clients (those on the network), ra (router advertisements are on), *)
(* fqdn (OPT_DHCP_FQDN), script (there is a helper).                       *)

IsV4(l) == l.type = "v4"

(* A loop that replaces every element of a list.                           *)
Each(F(_), list) == FoldLeft(LAMBDA done, x : Append(done, F(x)), <<>>, list)

(* What lease_update_dns adds to the DNS store for a list of leases.       *)
Published(leases) ==
  LET Entries(l, a) ==
        {[name |-> l.name, dom |-> m, addr |-> a, ttd |-> l.expires] :
           m \in (IF l.dom # NULL THEN {l.dom} ELSE {})
                 \cup (IF opt.fqdn THEN {} ELSE {NULL})}
      Guessed(l) == {s.addr : s \in {t \in l.slaac : t.backoff = 0}}
  IN UNION {UNION {Entries(leases[i], a) : a \in {leases[i].addr} \cup Guessed(leases[i])} :
              i \in {j \in DOMAIN leases : leases[j].name # NULL}}

lease_update_dns(d, force) ==
  IF d.dns_dirty \/ force
  THEN [d EXCEPT !.dns = Published(d.leases), !.dns_dirty = FALSE]
  ELSE d

(* slaac_add_addrs: the addresses derived from the MAC in the ra-names     *)
(* subnets of the lease's interface; those it already has stay, to be      *)
(* tested again when force is set.                                         *)
slaac_add_addrs(d, i, now, force) ==
  LET l == d.leases[i]
      nets == {c \in Contexts : RaContexts[c].name /\ d.ra.if_index[c] = l.iface}
      want == {Slaac[c][l.hw] : c \in nets}
      had == {s.addr : s \in l.slaac}
      slaac == {s \in l.slaac : s.addr \in want /\ ~force}
               \cup {[addr |-> a, ping |-> now, backoff |-> 1] :
                        a \in {b \in want : force \/ b \notin had}}
      new == {c \in nets : Slaac[c][l.hw] \notin had}
      Told(e) == IF had \ want # {} \/ (force /\ had # {}) THEN lease_update_dns(e, TRUE) ELSE e
  IN IF ~opt.ra \/ l.hw = NULL \/ ~IsV4(l) \/ l.iface = 0 \/ l.name = NULL THEN d
     ELSE Told([d EXCEPT !.leases[i].slaac = slaac, !.ra = Prod(@, now, new)])

(* lease_allocate, lease4_allocate, lease6_allocate: the new lease is the  *)
(* first of the list, with an expiry in the past.                          *)
lease_allocate(d, type, addr) ==
  IF d.left = 0 THEN [d EXCEPT !.crashed = TRUE]
  ELSE [d EXCEPT
          !.leases = << [type |-> type, addr |-> addr, hw |-> NULL, iaid |-> NULL,
                         clid |-> NULL, name |-> NULL, dom |-> NULL, old |-> NULL,
                         expires |-> 1, iface |-> 0, slaac |-> {},
                         flags |-> {"NEW"}] >> \o @,
          !.left = @ - 1, !.file_dirty = TRUE]

lease_set_expires(d, i, len, now) ==
  LET exp == IF len = Forever THEN 0 ELSE now + len
  IN IF exp = d.leases[i].expires THEN d
     ELSE [d EXCEPT !.leases[i].expires = exp, !.dns_dirty = TRUE, !.file_dirty = TRUE]

(* lease_set_hwaddr: a packet without a client identifier leaves the one   *)
(* of the lease.  For DHCPv6 hw is NULL and the IAID is in its type.       *)
lease_set_hwaddr(d, i, hw, iaid, clid, now, force) ==
  LET l == d.leases[i]
      moved == hw # l.hw \/ iaid # l.iaid
      named == clid # NULL /\ clid # l.clid
      Then(e) == IF moved \/ named \/ force THEN slaac_add_addrs(e, i, now, force) ELSE e
  IN Then([d EXCEPT
             !.leases[i].hw = hw, !.leases[i].iaid = iaid,
             !.leases[i].clid = IF clid = NULL THEN @ ELSE clid,
             !.leases[i].flags = IF moved THEN @ \cup {"CHANGED"} ELSE @,
             !.file_dirty = @ \/ moved \/ named])

kill_name(l) == [l EXCEPT !.old = l.name, !.name = NULL, !.dom = NULL]

(* The lease that has the name already and may have to give it up.         *)
Rival(d, i, name, dom) ==
  LET l == d.leases[i]
  IN SelectInSeq(d.leases, LAMBDA m :
       /\ name # NULL /\ m.name = name
       /\ opt.fqdn => dom # NULL /\ m.dom = dom
       /\ IsV4(m) = IsV4(l)
       /\ IsV4(l) \/ l.clid = NULL \/ m.clid # l.clid)

FaultySetHostname(d, i, name, auth, dom) ==
  [d EXCEPT !.leases[i].name = name, !.leases[i].dom = dom,
            !.leases[i].flags = @ \cup {"CHANGED"},
            !.file_dirty = TRUE, !.dns_dirty = TRUE]

(* lease_set_hostname: auth says that the name is from the configuration;  *)
(* a client's name does not take one of those from another lease.          *)
lease_set_hostname(d, i, name, auth, dom) ==
  LET l == d.leases[i]
      r == Rival(d, i, name, dom)
      Kill(e, k) == IF k = 0 THEN e ELSE [e EXCEPT !.leases[k] = kill_name(@)]
      free == Kill(Kill(d, r), IF l.name # NULL THEN i ELSE 0)
  IN CASE name # NULL /\ l.name = name ->
            [d EXCEPT !.leases[i].flags = IF auth THEN @ \cup {"AUTH"} ELSE @]
       [] name = NULL /\ l.name = NULL -> d
       [] r # 0 /\ ~auth /\ "AUTH" \in d.leases[r].flags -> d
       [] OTHER ->
            [free EXCEPT
               !.leases[i].name = name,
               !.leases[i].dom = IF name = NULL THEN NULL ELSE dom,
               !.leases[i].flags = @ \cup {"CHANGED"} \cup (IF auth THEN {"AUTH"} ELSE {}),
               !.file_dirty = TRUE, !.dns_dirty = TRUE]

lease_set_interface(d, i, iface, now) ==
  IF d.leases[i].iface = iface THEN d
  ELSE slaac_add_addrs([d EXCEPT !.leases[i].iface = iface,
                                 !.leases[i].flags = @ \cup {"CHANGED"}], i, now, FALSE)

FaultyPrune(d, i, now) ==
  [d EXCEPT !.leases = SelectSeq(@, LAMBDA l : l.expires = 0 \/ now < l.expires)]

(* lease_prune: the expired leases, and lease i if i # 0, go to old_leases *)
lease_prune(d, i, now) ==
  LET Gone(k) == k = i \/ (d.leases[k].expires # 0 /\ now > d.leases[k].expires)
      all == [k \in DOMAIN d.leases |-> k]
      gone == SelectSeq(all, Gone)
      kept == SelectSeq(all, LAMBDA k : ~Gone(k))
  IN IF gone = <<>> THEN d
     ELSE [d EXCEPT
             !.leases = Each(LAMBDA k : d.leases[k], kept),
             !.old = Each(LAMBDA k : d.leases[k], Reverse(gone)) \o @,
             !.left = @ + Len(gone), !.file_dirty = TRUE,
             !.dns_dirty = @ \/ \E k \in DOMAIN gone : d.leases[gone[k]].name # NULL]

-----------------------------------------------------------------------------
(* Looking for a lease: its place in the list, or 0.                       *)

lease_find_by_client(d, hw, clid) ==
  LET same == SelectInSeq(d.leases, LAMBDA l : IsV4(l) /\ clid # NULL /\ l.clid = clid)
  IN IF same # 0 THEN same
     ELSE SelectInSeq(d.leases, LAMBDA l :
            IsV4(l) /\ (l.clid = NULL \/ clid = NULL) /\ hw # NULL /\ l.hw = hw)

lease_find_by_addr(d, addr) ==
  SelectInSeq(d.leases, LAMBDA l : IsV4(l) /\ l.addr = addr)

lease6_find_by_addr(d, addr) ==
  SelectInSeq(d.leases, LAMBDA l : ~IsV4(l) /\ l.addr = addr)

(* lease6_find: clid or addr may be NULL; with both given, the leases that *)
(* were found or filtered out before (flag USED) are skipped.              *)
lease6_find(d, clid, type, iaid, addr) ==
  SelectInSeq(d.leases, LAMBDA l :
    /\ l.type = type /\ l.iaid = iaid
    /\ clid # NULL /\ addr # NULL => "USED" \notin l.flags
    /\ addr # NULL => l.addr = addr
    /\ clid # NULL => l.clid = clid)

Use(d, i) == IF i = 0 THEN d ELSE [d EXCEPT !.leases[i].flags = @ \cup {"USED"}]

(* lease6_filter: forget USED, then set it in the leases of this identity  *)
(* association that are not on the client's link.                          *)
lease6_filter(d, type, iaid, onlink) ==
  LET Away(l) == l.type = type /\ l.iaid = iaid /\ l.addr \notin onlink
      Mark(l) == [l EXCEPT !.flags = IF Away(l) THEN {"USED"} \cup @ ELSE @ \ {"USED"}]
  IN [d EXCEPT !.leases = Each(Mark, @)]

(* lease_find_max_addr: the highest lease in a range, else its start.      *)
lease_find_max_addr(d, range) ==
  LET taken == {k \in 2 .. Len(range) : lease_find_by_addr(d, range[k]) # 0}
  IN IF taken = {} THEN 1 ELSE CHOOSE k \in taken : \A j \in taken : j <= k

-----------------------------------------------------------------------------
(* The lease file and the alarm.                                           *)

Line(l) == [type |-> l.type, addr |-> l.addr, hw |-> l.hw, iaid |-> l.iaid,
            name |-> l.name, clid |-> l.clid, expires |-> l.expires]

(* What lease_update_file writes: the leases of DHCPv4, then of DHCPv6.    *)
Image(leases) ==
  LET lines == Each(Line, leases)
  IN SelectSeq(lines, IsV4) \o SelectSeq(lines, LAMBDA l : ~IsV4(l))

(* periodic_slaac: ping the guessed addresses that are due; dark says that *)
(* the host cannot be reached, and it is given up.                         *)
periodic_slaac(d, now, dark) ==
  LET mapped == [d EXCEPT !.ra = IF @.rebuild THEN [build_subnet_map(@) EXCEPT !.rebuild = FALSE]
                                 ELSE @]
      Due(s) == s.backoff # 0 /\ s.ping # 0 /\ s.ping <= now
      Ping(s) == IF dark THEN [s EXCEPT !.ping = 0]
                 ELSE [s EXCEPT !.ping = @ + 2 ^ (s.backoff - 1),
                                !.backoff = IF @ < BackoffMax THEN @ + 1 ELSE @]
  IN IF \E c \in Contexts : RaContexts[c].name
     THEN [mapped EXCEPT !.leases = Each(LAMBDA l :
             [l EXCEPT !.slaac = {IF Due(s) THEN Ping(s) ELSE s : s \in @}], @)]
     ELSE d

FaultyUpdateFile(d, now, ok, dark) == [d EXCEPT !.file_dirty = FALSE]

(* lease_update_file, without the file and the alarm (Events, below): ok   *)
(* says that writing succeeds.                                             *)
lease_update_file(d, now, ok, dark) ==
  LET saved == [d EXCEPT !.file_dirty = @ /\ ~ok]
      pinged == periodic_slaac(saved, now, dark)
  IN IF opt.ra THEN [pinged EXCEPT !.ra = periodic_ra(@, now)] ELSE saved

(* The times that send_alarm is to be called for: the first of them.       *)
Events(d, now) ==
  {d.leases[k].expires + Slop : k \in {j \in DOMAIN d.leases : d.leases[j].expires # 0}}
  \cup (IF d.file_dirty THEN {now + LEASE_RETRY} ELSE {})
  \cup (IF opt.ra
        THEN RaTimes(d.ra) \cup
             (UNION {{s.ping : s \in {t \in d.leases[k].slaac : t.backoff # 0}} :
                       k \in DOMAIN d.leases} \ {0})
        ELSE {})

Load(d, line, now) ==
  LET Filled(e) == lease_set_hostname(
                     lease_set_hwaddr(e, 1, line.hw, line.iaid, line.clid, now, FALSE),
                     1, line.name, FALSE, Domain[line.addr])
      Then(e) == IF e.crashed THEN e
                 ELSE [Filled(e) EXCEPT !.leases[1].expires = line.expires,
                                        !.leases[1].flags = @ \ {"NEW", "CHANGED"}]
  IN Then(lease_allocate(d, line.type, line.addr))

(* lease_init: every lease of the file is put in front of those before.    *)
(* The server's DUID is in the file already, and its lines are well formed *)
lease_init(empty, file, now) ==
  LET all == FoldLeft(LAMBDA d, line : Load(d, line, now), empty, file)
  IN [lease_prune([all EXCEPT !.file_dirty = FALSE], 0, now) EXCEPT !.dns_dirty = TRUE]

(* lease_find_interfaces: the interface of each lease's subnet.            *)
lease_find_interfaces(d, Iface, now) ==
  FoldLeft(LAMBDA e, k : IF Iface[e.leases[k].addr] = 0 THEN e
                         ELSE lease_set_interface(e, k, Iface[e.leases[k].addr], now),
           [d EXCEPT !.ra = build_subnet_map(@)], [k \in DOMAIN d.leases |-> k])

(* slaac_ping_reply: the guess is confirmed and goes into the DNS.         *)
slaac_ping_reply(d, sender) ==
  LET Hit(s) == s.addr = sender /\ s.backoff # 0
      Sure(l) == [l EXCEPT !.slaac = {IF Hit(s) THEN [s EXCEPT !.backoff = 0] ELSE s : s \in @}]
      Then(new) == lease_update_dns(new, new # d)
  IN Then([d EXCEPT !.leases = Each(Sure, @)])

-----------------------------------------------------------------------------
(* The lease-change script.                                                *)

rerun_scripts(d) ==
  [d EXCEPT !.leases = Each(LAMBDA l : [l EXCEPT !.flags = @ \cup {"CHANGED"}], @)]

Event(action, l, name) == [action |-> action, addr |-> l.addr, name |-> name]

FaultyScriptRun(d) ==
  LET c == SelectInSeq(d.leases, LAMBDA l : l.flags \cap {"NEW", "CHANGED"} # {})
      o == SelectInSeq(d.leases, LAMBDA l : l.old # NULL)
  IN CASE c # 0 -> [db |-> [d EXCEPT !.leases[c].flags = @ \ {"NEW", "CHANGED"}],
                    event |-> Event("old", d.leases[c], d.leases[c].name)]
       [] c = 0 /\ o # 0 -> [db |-> [d EXCEPT !.leases[o].old = NULL],
                             event |-> Event("old", d.leases[o], NULL)]
       [] c = 0 /\ o = 0 /\ d.old # <<>> ->
            [db |-> [d EXCEPT !.old = Tail(@)], event |-> Event("del", Head(d.old), NULL)]
       [] OTHER -> [db |-> d, event |-> NULL]

(* do_script_run: one event, of the first kind there is.  An event "old"   *)
(* without a name tells the script that the lease has lost its name.       *)
do_script_run(d) ==
  LET o == SelectInSeq(d.leases, LAMBDA l : l.old # NULL)
      c == SelectInSeq(d.leases, LAMBDA l : l.flags \cap {"NEW", "CHANGED"} # {})
  IN CASE d.old # <<>> /\ Head(d.old).old # NULL ->
            [db |-> [d EXCEPT !.old[1].old = NULL],
             event |-> Event("old", Head(d.old), NULL)]
       [] d.old # <<>> /\ Head(d.old).old = NULL ->
            [db |-> [d EXCEPT !.old = Tail(@)],
             event |-> Event("del", Head(d.old), Head(d.old).name)]
       [] d.old = <<>> /\ o # 0 ->
            [db |-> [d EXCEPT !.leases[o].old = NULL],
             event |-> Event("old", d.leases[o], NULL)]
       [] d.old = <<>> /\ o = 0 /\ c # 0 ->
            [db |-> [d EXCEPT !.leases[c].flags = @ \ {"NEW", "CHANGED"}],
             event |-> Event(IF "NEW" \in d.leases[c].flags THEN "add" ELSE "old",
                             d.leases[c], d.leases[c].name)]
       [] OTHER -> [db |-> d, event |-> NULL]
=============================================================================
