----------------------------- MODULE MCMasqDhcp -----------------------------
(* MasqDhcpd on small networks: see Options for the situations considered. *)
EXTENDS MasqDhcpd

NoTags == [all |-> {}, none |-> {}]

MCAddrs4 == {"a1", "a2", "b1", "r1", "r2"}
MCAddrs6 == {"x1", "x2", "y1", "y2"}

MCNetOf == [a \in MCAddrs4 \cup MCAddrs6 |-> IF a \in {"b1", "r2"} THEN "n2" ELSE "n1"]
MCIfaceNet == <<"n1", "n0">>
MCIface == <<[addrs |-> {"r1", "y1"}, except |-> FALSE, chosen |-> FALSE],
             [addrs |-> {"r2"}, except |-> FALSE, chosen |-> FALSE]>>
MCIfAddrs == {"r1", "y1"}
MCAddrIface == [a \in MCAddrs4 \cup MCAddrs6 |-> IF a \in {"b1", "r2"} THEN 0 ELSE 1]
MCDomain == [a \in MCAddrs4 \cup MCAddrs6 \cup {NULL} |-> IF a = "a2" THEN "dom" ELSE NULL]

(* A range of two addresses on the interface's net, one for known hosts    *)
(* behind a relay, and a static one.                                       *)
MCRanges ==
  << [net |-> "n1", addrs |-> <<"a1", "a2">>, filter |-> NoTags, tag |-> "lan",
      kind |-> "dynamic", time |-> 1, router |-> "r1"],
     [net |-> "n2", addrs |-> <<"b1">>, filter |-> [all |-> {"far"}, none |-> {"bad"}],
      tag |-> NULL, kind |-> "dynamic", time |-> 2, router |-> "r2"],
     [net |-> "n2", addrs |-> <<"r2">>, filter |-> NoTags,
      tag |-> NULL, kind |-> "static", time |-> 2, router |-> "r2"] >>

MCRanges6 ==
  << [net |-> "n1", addrs |-> <<"x1", "x2">>, filter |-> NoTags, tag |-> "lan6",
      kind |-> "dynamic", time |-> 1, local |-> "y1"] >>

MCHash == [k \in {"h1", "h2", "h3", "d1", "d2"} |-> IF k \in {"h2", "d2"} THEN 2 ELSE 0]
MCTagIf == << [when |-> [all |-> {"remote"}, none |-> {}], set |-> {"far"}] >>
Ignore == << [all |-> {"bad"}, none |-> {}] >>
IgnoreNames == << [all |-> {"lan6", "mute"}, none |-> {}] >>
GenNames == << [all |-> {"far"}, none |-> {}] >>
BootpDynamic == << [all |-> {"bootp"}, none |-> {}] >>
MCGenName == [h \in {"h1", "h2", "h3"} |-> "gen"]

MCRaContexts == << [prefix |-> "p1", adv |-> TRUE, name |-> TRUE],
                   [prefix |-> "p2", adv |-> TRUE, name |-> FALSE] >>
MCSlaac == [c \in {1, 2} |-> [h \in {"h1", "h2", "h3"} |-> IF c = 1 THEN "y1" ELSE "y2"]]
MCLinks == {[iface |-> 1, prefix |-> "p1", dad |-> FALSE],
            [iface |-> 1, prefix |-> "p2", dad |-> TRUE]}

(* The clients.                                                            *)
V4(hw, clid, name, does) ==
  [v6 |-> FALSE, hw |-> hw, clid |-> clid, iaid |-> NULL, name |-> name, iface |-> 1,
   via |-> NULL, tags |-> {}, does |-> does, time |-> 0]
V6(clid, iaid, name, does) ==
  [v6 |-> TRUE, hw |-> NULL, clid |-> clid, iaid |-> iaid, name |-> name, iface |-> 1,
   via |-> NULL, tags |-> {}, does |-> does, time |-> 0]

Simple == {"DISCOVER", "SELECT"}
Dhcp6 == {"SOLICIT", "REQUEST", "RENEW"}

MCClient ==
  [ plain   |-> V4("h1", NULL, NULL, Simple \cup {"RENEW", "RELEASE"}),
    id      |-> V4("h2", "i2", NULL, Simple \cup {"REBOOT"}),
    known   |-> V4("h1", "i1", NULL, Simple \cup {"RENEW", "DECLINE", "INFORM"}),
    boot    |-> V4("h2", NULL, NULL, {"BOOTP"}),
    third   |-> [V4("h3", NULL, NULL, Simple \cup {"REBOOT", "OTHER"}) EXCEPT !.time = 3],
    remote  |-> [V4("h3", NULL, NULL, Simple \cup {"OTHER"}) EXCEPT !.via = "n2", !.tags = {"remote"}],
    bad     |-> [V4("h1", NULL, NULL, Simple) EXCEPT !.tags = {"bad"}],
    away    |-> [V4("h2", NULL, NULL, Simple) EXCEPT !.iface = 2],
    named1  |-> V4("h1", NULL, "n", Simple \cup {"RELEASE"}),
    named2  |-> V4("h2", NULL, "n", Simple),
    six1    |-> V6("d1", 7, "n", Dhcp6 \cup {"DECLINE", "TA"}),
    six2    |-> V6("d2", 7, "n", Dhcp6 \cup {"RELEASE", "RAPID", "CONFIRM", "IREQ"}),
    six3    |-> V6("d2", 8, NULL, Dhcp6) ]

Host == [NoConfig EXCEPT !.name = "n"]

MCConf ==
  [ none  |-> <<>>,
    hosts |-> << [Host EXCEPT !.macs = {"h1", "h3"}, !.tags = {"remote"}],
                 [NoConfig EXCEPT !.clid = "i2", !.addr = "a2", !.time = Forever] >>,
    boot  |-> << [Host EXCEPT !.macs = {"h2"}] >>,
    slow  |-> << [NoConfig EXCEPT !.macs = {"h1", "h2"}, !.time = Forever] >>,
    six   |-> << [Host EXCEPT !.clid = "d1"], [NoConfig EXCEPT !.name = "m", !.addr6 = "x2"] >> ]

NoHosts == [n \in {} |-> NULL]
MCHostsFiles ==
  [ none  |-> {NoHosts},
    some  |-> {NoHosts, "n" :> [v4 |-> "a1", v6 |-> NULL], "n" :> [v4 |-> "a2", v6 |-> NULL]},
    six   |-> {NoHosts, "n" :> [v4 |-> NULL, v6 |-> "x1"], "n" :> [v4 |-> NULL, v6 |-> "x2"]} ]

(* /etc/ethers: a new host; a host that has the name, twice; an address    *)
(* that the hosts file may give to another host, after a bad line.         *)
Ether(mac, addr, name) == <<[mac |-> mac, addr |-> addr, name |-> name]>>
MCEthersFiles ==
  [ none |-> {NULL},
    some |-> {NULL, Ether("h1", "a1", NULL) \o Ether("h2", "a1", NULL),
              Ether("h2", NULL, "n") \o Ether("h1", NULL, "n"),
              Ether(NULL, NULL, "n") \o Ether("h2", "a2", NULL)} ]

Plain == [ clients |-> {}, ra |-> FALSE, fqdn |-> FALSE, script |-> FALSE, consec |-> FALSE,
           noping |-> FALSE, authoritative |-> TRUE, env |-> {}, hosts |-> "none",
           ethers |-> "none", conf |-> "none", links |-> <<>>, until |-> 3, faults |-> 1 ]

Lend == [Plain EXCEPT !.clients = {"plain", "id"}, !.env = {"crash"}]
Fixed == [Plain EXCEPT !.clients = {"known", "third"}, !.conf = "hosts", !.hosts = "some",
                       !.authoritative = FALSE, !.env = {"hup"}]
Read == [Plain EXCEPT !.clients = {"named1", "boot"}, !.conf = "boot", !.hosts = "some",
                      !.ethers = "some", !.env = {"hup"}, !.until = 1]
Limit == [Plain EXCEPT !.clients = {"named1", "boot", "remote", "bad", "away"}, !.consec = TRUE,
                       !.until = 2, !.faults = 0]
Named == [Plain EXCEPT !.clients = {"named1", "named2"}, !.conf = "slow", !.script = TRUE,
                       !.until = 1, !.faults = 0]
Fqdn == [Named EXCEPT !.fqdn = TRUE]
Six == [Plain EXCEPT !.clients = {"six1", "six2"}, !.conf = "six", !.hosts = "six", !.env = {"hup"}]
Adv == [Plain EXCEPT !.clients = {"boot"}, !.conf = "boot", !.ra = TRUE, !.noping = TRUE,
                     !.env = {"links", "dark"},
                     !.links = << [iface |-> 1, prefix |-> "p1", dad |-> FALSE] >>,
                     !.until = 4, !.faults = 0]
Renumber == [Adv EXCEPT !.env = {"links"}, !.until = 2, !.faults = 1]

MCOptions == {Lend, Fixed, Read, Limit, Named, Fqdn, Six, Adv, Renumber}

(* Two clients of DHCPv6 whose IAIDs differ.                               *)
IaidOptions == {[Plain EXCEPT !.clients = {"six1", "six3"}]}
=============================================================================
