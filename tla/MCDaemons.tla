----------------------------- MODULE MCDaemons ------------------------------
(* Instances of the programs around the two resolvers, of those parts of   *)
(* dnsmasq that do not share state with its cache or its leases, and of    *)
(* dnrd's cache.  DaemonsInit picks one of them, which then runs; the      *)
(* others stay as they begin.                                              *)
EXTENDS Rinetd, MasqTftp, MasqLog, Haveged, MasqOptions, Watchdogs, DnsPath,
        MasqEvents, MasqTcp, Pixelserv, DnrdCache, TLC

VARIABLE part
daemonvars == <<part, rvars, tftpvars, logvars, hv, optvars, watchvars, pathvars, eventvars, tcpvars, pixelvars, vars>>

-----------------------------------------------------------------------------
(* rinetd: streams longer than the buffer, global and local rules, a       *)
(* forwarding rule that fails.                                             *)
Rule(k, who) == [kind |-> k, who |-> who, ok |-> TRUE]
Forwards == Rule("server", {})
Sends(c, re, lo) == [client |-> c, re |-> re, lo |-> lo]
MCRinetdConfs ==
  { [lines |-> <<Forwards>>, load |-> <<Sends(1, 3, 1)>>],
    [lines |-> <<Rule("allow", {1, 2}), Forwards, Rule("deny", {1}), [Forwards EXCEPT !.ok = FALSE], Rule("allow", {2})>>,
     load |-> <<Sends(1, 0, 0), Sends(3, 0, 0)>>],
    [lines |-> <<Rule("deny", {3}), Forwards, Rule("deny", {2}), Forwards, Rule("allow", {1})>>,
     load |-> <<Sends(1, 1, 0), Sends(2, 0, 1)>>] }

(* TFTP: block numbers that wrap, netascii, sizes that are a multiple of   *)
(* the block, a file shared by two transfers, requests that fail, and more *)
(* clients than may be served at two listeners, which go away.             *)
Rrq(f, m, b, t) ==
  [op |-> "RRQ", file |-> f, mode |-> m, blk |-> b, tsize |-> t, at |-> 1, leaves |-> FALSE]
Leaver(f, l) == [Rrq(f, "octet", 0, FALSE) EXCEPT !.at = l, !.leaves = TRUE]
MCTftpLoads ==
  { <<Rrq(1, "netascii", 3, FALSE), NoAsk, NoAsk, NoAsk>>, <<Rrq(1, "octet", 1, TRUE), NoAsk, NoAsk, NoAsk>>,
    <<Rrq(2, "octet", 0, FALSE), Rrq(2, "octet", 0, FALSE), NoAsk, NoAsk>>,
    <<[Rrq(1, "octet", 0, FALSE) EXCEPT !.op = "WRQ"], Rrq(0, "octet", 0, FALSE), NoAsk, NoAsk>>,
    <<Leaver(1, 1), Leaver(2, 2), Leaver(2, 1), Leaver(1, 2)>> }
MCDiskFile(f) == IF f = 1 THEN <<"a", "b", "n", "n", "c">> ELSE <<"a">>

(* The log: each kind of destination, more lines than the queue holds.     *)
LogTo(dest, max, lines) == [dest |-> dest, max |-> max, lines |-> lines]
MCLogSetups ==
  {LogTo("file", 2, <<3, 0>>), LogTo("dgram", 2, <<3, 1>>), LogTo("stream", 1, <<2, 0>>), LogTo("android", 2, <<1, 1>>)}

(* haveged: both sections of the test specification, in both orders, as a  *)
(* daemon and as a program.                                                *)
ProcFor(c) == [c |-> c, cycle |-> 0, warn |-> FALSE]
MCHavegedSetups ==
  { [spec |-> <<ProcFor("t"), ProcFor("a"), ProcFor("b"), ProcFor("c"), ProcFor("b")>>, mode |-> "daemon"],
    [spec |-> <<ProcFor("c"), ProcFor("a"), ProcFor("b")>>, mode |-> "daemon"],
    [spec |-> <<ProcFor("t"), [c |-> "a", cycle |-> 2, warn |-> TRUE], ProcFor("c"), [ProcFor("b") EXCEPT !.warn = TRUE]>>,
     mode |-> "app"],
    [spec |-> <<ProcFor("b")>>, mode |-> "app"] }
MCTestUnits == [test0 |-> 2, fips |-> 1, bits |-> 1, seq |-> 1, coron |-> 1]

(* The scripts' watchdogs: two of each kind, signals, commands that start, *)
(* that hold a shell character and that do not end a quotation.            *)
MCWatchLoads ==
  { <<"haveged", "haveged", "none">>, <<"check", "check", "netlink">>, <<"wake", "check", "netlink">>,
    <<"once", "wake", "none">>, <<"dnsmasq", "dnsmasq", "none">> }
MCCommands == {<<"a", " ", "sq", "b", " ", "sq">>, <<"a", "meta">>, <<"sq", "a">>}

-----------------------------------------------------------------------------
(* DHCP replies: options around the size of the packet, of the fields used *)
(* for overflow and of one encapsulated option; tags, vendor classes, PXE. *)
Config(k, c, len, t, f) ==
  [kind |-> k, c |-> c, len |-> len, tag |-> t, force |-> f, str |-> FALSE, class |-> "none", outer |-> "none"]
Tagged(t) == [all |-> {t}, none |-> {}]
Defaults == "netmask" :> 4 @@ "broadcast" :> 4 @@ "router" :> 4 @@ "dns-server" :> 4 @@ "hostname" :> 8 @@ "domainname" :> 11
FirstOpts == <<Opt("message-type", 1), Opt("server-id", 4), Opt("lease-time", 4)>>
Big(n) == <<Config("plain", "x", n, NoTag, TRUE), Config("plain", "y", 20, NoTag, FALSE),
            [Config("plain", "filename", 30, NoTag, FALSE) EXCEPT !.str = TRUE],
            Config("plain", "z", 70, NoTag, TRUE), Config("plain", "router", 0, NoTag, FALSE)>>
ByTag == <<Config("plain", "x", 10, Tagged("red"), FALSE), Config("plain", "x", 12, Tagged("net"), FALSE),
           Config("plain", "x", 14, NoTag, FALSE), Config("plain", "router", 4, Tagged("net"), FALSE),
           Config("plain", "router", 8, Tagged("net"), FALSE),
           Config("plain", "dns-server", 8, [all |-> {}, none |-> {"net"}], FALSE)>>
Encap(n) == <<[Config("encap", "e1", 100, NoTag, FALSE) EXCEPT !.outer = "x"],
              [Config("vi", "v1", 10, NoTag, TRUE) EXCEPT !.outer = "acme"],
              [Config("encap", "e2", n, NoTag, FALSE) EXCEPT !.outer = "x"],
              [Config("vi", "v2", n, Tagged("red"), TRUE) EXCEPT !.outer = "acme"]>>
Vendor == <<[Config("vendor", "w1", 10, NoTag, FALSE) EXCEPT !.class = "PXEClient"],
            [Config("vendor", "w2", 12, NoTag, TRUE) EXCEPT !.class = "other"],
            [Config("vendor", "w3", 12, Tagged("red"), TRUE) EXCEPT !.class = "any"]>>
VendorId(n) == <<Config("plain", "x", n, NoTag, TRUE),
                 [Config("plain", "vendor-id", 5, NoTag, TRUE) EXCEPT !.class = "other"]>> \o Vendor
InList == {"x", "y", "router", "dns-server", "hostname", "domainname", "vendor-encap"}
Plain == [NoReply EXCEPT !.list = TRUE, !.req = InList, !.space = 308, !.first = FirstOpts, !.default = Defaults]
Boots == <<[tag |-> NoTag, sname |-> 10, filename |-> 20], [tag |-> Tagged("red"), sname |-> 0, filename |-> 20]>>
Menu(n) == [on |-> TRUE, uuid |-> TRUE, menu |-> <<[menu |-> 20, server |-> TRUE], [menu |-> n, server |-> FALSE]>>]
MCReplies ==
  {[Plain EXCEPT !.opts = Big(n), !.req = r, !.boots = b] :
     n \in {100, 150, 160, 170, 200} \cup 220 .. 245, r \in {InList, InList \cup {"filename", "sname"}}, b \in {<<>>, Boots}}
  \cup
  {[Plain EXCEPT !.opts = Big(n), !.list = l, !.no_override = TRUE, !.space = 56, !.fqdn = "wire"] :
     n \in {10, 14, 20}, l \in BOOLEAN}
  \cup
  {[Plain EXCEPT !.opts = ByTag, !.tags = t, !.range = n, !.null_term = TRUE, !.fqdn = "ascii", !.boots = Boots, !.tag_if = i] :
     t \in {{}, {"red"}}, n \in {{}, {"net"}},
     i \in {<<>>, <<[tag |-> Tagged("net"), set |-> {"red"}], [tag |-> Tagged("red"), set |-> {"blue"}]>>}}
  \cup
  {[Plain EXCEPT !.opts = Encap(n), !.tags = t, !.space = 500, !.agent = 20] :
     n \in {5} \cup 145 .. 155 \cup {235}, t \in {{}, {"red"}}}
  \cup
  {[Plain EXCEPT !.opts = v, !.class = c, !.req = r, !.tags = t] :
     v \in {Vendor, VendorId(10), VendorId(237)}, t \in {{}, {"red"}}, r \in {InList, {}},
     c \in [name : {"PXEClient", "other"}, len : {9}] \cup {[name |-> "none", len |-> 0]}}
  \cup
  {[Plain EXCEPT !.kind = k, !.opts = VendorId(10), !.class = [name |-> "PXEClient", len |-> 9],
      !.first = SubSeq(FirstOpts, 1, 2), !.pxe = m, !.boots = Boots] :
     k \in {"options", "item", "proxy"}, m \in {Menu(10), Menu(240), [Menu(0) EXCEPT !.menu = <<>>]}}

-----------------------------------------------------------------------------
(* The path of a query: names are letters 1, 2 ..., of one or two labels.  *)
(* Behind the shorter of two long names the servers of its domain are just *)
(* within six bits, and behind the other they are not.  A host comes       *)
(* before the first domain line, and is asked for with and without the     *)
(* domain that may be there by chance.                                     *)
Name1(a) == <<96 + a>>
Name2(a, b) == <<96 + a, Dot, 96 + b>>
LongName(n, b) == [k \in 1 .. n |-> 120] \o <<Dot, 96 + b>>
Ip(n) == <<10, 0, 0, n>>
RevArpa(n) == <<48 + n, Dot, 48, Dot, 48, Dot, 49, 48>> \o ARPADOMAIN
FileLine(op, ip, file, words) == [op |-> op, ip |-> ip, file |-> file, words |-> words]
Files1 ==
  [f \in {"master", "blacklist", "etc"} |->
     CASE f = "blacklist" -> <<Name2(5, 5)>>
       [] f = "etc" -> <<FileLine("ip", Ip(7), "", <<Name1(7)>>)>>
       [] f = "master" ->
            <<FileLine("ip", Ip(9), "", <<Name1(9)>>),
              FileLine("domain", <<>>, "", <<Name1(2), Name1(14) \o <<Plus>>, <<65, Dot>>, Auth>>),
              FileLine("ip", Ip(1), "", <<Name1(1), Name1(3) \o <<Dot>>>>),
              FileLine("ip", <<>>, "", <<Name1(8)>>),
              FileLine("ip", Ip(4), "", <<>>),
              FileLine("ip", Ip(8), "", <<LongName(27, 2), LongName(28, 2)>>),
              FileLine("hosts", <<>>, "etc", <<>>), FileLine("other", <<>>, "", <<>>)>>]
Files2 == [Files1 EXCEPT !["master"] = <<FileLine("domain", <<>>, "", <<Name1(2), Name1(14)>>),
                                         FileLine("ip", Ip(2), "", <<Name1(1), Name2(3, 3)>>)>>]
LongNames == {LongName(27, 2), LongName(28, 2)}
ByChance == {Name1(9), Name2(9, 26)}
Hosts1(c) ==
  [n \in {Name2(1, 2), Name1(3), Name1(2)} \cup LongNames \cup ByChance \cup (IF c THEN {} ELSE {Name2(7, 2)}) |->
     CASE n \in {Name2(1, 2), Name1(3)} -> Ip(1) [] n = Name1(2) -> Ip(4) [] n = Name2(7, 2) -> Ip(7)
       [] n \in LongNames -> Ip(8) [] n \in ByChance -> Ip(9)]
Hosts2 == [n \in {Name2(1, 2), Name2(3, 3)} |-> Ip(2)]
MeantHosts == [k \in {<<1, FALSE>>, <<1, TRUE>>, <<2, TRUE>>} |-> IF k[1] = 1 THEN Hosts1(k[2]) ELSE Hosts2]
Edns(n, d) == <<[size |-> n, data |-> d]>>
AskFor(w, n, t, o) == [who |-> w, name |-> n, type |-> t, opt |-> o]
DnscAsks(n) == AskFor("dnsc", n, T_A, <<>>)
Rr(o, t, d) == [owner |-> o, type |-> t, data |-> d]
UpReply(c, ad, an, ns, o) == [code |-> c, ad |-> ad, an |-> an, ns |-> ns, opt |-> o]
MasqConf(mac, doc, bog, known, reb) ==
  [edns_pktsz |-> 1280, dnssec |-> FALSE, doctors |-> doc, bogus |-> bog, known |-> known, check_rebind |-> reb, mac |-> mac]
PathLoad(asks, masq, local, ups, h) ==
  [files |-> <<Files1, Files2>>, hosts |-> MeantHosts, asks |-> asks, masq |-> masq, local |-> local, ups |-> ups, hups |-> h]
NoLocal == [n \in {} |-> 0]
Doctors == <<[in |-> <<8, 8, 0, 0>>, end |-> <<>>, mask |-> <<255, 255, 0, 0>>, out |-> <<9, 9, 0, 0>>],
             [in |-> Ip(0), end |-> Ip(5), mask |-> <<255, 255, 255, 255>>, out |-> <<7, 7, 7, 7>>]>>
UpReplies ==
  { UpReply(0, TRUE, <<Rr(<<>>, 5, do_rfc1035_name(Name2(6, 6)) \o <<0>>), Rr(Name2(6, 6), T_A, <<8, 8, 4, 4>>)>>,
            <<Rr(Name1(6), 2, <<192, 12>>)>>, <<>>),
    UpReply(0, FALSE, <<Rr(<<>>, T_A, Ip(3))>>, <<>>, Edns(4096, <<>>)),
    UpReply(0, FALSE, <<Rr(<<>>, T_A, <<5, 5, 5, 5>>)>>, <<>>, Edns(512, <<0, 3, 0, 1, 9>>)),
    UpReply(3, FALSE, <<>>, <<Rr(<<>>, 6, <<192, 12, 192, 12>> \o [k \in 1 .. 20 |-> 0])>>, <<>>),
    UpReply(2, FALSE, <<>>, <<>>, <<>>) }
QuietPath ==
  [files |-> <<[f \in {"master", "blacklist", "etc"} |-> <<>>]>>, hosts |-> NoLocal, asks |-> {},
   masq |-> MasqConf(<<>>, <<>>, {}, {}, FALSE), local |-> NoLocal, ups |-> {}, hups |-> 0]
MCPathLoads ==
  { QuietPath,
    PathLoad({DnscAsks(n) : n \in {Name2(1, 2), <<65, Dot, 98>>, Name1(3), Name1(2), Name2(3, 3), Name2(7, 2), Name2(5, 5)}}
             \cup {DnscAsks(n) : n \in LongNames \cup ByChance}
             \cup {AskFor("stub", Name2(1, 2), 2, <<>>), AskFor("stub", RevArpa(1), 12, <<>>), AskFor("stub", RevArpa(6), 12, <<>>)},
             MasqConf(<<>>, <<>>, {}, {}, FALSE), NoLocal, {UpReply(2, FALSE, <<>>, <<>>, <<>>)}, 2),
    PathLoad({DnscAsks(Name2(4, 4)), AskFor("stub", Name2(4, 4), T_A, Edns(4096, <<>>)),
              AskFor("stub", Name2(4, 4), T_AAAA, Edns(512, <<0, 3, 0, 1, 9>>)),
              AskFor("stub", Name2(4, 4), T_A, Edns(512, <<0, 3, 0, 1, 9, 0, 8, 0, 0>>)),
              AskFor("stub", Name2(4, 4), T_A, Edns(512, <<0, 5, 0, 1, 9, 0, 8, 0, 0>>))},
             MasqConf(<<1, 2, 3, 4, 5, 6>>, Doctors, {<<5, 5, 5, 5>>}, {Name2(4, 4)}, TRUE), NoLocal, UpReplies, 0),
    PathLoad({DnscAsks(Name2(4, 4))}, MasqConf(<<>>, <<>>, {}, {}, TRUE), NoLocal, UpReplies, 0),
    PathLoad({DnscAsks(Name2(k, k)) : k \in {11, 12, 13}} \cup {AskFor("stub", Name2(12, 12), T_A, Edns(512, <<>>))},
             MasqConf(<<>>, <<>>, {}, {}, FALSE),
             [n \in {Name2(11, 11), Name2(12, 12), Name2(13, 13)} |->
                CASE n = Name2(11, 11) -> [how |-> "setup", flags |-> {"IPV4"}, addr |-> Ip(1), recs |-> <<>>, limit |-> 0]
                  [] n = Name2(12, 12) -> [how |-> "setup", flags |-> {"NXDOMAIN"}, addr |-> <<>>, recs |-> <<>>, limit |-> 0]
                  [] n = Name2(13, 13) -> [how |-> "records", flags |-> {}, addr |-> <<>>, limit |-> 512,
                       recs |-> <<[chained |-> FALSE, more |-> FALSE, ttl |-> 5, type |-> 5, fields |-> <<[as |-> "d", v |-> Name2(14, 14)]>>],
                                  [chained |-> TRUE, more |-> FALSE, ttl |-> 5, type |-> 1, fields |-> <<[as |-> "4", v |-> Ip(8)]>>],
                                  [chained |-> TRUE, more |-> TRUE, ttl |-> 5, type |-> 28, fields |-> <<[as |-> "6", v |-> [k \in 1 .. 16 |-> 0]]>>]>>]],
             {}, 0) }
MCJunkDomains == {<<>>, <<122>>}

-----------------------------------------------------------------------------
(* dnsmasq's processes: connections with two slots and two listeners, and  *)
(* each mode with every step of the start-up allowed to fail.              *)
Connections ==
  [mode |-> "daemon", faults |-> {}, helper |-> FALSE, scriptuser |-> FALSE, slots |-> 2, listeners |-> 2,
   room |-> 2, pids |-> 2, conns |-> 3, signals |-> [s \in {} |-> 0], jobs |-> 0]
QuietEvents == [Connections EXCEPT !.conns = 0, !.pids = 0, !.slots = 1, !.listeners = 1]
StartUps ==
  [Connections EXCEPT !.faults = {"chdir", "fork", "fork again", "pidfile", "log", "helper", "drop root", "tftp", "user"},
     !.helper = TRUE, !.scriptuser = TRUE, !.conns = 0, !.pids = 0, !.signals = ("TERM" :> 1 @@ "HUP" :> 1), !.jobs = 1]
MCEventLoads ==
  { QuietEvents, Connections, StartUps,
    [StartUps EXCEPT !.mode = "keep", !.slots = 1, !.listeners = 1, !.pids = 1, !.conns = 1, !.signals = ("TERM" :> 1)],
    [StartUps EXCEPT !.mode = "debug", !.conns = 1, !.listeners = 1, !.helper = FALSE, !.jobs = 0,
       !.signals = ("HUP" :> 2 @@ "USR1" :> 1)] }

(* TCP queries: servers for one domain and for all, which go and come.     *)
Asks(kind, type) == [kind |-> kind, type |-> type, norebind |-> FALSE]
QuietTcp == [servers |-> <<>>, start |-> 0, queries |-> <<>>, ups |-> {}, turns |-> 0]
ThreeServers ==
  [servers |-> <<"", "d", "">>, start |-> 3, queries |-> <<Asks("forward", ""), Asks("forward", "d"), Asks("forward", "")>>,
   ups |-> {"answer", "closes"}, turns |-> 2]
MCTcpLoads ==
  { QuietTcp, ThreeServers,
    [ThreeServers EXCEPT !.start = 0, !.ups = {"answer", "other", "half"}, !.turns = 1,
       !.queries = <<Asks("short", ""), [Asks("forward", "d") EXCEPT !.norebind = TRUE], Asks("forward", ""), Asks("cached", "")>>],
    [ThreeServers EXCEPT !.servers = <<"">>, !.start = 1, !.ups = {"answer", "empty"},
       !.queries = <<Asks("local", ""), Asks("forward", "d"), Asks("forward", ""), Asks("empty", "")>>] }

(* pixelserv: three kinds of request at once, slow clients and ones that   *)
(* leave, responses from files, start-ups that fail.                       *)
Gets(asks, parts) == [asks |-> asks, parts |-> parts, slow |-> FALSE, leaves |-> FALSE]
QuietPixel == [file |-> "", faults |-> {}, clients |-> <<>>, terms |-> 0]
MCPixelLoads ==
  { QuietPixel,
    [QuietPixel EXCEPT !.clients = <<Gets("GET .js", 2), Gets("POST", 1), Gets("GET .gif", 1)>>],
    [QuietPixel EXCEPT !.clients = <<[Gets("GET .htm", 2) EXCEPT !.slow = TRUE], [Gets("blank", 2) EXCEPT !.leaves = TRUE]>>,
                       !.terms = 1],
    [QuietPixel EXCEPT !.file = "g", !.clients = <<Gets("GET /name", 3), Gets("GET path", 1)>>, !.terms = 1] }
  \cup [file : {"f", ""}, faults : SUBSET {"file", "listen", "user"}, clients : {<<Gets("GET", 2)>>}, terms : {1}]

(* dnrd's cache: one -c option of each form.                               *)
MCParams ==
  { [form |-> "none"], [form |-> "off"], [form |-> "high", high |-> 1],
    [form |-> "both", low |-> 3, high |-> 2],
    [form |-> "both", low |-> 0, high |-> -1] }

-----------------------------------------------------------------------------
Parts ==
  {"rinetd", "tftp", "log", "haveged", "options", "watchdogs", "path", "events", "tcp", "pixelserv", "cache"}

DaemonsInit ==
  /\ part \in Parts
  /\ RinetdInit /\ TftpInit /\ LogInit /\ HavegedInit /\ OptionsInit /\ WatchInit
  /\ PathInit /\ (part # "path" => pload = QuietPath)
  /\ EventsInit /\ (part # "events" => eload = QuietEvents)
  /\ TcpInit /\ (part # "tcp" => tload = QuietTcp)
  /\ PixelInit /\ (part # "pixelserv" => xload = QuietPixel)
  /\ Init /\ (part # "cache" => marks = <<TRUE, CACHE_HIGHWATER, CACHE_LOWWATER>>)

RunRinetd ==
  /\ part = "rinetd" /\ RinetdNext
  /\ UNCHANGED <<part, tftpvars, logvars, hv, optvars, watchvars, pathvars, eventvars, tcpvars, pixelvars, vars>>
RunTftp ==
  /\ part = "tftp" /\ (TftpStart \/ TftpServer \/ TftpWorld)
  /\ UNCHANGED <<part, rvars, logvars, hv, optvars, watchvars, pathvars, eventvars, tcpvars, pixelvars, vars>>
RunLog ==
  /\ part = "log" /\ LogNext
  /\ UNCHANGED <<part, rvars, tftpvars, hv, optvars, watchvars, pathvars, eventvars, tcpvars, pixelvars, vars>>
RunHaveged ==
  /\ part = "haveged" /\ HavegedNext
  /\ UNCHANGED <<part, rvars, tftpvars, logvars, optvars, watchvars, pathvars, eventvars, tcpvars, pixelvars, vars>>
RunOptions ==
  /\ part = "options" /\ OptionsNext
  /\ UNCHANGED <<part, rvars, tftpvars, logvars, hv, watchvars, pathvars, eventvars, tcpvars, pixelvars, vars>>
RunWatchdogs ==
  /\ part = "watchdogs" /\ WatchNext
  /\ UNCHANGED <<part, rvars, tftpvars, logvars, hv, optvars, pathvars, eventvars, tcpvars, pixelvars, vars>>
RunPath ==
  /\ part = "path" /\ PathNext
  /\ UNCHANGED <<part, rvars, tftpvars, logvars, hv, optvars, watchvars, eventvars, tcpvars, pixelvars, vars>>
RunEvents ==
  /\ part = "events" /\ EventsNext
  /\ UNCHANGED <<part, rvars, tftpvars, logvars, hv, optvars, watchvars, pathvars, tcpvars, pixelvars, vars>>
RunTcp ==
  /\ part = "tcp" /\ TcpNext
  /\ UNCHANGED <<part, rvars, tftpvars, logvars, hv, optvars, watchvars, pathvars, eventvars, pixelvars, vars>>
RunPixelserv ==
  /\ part = "pixelserv" /\ PixelNext
  /\ UNCHANGED <<part, rvars, tftpvars, logvars, hv, optvars, watchvars, pathvars, eventvars, tcpvars, vars>>
RunCache ==
  /\ part = "cache" /\ Next
  /\ UNCHANGED <<part, rvars, tftpvars, logvars, hv, optvars, watchvars, pathvars, eventvars, tcpvars, pixelvars>>

DaemonsNext ==
  \/ RunRinetd \/ RunTftp \/ RunLog \/ RunHaveged \/ RunOptions \/ RunWatchdogs \/ RunPath
  \/ RunEvents \/ RunTcp \/ RunPixelserv \/ RunCache

DaemonsSpec == DaemonsInit /\ [][DaemonsNext]_daemonvars /\ RinetdFair

(* The connections of MasqTcp alone.                                       *)
ConnectionsSpec == DaemonsInit /\ part = "tcp" /\ [][DaemonsNext]_daemonvars
=============================================================================
