------------------------------ MODULE DnsPath -------------------------------
(* One query on its way through CrossBreeder's resolvers, byte by byte: a  *)
(* client asks dnrd, which answers from its master database or passes the  *)
(* query to the server at port 10053, taken to be dnsmasq; that answers    *)
(* itself or asks a server of the provider, and the reply comes back the   *)
(* same way.  The files of the master database may change meanwhile, and   *)
(* SIGHUP makes dnrd read them again.  Ids, retries and the choice of the  *)
(* server are the business of DnrdRelay and MasqForward.                   *)
EXTENDS DnrdMaster, MasqPacket, Dnsc

CONSTANTS PathLoads   \* a set of [files, hosts, asks, masq, local, ups, hups]:
                      \*  files[v]  version v of the files, a function of their names;
                      \*            "etc" is /etc/hosts seen before chroot
                      \*  hosts     hosts[<<v, c>>]: the addresses those files mean to
                      \*            give by name, read before (~c) or after chroot
                      \*  asks      questions: [who, name, type, opt]
                      \*  masq      the options of process_reply, and mac
                      \*  local     what dnsmasq answers itself, by name
                      \*  ups       what the provider's server may answer
                      \*  hups      how often SIGHUP is sent at most
CONSTANTS JunkDomains \* what may be in the array `domain' at first

VARIABLES pload, path, mst, disk
pathvars == <<pload, path, mst, disk>>

(* The provider's server (external).  A recipe: code, ad, the records of   *)
(* each section, and the options of its pseudoheader: [size, data] or none.*)
OptRecord(o) ==
  <<0>> \o PUTSHORT(T_OPT) \o PUTSHORT(o.size) \o PUTLONG(0) \o PUTSHORT(Len(o.data)) \o o.data

Served(query, r) ==
  LET q == SubSeq(query, 1, skip_questions(query))
      body == FoldLeft(LAMBDA a, x : a \o (IF x.owner = <<>> THEN <<192, 12>> ELSE do_rfc1035_name(x.owner) \o <<0>>)
                                       \o PUTSHORT(x.type) \o PUTSHORT(C_IN) \o PUTLONG(60)
                                       \o PUTSHORT(Len(x.data)) \o x.data,
                       <<>>, r.an \o r.ns)
      more == IF r.opt = <<>> THEN <<>> ELSE OptRecord(r.opt[1])
  IN Write(q, 2, <<129, 128 + (IF r.ad THEN 32 ELSE 0) + r.code, 0, 1>> \o PUTSHORT(Len(r.an))
                 \o PUTSHORT(Len(r.ns)) \o PUTSHORT(Len(r.opt))) \o body \o more

(* A client other than dnsc (external), which may send a pseudoheader.     *)
Asked(a) ==
  IF a.who = "dnsc" THEN Question(77, a.name)
  ELSE PUTSHORT(77) \o <<1, 0, 0, 1, 0, 0, 0, 0, 0, Len(a.opt)>> \o do_rfc1035_name(a.name) \o <<0>>
       \o PUTSHORT(a.type) \o PUTSHORT(C_IN) \o (IF a.opt = <<>> THEN <<>> ELSE OptRecord(a.opt[1]))

-----------------------------------------------------------------------------
(* The files dnrd sees: after chroot /etc/hosts is another file, here none.*)
Seen(v, chrooted) ==
  [f \in DOMAIN pload.files[v] |-> IF f = "etc" /\ chrooted THEN <<>> ELSE pload.files[v][f]]

Idle == [at |-> "idle", ask |-> <<>>, by |-> "", query |-> <<>>, fwd |-> <<>>, up |-> <<>>,
         back |-> <<>>, reply |-> <<>>, version |-> <<0, FALSE>>, out |-> <<>>]

(* main: the database is read before chroot.                               *)
PathInit ==
  /\ pload \in PathLoads
  /\ path = Idle
  /\ disk = 1
  /\ \E junk \in JunkDomains :
       mst = [db |-> master_init(<<>>, Seen(1, FALSE), junk), reload |-> FALSE,
              hup |-> FALSE, hups |-> 0, read |-> 1, chrooted |-> FALSE]

(* The files are changed, by someone who then sends SIGHUP, or not yet.    *)
EditFiles ==
  /\ disk < Len(pload.files)
  /\ disk' = disk + 1
  /\ UNCHANGED <<pload, path, mst>>

Sighup ==
  /\ ~mst.hup /\ mst.hups < pload.hups
  /\ mst' = [mst EXCEPT !.hup = TRUE, !.hups = @ + 1]
  /\ UNCHANGED <<pload, path, disk>>

(* The signal is let in by pselect only, which then fails with EINTR:      *)
(* sig_handler and master_reinit run before anything else.                 *)
Reload ==
  /\ mst.hup
  /\ \E junk \in JunkDomains :
       \E m \in {master_reinit([db |-> mst.db, reload |-> TRUE], Seen(disk, TRUE), junk)} :
         mst' = [mst EXCEPT !.db = m.db, !.reload = m.reload, !.hup = FALSE, !.read = disk, !.chrooted = TRUE]
  /\ UNCHANGED <<pload, path, disk>>

Ask ==
  /\ path.at = "idle"
  /\ \E a \in pload.asks :
       path' = [path EXCEPT !.at = "dnrd", !.ask = a, !.query = Asked(a)]
  /\ UNCHANGED <<pload, mst, disk>>

(* udp_handle_request and handle_query, without the cache.  The query may  *)
(* not get out: then the client is not told, whatever master_dontknow says.*)
RequestAnswered ==
  /\ path.at = "dnrd" /\ check_query(path.query)
  /\ \E r \in {master_lookup(mst.db, path.query)} :
       /\ r # <<>>
       /\ path' = [path EXCEPT !.at = "client", !.by = "master", !.reply = r,
                            !.version = <<mst.read, mst.chrooted>>]
  /\ UNCHANGED <<pload, mst, disk>>

RequestPassed ==
  /\ path.at = "dnrd" /\ check_query(path.query)
  /\ master_lookup(mst.db, path.query) = <<>>
  /\ \/ path' = [path EXCEPT !.at = "masq"]
     \/ path' = [path EXCEPT !.at = "client", !.by = "srvfail", !.reply = set_srvfail(path.query)]
     \/ /\ master_dontknow(path.query) # <<>>
        /\ path' = [path EXCEPT !.at = "lost"]
  /\ UNCHANGED <<pload, mst, disk>>

(* receive_query: an answer of its own, else on to the provider.           *)
MasqAnswers ==
  /\ path.at = "masq"
  /\ LowerName(extract_request(path.query).name) \in DOMAIN pload.local
  /\ LET l == pload.local[LowerName(extract_request(path.query).name)]
     IN path' = [path EXCEPT !.at = "back", !.by = "masq",
                   !.back = IF l.how = "setup" THEN setup_reply(path.query, l.addr, l.flags, 0)
                            ELSE WriteAnswer(path.query, l.limit, l.recs, TRUE, FALSE)]
  /\ UNCHANGED <<pload, mst, disk>>

MasqForwards ==
  /\ path.at = "masq"
  /\ LowerName(extract_request(path.query).name) \notin DOMAIN pload.local
  /\ path' = [path EXCEPT !.at = "up", !.fwd = add_mac(path.query, pload.masq.mac)]
  /\ UNCHANGED <<pload, mst, disk>>

Provider ==
  /\ path.at = "up"
  /\ \E r \in pload.ups :
       path' = [path EXCEPT !.at = "reply", !.by = "up", !.up = <<r>>, !.back = Served(path.fwd, r)]
  /\ UNCHANGED <<pload, mst, disk>>

(* reply_query takes a reply to the question asked only.                   *)
MasqReturns ==
  /\ path.at = "reply"
  /\ questions_crc(path.back) = questions_crc(path.query)
  /\ path' = [path EXCEPT !.at = "back", !.back = process_reply(path.back, pload.masq)]
  /\ UNCHANGED <<pload, mst, disk>>

RelayReturns ==
  /\ path.at = "back"
  /\ path' = IF check_reply(path.back) THEN [path EXCEPT !.at = "client", !.reply = path.back]
             ELSE [path EXCEPT !.at = "lost"]
  /\ UNCHANGED <<pload, mst, disk>>

(* The client reads the reply, or gives up.                                *)
ClientReads ==
  /\ path.at = "client"
  /\ path' = [path EXCEPT !.at = "done",
                !.out = IF path.ask.who = "dnsc" THEN <<ngethostbyname(path.query, path.reply)>> ELSE <<>>]
  /\ UNCHANGED <<pload, mst, disk>>

ClientGivesUp ==
  /\ path.at \notin {"idle", "done", "gave up"}
  /\ path' = [path EXCEPT !.at = "gave up", !.reply = <<>>,
                !.out = IF path.ask.who = "dnsc" THEN <<ngethostbyname(path.query, <<>>)>> ELSE <<>>]
  /\ UNCHANGED <<pload, mst, disk>>

Finished ==
  /\ path.at \in {"done", "gave up"}
  /\ path' = Idle
  /\ UNCHANGED <<pload, mst, disk>>

PathNext ==
  \/ EditFiles \/ Sighup \/ Reload \/ Ask \/ RequestAnswered \/ RequestPassed \/ MasqAnswers
  \/ MasqForwards \/ Provider \/ MasqReturns \/ RelayReturns \/ ClientReads \/ ClientGivesUp \/ Finished

-----------------------------------------------------------------------------
(* dnsmasq and dnrd both find every record of the packet, and its end.     *)
Readable(msg) ==
  /\ EndOfPacket(msg) = Len(msg)
  /\ \E d \in {dump_dnspacket(msg)} : ~d.bad /\ d.i = Len(msg)

(* The names of the servers in an answer of the master after the first     *)
(* point to the first one's, and compile_namepointer has six bits for it.  *)
OutOfReach(msg) ==
  nscount(msg) > 1 /\ skip_section(msg, skip_questions(msg), ancount(msg)) >= 64

(* The records of the authority section are about domains of the name.     *)
ServersOf(msg, name) ==
  LET rrs == dump_dnspacket(msg).rrs
      Inside(k, domain) == k >= 0 /\ Suffix(name, k) = domain /\ (k = 0 \/ name[k] = Dot)
  IN \A k \in ancount(msg) + 1 .. ancount(msg) + nscount(msg) :
       Inside(Len(name) - Len(rrs[k].name), rrs[k].name)

(* The options of the pseudoheader, and the size it gives.                 *)
Options(msg) ==
  LET Of(h) == IF h.start = 0 THEN <<>>
               ELSE <<[size |-> GETSHORT(msg, h.size), data |-> Last(dump_dnspacket(msg).rrs).data]>>
  IN Of(find_pseudoheader(msg, FALSE))

(* The options in some data one by one, and what add_mac should make of    *)
(* them: the hardware address comes behind the others unless it is there.  *)
(* A last option without data is not seen, and written over.               *)
RECURSIVE OptionList(_)
OptionList(data) ==
  IF data = <<>> THEN <<>>
  ELSE LET n == 4 + GETSHORT(data, 2)
       IN <<SubSeq(data, 1, n)>> \o OptionList(SubSeq(data, n + 1, Len(data)))

WithMac(data, mac) ==
  LET all == OptionList(data)
      seen == IF all # <<>> /\ Len(Last(all)) = 4 THEN Front(all) ELSE all
      Code(option) == SubSeq(option, 1, 2)
  IN IF \E k \in DOMAIN seen : Code(seen[k]) = PUTSHORT(EDNS0_OPTION_MAC) THEN data
     ELSE FlattenSeq(seen) \o PUTSHORT(EDNS0_OPTION_MAC) \o PUTSHORT(Len(mac)) \o mac

(* The addresses that the one who answered means to give.                  *)
Meant ==
  LET host == LowerName(path.ask.name)
      known == pload.hosts[path.version]
      r == path.up[1]
      got == {x.data : x \in {y \in ToSet(r.an) : y.type = T_A}}
      Alias(a) == LET d == SelectInSeq(pload.masq.doctors, LAMBDA x : Covers(x, a))
                  IN IF d = 0 THEN a ELSE Replaced(pload.masq.doctors[d], a)
      l == pload.local[host]
  IN CASE path.by = "master" ->
            IF path.ask.type = T_A /\ host \in DOMAIN known THEN {known[host]} ELSE {}
       [] path.by = "masq" ->
            IF l.how = "setup" THEN (IF l.flags = {"IPV4"} THEN {l.addr} ELSE {})
            ELSE {x.fields[1].v : x \in {y \in ToSet(l.recs) : y.type = T_A /\ ~y.more}}
       [] path.by = "up" ->
            CASE r.code \notin {NOERROR, NXDOMAIN} -> got
              [] got \cap pload.masq.bogus # {} -> {}
              [] pload.masq.check_rebind /\ \E a \in got : private_net(Alias(a), TRUE) -> {}
              [] OTHER -> {Alias(a) : a \in got}
       [] OTHER -> {}

(* Every packet on the way can be read to its end by the programs that get *)
(* it; a reply has the id and the question of its query; a pseudoheader of *)
(* the client or the provider survives what dnsmasq does to the packet,    *)
(* the hardware address added; the servers dnrd names are those of domains *)
(* of the question; the addresses in the reply are the ones meant by the   *)
(* files dnrd read last, by dnsmasq or by the provider, and dnsc shows     *)
(* those and ends with status 0 just if there are any records.  The        *)
(* packets are put together in rfc1035.c, master.c and dnsc.c by separate  *)
(* code with its own offsets, counts and lengths.  Left out, and happening *)
(* in the instance: the servers behind a long name, which compile_name-    *)
(* pointer does not reach (OutOfReach); a last option without data, which  *)
(* filter_mac replaces (WithMac); and the domain of a host that the master *)
(* file gives before any domain line, which read_configuration takes from  *)
(* an uninitialised array, so that its name may be with or without it.     *)
PathSound ==
  /\ path.at = "up" =>
       /\ Readable(path.fwd)
       /\ questions_crc(path.fwd) = questions_crc(path.query)
       /\ pload.masq.mac # <<>> =>
            LET was == IF path.ask.opt = <<>> THEN <<>> ELSE path.ask.opt[1].data
            IN /\ Options(path.fwd) # <<>>
               /\ Options(path.fwd)[1].data = WithMac(was, pload.masq.mac)
  /\ path.at = "client" =>
       /\ EndOfPacket(path.reply) = Len(path.reply)
       /\ path.by # "master" \/ ~OutOfReach(path.reply) => Readable(path.reply)
       /\ path.by = "master" /\ ~OutOfReach(path.reply) =>
            ServersOf(path.reply, LowerName(path.ask.name))
       /\ SubSeq(path.reply, 1, 2) = SubSeq(path.query, 1, 2)
       /\ HasBit(Byte(path.reply, 2), 128)
       /\ questions_crc(path.reply) = questions_crc(path.query)
       /\ Addresses(path.reply) = Meant
       /\ path.by = "up" /\ path.up[1].opt # <<>> =>
            /\ Options(path.reply) # <<>>
            /\ Options(path.reply)[1].data = path.up[1].opt[1].data
            /\ Options(path.reply)[1].size <= pload.masq.edns_pktsz
  /\ path.at = "done" /\ path.out # <<>> =>
       /\ {r.data : r \in {x \in ToSet(path.out[1].rrs) : x.type = T_A}} = Meant
       /\ (path.out[1].status = 0) = (ancount(path.reply) > 0)
       /\ Meant # {} => path.out[1].status = 0
  /\ path.at = "gave up" /\ path.out # <<>> => path.out[1] = [rrs |-> <<>>, status |-> 1]
=============================================================================
