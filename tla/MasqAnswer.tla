----------------------------- MODULE MasqAnswer -----------------------------
(***************************************************************************)
(* dnsmasq: the DNS side of the store (rfc1035.c) - replies of upstream    *)
(* servers put into it by extract_addresses and check_for_bogus_wildcard,  *)
(* questions answered from it by answer_request - with the two other       *)
(* writers, cache_reload and lease_update_dns, and the passing of time.    *)
(*                                                                         *)
(* A packet holds one question.  A reply is a record                       *)
(*   [ name, ptr, type : the question (ptr: the address of a PTR question, *)
(*     NULL for the others), nx : RCODE NXDOMAIN, rrs : its answers,       *)
(*     [name, type, ttl, addr, target], "BAD" where the packet ends, ns :  *)
(*     the SOA records [ttl, minttl] after them, rebind : addresses in     *)
(*     private space are refused, keep : not truncated, and so on ].       *)
(* Replies are to questions for A, AAAA and PTR; nothing of the others is  *)
(* stored.  No answer is truncated for lack of space.                      *)
(***************************************************************************)
EXTENDS MasqCache

CONSTANTS
  Replies, Questions,
  Probed,              \* names that are looked up other than by a question
  HostsFiles,          \* what the hosts files may contain
  LeaseSets,           \* the named leases there may be
  Private,             \* private_net
  bogus_addr,          \* the --bogus-nxdomain addresses
  MxNames,             \* --mx-host and --srv-host: [name, issrv, target]
  Config,              \* <<name, type>> answered from the configuration alone:
                       \* TXT, PTR and NAPTR records, "RR" for other types,
                       \* "A" interface names, "IP" names that look like one
  Near,                \* addresses on the network of the client
  neg_ttl,             \* --neg-ttl, 0 if not given
  no_neg, localmx, filterwin2k, boguspriv

VARIABLE mxnames

vars == <<store, mxnames>>

cname_max == 5

Later(ttl, s) == IF ttl < s THEN ttl ELSE s

-----------------------------------------------------------------------------
(* One answer of a reply.  s.name is the name looked for, s.cpp the CNAME  *)
(* that waits for its target, s.cttl the least ttl; jump restarts the      *)
(* loop for another name, stop leaves extract_addresses.                   *)
Insert(s, e) ==
  LET Put(c, new) ==
        [s EXCEPT
           !.c = IF new # 0 /\ s.cpp # 0 THEN [c EXCEPT !.rec[s.cpp].to = new] ELSE c,
           !.cpp = IF e.type = "CNAME" THEN new ELSE 0]
      Done(c) == Put(c, IF c.insert_error THEN 0 ELSE c.new_chain[1])
  IN Done(cache_insert(s.c, e))

Entry(name, type, addr, rev, neg, ttl) ==
  [ name |-> name, type |-> type, addr |-> addr, fwd |-> ~rev, rev |-> rev,
    neg |-> neg, ttl |-> ttl ]

(* The name of a PTR question is taken from the packet again for every     *)
(* answer, also after a CNAME.                                             *)
OneAnswer(s, rr, reply) ==
  LET ptr == reply.ptr # NULL
      cname == rr.type = "CNAME"
      mine == rr.name = s.name /\ rr.type \in {"CNAME", IF ptr THEN "PTR" ELSE reply.type}
      rebind == reply.rebind /\ rr.type = "A" /\ rr.addr \in Private
      t == IF ptr \/ (mine /\ cname) THEN [s EXCEPT !.cttl = Later(rr.ttl, @)] ELSE s
      e == IF ptr THEN Entry(rr.target, reply.type, reply.ptr, TRUE, "", t.cttl)
           ELSE Entry(s.name, rr.type, rr.addr, FALSE, "", rr.ttl)
      Jump(u) == [u EXCEPT !.count = @ - 1, !.jump = TRUE,
                           !.name = IF ptr THEN @ ELSE rr.target]
      Put(u) == IF cname THEN Jump(u) ELSE [u EXCEPT !.found = TRUE]
  IN IF s.jump \/ s.stop THEN s
     ELSE IF rr.type = "BAD" \/ (mine /\ (rebind \/ (cname /\ s.count = 0)))
       THEN [s EXCEPT !.stop = TRUE]
     ELSE IF ~mine THEN t
     ELSE IF ptr /\ cname THEN Jump(t)
     ELSE Put(Insert(t, e))

(* The loops cname_loop and cname_loop1, over all the answers each time.   *)
Answered(s0, reply) ==
  LET Step(s, rr) == OneAnswer(s, rr, reply)
      pass[k \in 0 .. cname_max + 2] ==
        IF k = 0 THEN [s0 EXCEPT !.jump = TRUE]
        ELSE LET s == pass[k - 1]
             IN IF s.jump THEN FoldLeft(Step, [s EXCEPT !.jump = FALSE], reply.rrs)
                ELSE s
  IN pass[cname_max + 2]

Start(c, reply) ==
  [ c |-> cache_start_insert(c), name |-> reply.name, cpp |-> 0, cttl |-> MaxTtl,
    found |-> FALSE, count |-> cname_max, jump |-> FALSE, stop |-> FALSE ]

(* find_soa: the least time of the SOA records, neg_ttl if there is none,  *)
(* 0 if the packet is bad.                                                 *)
find_soa(reply) ==
  LET bad == \E k \in DOMAIN reply.rrs : reply.rrs[k].type = "BAD"
      times == UNION {{soa.ttl, soa.minttl} : soa \in ToSet(reply.ns)}
  IN IF bad THEN 0 ELSE IF times = {} THEN neg_ttl ELSE Min(times)

(* The negative record for a question that found no answer: with the ttl   *)
(* of the SOA record or, at the end of CNAMEs, with theirs.                *)
NoAnswer(s, reply) ==
  LET neg == IF reply.nx THEN "nxdomain" ELSE "nodata"
      soa == find_soa(reply)
      ttl == IF soa = 0 THEN s.cttl ELSE soa
      ptr == reply.ptr # NULL
  IN IF s.found \/ no_neg \/ (soa = 0 /\ (ptr \/ s.cpp = 0)) THEN s
     ELSE Insert(s, Entry(IF ptr THEN NoName ELSE s.name, reply.type, reply.ptr,
                          ptr, neg, ttl))

(* Fault: what was put in before the packet turned out bad is committed.   *)
FaultyExtract(c, reply) ==
  cache_end_insert(Answered(Start(c, reply), reply).c)

extract_addresses(c, reply) ==
  LET Commit(d) == IF reply.keep THEN cache_end_insert(d) ELSE d
      End(s) == IF s.stop THEN s.c ELSE Commit(NoAnswer(s, reply).c)
      Begin(s) == End(IF reply.nx THEN s ELSE Answered(s, reply))
  IN Begin(Start(c, reply))

(* check_for_bogus_wildcard: is there a bogus address before the packet    *)
(* turns bad, and whose is it.                                             *)
Bogus(reply) ==
  LET end == Find(reply.rrs, 1, LAMBDA rr : rr.type = "BAD")
      at == Find(reply.rrs, 1, LAMBDA rr : rr.type = "A" /\ rr.addr \in bogus_addr)
  IN IF at < end THEN <<reply.rrs[at]>> ELSE <<>>

check_for_bogus_wildcard(c, rr) ==
  cache_end_insert(cache_insert(cache_start_insert(c),
                                Entry(rr.name, "A", NULL, FALSE, "nxdomain", rr.ttl)))

(* check_for_local_domain: is the name one of hosts files, leases or the   *)
(* configuration.                                                          *)
check_for_local_domain(c, name) ==
  LET Search(look) ==
        [c |-> look.c,
         known |-> \/ look.ans # <<>> /\ IsLocal(look.c.rec[look.ans[1]])
                   \/ \E e \in Config : e[1] = name /\ e[2] \in {"TXT", "PTR", "NAPTR", "A"}
                   \/ \E k \in DOMAIN mxnames : mxnames[k].name = name]
  IN Search(cache_find_by_name(c, name, Types, TRUE))

(* process_reply: a bogus reply is not looked at any further; NXDOMAIN for *)
(* a name that is known here means that there is no such data.             *)
process_reply(c, reply) ==
  LET Checked(local) == extract_addresses(local.c, [reply EXCEPT !.nx = ~local.known])
  IN IF ~reply.nx /\ Bogus(reply) # <<>>
     THEN check_for_bogus_wildcard(c, Bogus(reply)[1])
     ELSE Checked(IF reply.nx THEN check_for_local_domain(c, reply.name)
                  ELSE [c |-> c, known |-> TRUE])

Reply(reply) ==
  /\ store' = process_reply(store, reply)
  /\ UNCHANGED mxnames

-----------------------------------------------------------------------------
(* answer_request.  s holds the store, the name looked for (which CNAMEs   *)
(* replace), ans: can this question be answered, and the answers.          *)
Give(s, i, type) ==
  LET r == s.c.rec[i]
  IN [s EXCEPT
        !.ans = TRUE,
        !.auth = @ /\ IsLocal(r),
        !.nxdomain = @ \/ r.neg = "nxdomain",
        !.rrs = IF r.neg # "" THEN @
                ELSE Append(@, [name |-> s.name, type |-> type, id |-> i])]

(* Who may see a record: ANY gets only local ones, a client that wants     *)
(* signatures only local or negative ones.                                 *)
Usable(r, q) ==
  /\ q.type = "ANY" => IsLocal(r)
  /\ q.sec => IsLocal(r) \/ r.neg # ""

AskAddr(s, q) ==
  LET Give1(a, i) == Give(a, i, "PTR")
      Looked(s1, ans) ==
        IF ans # <<>>
        THEN FoldLeft(Give1, s1, SelectSeq(ans, LAMBDA i : Usable(s1.c.rec[i], q)))
        ELSE IF q.family = "A" /\ q.ptr \in Private /\ boguspriv
        THEN [s1 EXCEPT !.ans = TRUE, !.nxdomain = TRUE]
        ELSE s1
      Search(look) == Looked([s EXCEPT !.c = look.c], look.ans)
  IN IF q.type \notin {"PTR", "ANY"} \/ <<s.name, "PTR">> \in Config THEN s
     ELSE Search(cache_find_by_addr(s.c, q.ptr, q.family, TRUE))

(* cname_restart for one type: CNAMEs are followed, at most as many as     *)
(* there are names, then the addresses of the last name are given.  ANY    *)
(* stops at the first record it may not see.                               *)
AskName(s, q, type) ==
  LET Give1(a, i) == Give(a, i, type)
      GiveAll(a, ids) ==
        FoldLeft(Give1, a, SelectSeq(ids, LAMBDA i : Usable(a.c.rec[i], q)))
      Follow(a, i, target) ==
        [a EXCEPT !.name = target, !.more = target # NULL,
                  !.rrs = Append(@, [name |-> a.name, type |-> "CNAME", id |-> i])]
      Upto(a, ids, k, target) ==
        IF k > Len(ids) THEN GiveAll(a, ids)
        ELSE Follow(GiveAll(a, SubSeq(ids, 1, k - 1)), ids[k], target)
      here(r) == r.from = "hosts" /\ r.addr \in Near
      Localised(c, all, ids) ==
        IF type = "A" /\ q.localise /\ \E i \in ToSet(all) : here(c.rec[i])
        THEN SelectSeq(ids, LAMBDA i : here(c.rec[i]) \/ c.rec[i].from # "hosts"
                                       \/ c.rec[i].type = "CNAME")
        ELSE ids
      Looked(a, ids, target) ==
        Upto(a, ids, Find(ids, 1, LAMBDA i : a.c.rec[i].type = "CNAME"), target)
      Seen(c, ids) ==
        IF q.type # "ANY" THEN ids
        ELSE SubSeq(ids, 1, Find(ids, 1, LAMBDA i : ~IsLocal(c.rec[i])) - 1)
      Search(a, look) ==
        Looked([a EXCEPT !.c = look.c, !.more = FALSE],
               Localised(look.c, look.ans, Seen(look.c, look.ans)), look.target)
      Turn(a) == Search(a, cache_find_by_name(a.c, a.name, {type, "CNAME"}, TRUE))
      turn[k \in 0 .. Cardinality(Names) + 1] ==
        IF k = 0 THEN [s EXCEPT !.more = TRUE]
        ELSE LET a == turn[k - 1] IN IF a.more THEN Turn(a) ELSE a
      config == q.type = "A" /\ {<<s.name, "A">>, <<s.name, "IP">>} \cap Config # {}
  IN IF q.type \notin {type, "ANY"} \/ config \/ s.name = NULL THEN s
     ELSE turn[Cardinality(Names) + 1]

AskCname(s, q) ==
  LET Looked(s1, ans) ==
        IF ans # <<>> /\ (q.type = "CNAME" \/ IsLocal(s1.c.rec[ans[1]]))
        THEN [s1 EXCEPT !.ans = TRUE,
                !.rrs = Append(@, [name |-> s.name, type |-> "CNAME", id |-> ans[1]])]
        ELSE s1
      Search(look) == Looked([s EXCEPT !.c = look.c], look.ans)
  IN IF q.type \notin {"CNAME", "ANY"} \/ s.name = NULL THEN s
     ELSE Search(cache_find_by_name(s.c, s.name, {"CNAME"}, TRUE))

AskMx(s, q) ==
  LET found == {m \in ToSet(s.mx) : ~m.issrv /\ m.name = s.name}
      Search(look) == [s EXCEPT !.c = look.c, !.ans = @ \/ look.ans # <<>>]
  IN IF q.type \notin {"MX", "ANY"} \/ s.name = NULL THEN s
     ELSE IF found # {}
     THEN [s EXCEPT !.ans = TRUE, !.offset = @ \cup found]
     ELSE IF localmx
     THEN Search(cache_find_by_name(s.c, s.name, {"hosts", "dhcp"}, TRUE))
     ELSE s

(* The first SRV record of the name goes to the end of the list.           *)
RotateSrv(mx, name) ==
  LET Move(k) == IF k > Len(mx) THEN mx ELSE Append(RemoveAt(mx, k), mx[k])
  IN Move(Find(mx, 1, LAMBDA m : m.issrv /\ m.name = name))

AskSrv(s, q) ==
  LET found == {m \in ToSet(s.mx) : m.issrv /\ m.name = s.name}
  IN IF q.type \notin {"SRV", "ANY"} THEN s
     ELSE [s EXCEPT !.ans = @ \/ found # {} \/ (filterwin2k /\ q.type = "SRV"),
                    !.offset = @ \cup found,
                    !.mx = RotateSrv(@, s.name)]

(* TXT records and those given in full, which come first.                  *)
Configured(q) ==
  \E e \in Config :
    /\ e[1] = q.name /\ e[2] \in {"TXT", "RR"}
    /\ q.type \in {"ANY", e[2]}

(* The name of a PTR record, of an interface or of an address.             *)
ConfiguredAddr(q) ==
  \E e \in Config :
    /\ e[1] = q.name
    /\ \/ e[2] = "PTR" /\ q.type \in {"PTR", "ANY"}
       \/ e[2] \in {"A", "IP"} /\ q.type = "A"

(* What comes last: NAPTR, MAILB and SOA questions.                        *)
AskOther(s, q) ==
  [s EXCEPT !.ans = \/ @ \/ q.type = "MAILB" \/ (q.type = "SOA" /\ filterwin2k)
                    \/ q.type \in {"NAPTR", "ANY"} /\ <<s.name, "NAPTR">> \in Config,
            !.nxdomain = @ \/ q.type = "MAILB"]

(* All the parts for one question, in the order of the code.               *)
Part(c, mx, q) ==
  LET s0 == [c |-> c, mx |-> mx, name |-> q.name, more |-> FALSE, rrs |-> <<>>,
             ans |-> Configured(q) \/ ConfiguredAddr(q), auth |-> TRUE,
             nxdomain |-> FALSE, offset |-> {}]
      addresses == AskName(AskName(AskAddr(s0, q), q, "A"), q, "AAAA")
  IN AskOther(AskSrv(AskMx(AskCname(addresses, q), q), q), q)

(* The additional section: every target of MX and SRV answers is looked    *)
(* up once.                                                                *)
Additional(p) ==
  LET Look(d, t) == cache_find_by_name(d, t, {"A", "AAAA"}, TRUE).c
      Once(ts, m) == IF m \notin p.offset \/ Contains(ts, m.target) THEN ts
                     ELSE Append(ts, m.target)
  IN [p EXCEPT !.c = FoldLeft(Look, @, FoldLeft(Once, <<>>, p.mx))]

(* With an EDNS0 header the whole is done twice, first as a dry run.       *)
answer_request(c, mx, q) ==
  LET Again(p) == IF q.edns /\ p.ans THEN Part(p.c, p.mx, q) ELSE p
      Done(p) == IF p.ans THEN Additional(p) ELSE p
  IN Done(Again(Part(c, mx, q)))

Query(q) ==
  \E a \in {answer_request(store, mxnames, q)} : store' = a.c /\ mxnames' = a.mx

(* forward_query asks whether a name that is not to be forwarded exists.   *)
AskLocal(name) ==
  /\ store' = check_for_local_domain(store, name).c
  /\ UNCHANGED mxnames

-----------------------------------------------------------------------------
(* clear_cache_and_reload: the hosts files are read again, then the names  *)
(* of the leases are added again.                                          *)
Reload(hosts, leases) ==
  /\ store' = lease_update_dns(cache_reload(store, hosts), leases)
  /\ UNCHANGED mxnames

UpdateLeases(leases) ==
  /\ store' = lease_update_dns(store, leases)
  /\ UNCHANGED mxnames

HostsLookup(name) ==
  /\ store' = a_record_from_hosts(store, name).c
  /\ UNCHANGED mxnames

Older(c) ==
  [c EXCEPT !.rec = [i \in Ids |-> IF @[i].ttl > 0 THEN [@[i] EXCEPT !.ttl = @ - 1]
                                   ELSE @[i]]]

Tick ==
  /\ store' = Older(store) /\ store' # store
  /\ UNCHANGED mxnames

Init == store = cache_reload(cache_init, <<>>) /\ mxnames = MxNames

Next ==
  \/ \E r \in Replies : Reply(r)
  \/ \E q \in Questions : Query(q)
  \/ \E n \in Probed : AskLocal(n) \/ HostsLookup(n)
  \/ \E h \in HostsFiles, l \in LeaseSets : Reload(h, l)
  \/ \E l \in LeaseSets : UpdateLeases(l)
  \/ Tick

Spec == Init /\ [][Next]_vars
-----------------------------------------------------------------------------
(* The records that can be found through the chains.                       *)
Chained == UNION {ToSet(store.chain[b]) : b \in Buckets}

StoreTypeOK ==
  /\ StoreType
  /\ Len(mxnames) = Len(MxNames) /\ ToSet(mxnames) = ToSet(MxNames)

(* Every record for upstream answers is either on the list or in the       *)
(* insertion that was broken off, once; it is on the one chain of its name *)
(* exactly while it is in use; every chain holds reverse records, others   *)
(* and immortal ones in this order, as the comment in cache_hash demands   *)
(* and both the searches by address and the collection of expired records  *)
(* rely on; no long name is lost or used twice.  Everything has its type.  *)
StoreConsistent ==
  LET c == store
      class(i) == IF c.rec[i].rev THEN 1 ELSE IF c.rec[i].immortal THEN 3 ELSE 2
  IN /\ StoreTypeOK
     /\ ToSet(c.lru) \cup ToSet(c.new_chain) = Slots
     /\ Len(c.lru) + Len(c.new_chain) = cachesize
     /\ Chained = {i \in Ids : InUse(c.rec[i])} \ ToSet(c.new_chain)
     /\ \A b \in Buckets :
          /\ IsInjective(c.chain[b])
          /\ \A k \in DOMAIN c.chain[b] : Bucket[c.rec[c.chain[b][k]].name] = b
          /\ \A k \in 1 .. Len(c.chain[b]) - 1 :
               class(c.chain[b][k]) <= class(c.chain[b][k + 1])
     /\ c.bignames_left + c.big_free
          + Cardinality({i \in Slots : c.rec[i].name \in BigNames}) = BigMax

(* A search returns each live record it is asked for once and no other,    *)
(* although it reads its answers off the head of the list of recent use:   *)
(* the records it wants must all have been moved there, in one run.  Only  *)
(* a CNAME whose target expired meanwhile may be given or not.             *)
LookupExact ==
  LET rec(i) == store.rec[i]
      live == {i \in Chained : ~Dead(rec(i), TRUE)}
      fine == {i \in live : rec(i).to = 0 \/ ~Dead(rec(rec(i).to), TRUE)}
      Right(ans, Match(_)) ==
        /\ IsInjective(ans)
        /\ {i \in fine : Match(rec(i))} \subseteq ToSet(ans)
        /\ ToSet(ans) \subseteq {i \in live : Match(rec(i))}
  IN /\ \A n \in Names, p \in {{"A", "CNAME"}, {"CNAME"}, {"hosts", "dhcp"}} :
          Right(cache_find_by_name(store, n, p, TRUE).ans,
                LAMBDA r : r.fwd /\ r.name = n /\ {r.type, r.from} \cap p # {})
     /\ \A x \in Addrs :
          Right(cache_find_by_addr(store, x, "A", TRUE).ans,
                LAMBDA r : r.rev /\ r.type = "A" /\ r.addr = x)

(* The last record of the list is shadowed: a lease (or one of its         *)
(* aliases) has taken the name since it was stored.                        *)
Shadowed(c) ==
  LET r == c.rec[Last(c.lru)]
  IN r.fwd /\ \E i \in Chained \cap Extra : c.rec[i].fwd /\ c.rec[i].name = r.name

FreshEntry == Entry(NoName, "AAAA", NULL, FALSE, "nodata", 1)

(* When the last record of the list is in use, cache_insert always makes   *)
(* room by discarding what that record stands for, however the records     *)
(* are related, unless the name of that record is shadowed.                *)
RoomUnlessShadowed ==
  LET Shadowless(c) == Busy(MakeRoom(c, FreshEntry)) => Shadowed(ScanAll(c, NULL, "A", TRUE))
      Room(c) == c.lru # <<>> => Shadowless(c)
  IN \A n \in Names : Room(ScanName(store, n, "AAAA", TRUE, 0).c)

(* answer_request follows CNAMEs with a goto and no limit.  Whatever       *)
(* replies, hosts files and leases have been stored, no question makes it  *)
(* run in a circle.                                                        *)
AnswersTerminate ==
  \A n \in Names, type \in {"A", "AAAA"} :
    ~AskName([c |-> store, name |-> n, more |-> FALSE, rrs |-> <<>>, ans |-> FALSE,
              auth |-> TRUE, nxdomain |-> FALSE],
             [type |-> type, sec |-> FALSE, localise |-> FALSE], type).more

-----------------------------------------------------------------------------
(* The sets of records that a reply speaks of: along the CNAMEs from the   *)
(* name of the question to the name that has the addresses, or none.       *)
Cnames(reply, n) == SelectSeq(reply.rrs, LAMBDA rr : rr.name = n /\ rr.type = "CNAME")

Path(reply) ==
  LET path[k \in 0 .. cname_max] ==
        IF k = 0 THEN <<reply.name>>
        ELSE LET to == path[k - 1]
                 more == Cnames(reply, Last(to))
             IN IF more = <<>> THEN to ELSE Append(to, more[1].target)
  IN path[cname_max]

StoreKeys == (Names \X Types) \cup (Addrs \X {"PTR"})

Capped(ttl) == IF max_cache_ttl # 0 THEN Later(ttl, max_cache_ttl) ELSE ttl

RRset(key, data, ttl) == [key |-> key, data |-> data, ttl |-> Capped(ttl)]

Says(reply) ==
  LET path == Path(reply)
      last == Last(path)
      cn == {LET rr == Cnames(reply, path[k])[1]
             IN RRset(<<path[k], "CNAME">>, rr.target, rr.ttl) : k \in 1 .. Len(path) - 1}
      ofType(n, t) == {rr \in ToSet(reply.rrs) : rr.name = n /\ rr.type = t}
      found == IF reply.ptr = NULL
               THEN {RRset(<<last, reply.type>>, rr.addr, rr.ttl) : rr \in ofType(last, reply.type)}
               ELSE {RRset(<<reply.ptr, "PTR">>, rr.target, rr.ttl) : rr \in ofType(reply.name, "PTR")}
      least == CHOOSE t \in {x.ttl : x \in cn} : \A x \in cn : t <= x.ttl
      soa == find_soa(reply)
      none == IF reply.nx THEN "nxdomain" ELSE "nodata"
      neg == IF reply.ptr # NULL
             THEN IF soa = 0 THEN {} ELSE {RRset(<<reply.ptr, "PTR">>, none, soa)}
             ELSE IF soa = 0 /\ cn = {} THEN {}
             ELSE {RRset(<<last, reply.type>>, none, IF soa = 0 THEN least ELSE soa)}
      b == Bogus(reply)
      all == IF b # <<>> /\ ~reply.nx
             THEN {RRset(<<b[1].name, "A">>, "nxdomain", b[1].ttl)}
             ELSE (IF reply.ptr = NULL THEN cn ELSE {}) \cup (IF found = {} THEN neg ELSE found)
  IN {x \in all : x.ttl > 0}

(* What may be learned: complete replies, with NXDOMAIN or without.        *)
Sayings ==
  LET good == {r \in Replies : r.keep /\ \A k \in DOMAIN r.rrs : r.rrs[k].type # "BAD"}
  IN {Says(r) : r \in good} \cup {Says([r EXCEPT !.nx = FALSE]) : r \in good}

FragileKeys == BigNames \X Types

(* What the store knows from upstream.                                     *)
Known ==
  LET data(r) == IF r.neg # "" THEN r.neg
                 ELSE IF r.type = "CNAME" THEN store.rec[r.to].name
                 ELSE IF r.rev THEN r.name ELSE r.addr
      key(r) == IF r.rev THEN <<r.addr, "PTR">> ELSE <<r.name, r.type>>
      live == {i \in Chained \cap Slots :
                 store.rec[i].ttl > 0 /\ ~is_outdated_cname_pointer(store.rec[i])}
  IN {LET r == store.rec[i] IN [key |-> key(r), data |-> data(r), ttl |-> r.ttl] : i \in live}

Abstract ==
  INSTANCE DnsStore WITH
    rrs <- Known, Keys <- StoreKeys, Fragile <- FragileKeys, Replies <- Sayings

(* The cache, with its list of recent use, its insertions that can break   *)
(* off half way, its CNAMEs that refer to records by address and serial    *)
(* number, and its eviction, implements the store of DnsStore: what it     *)
(* knows of a name is what one reply said, whole, until it is forgotten.   *)
(* Long names are the exception: when one is evicted its name is           *)
(* overwritten before its other records are looked for.                    *)
StoreImplemented == Abstract!Spec
=============================================================================
