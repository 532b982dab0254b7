----------------------------- MODULE DnrdMaster -----------------------------
(* dnrd's own little name server (master.c) and the part of dns.c that     *)
(* reads packets for it: the database made of the configuration files, the *)
(* answers assembled from it, and the reload.                              *)
(*                                                                         *)
(* A file is the sequence of its lines, <<>> also if it cannot be opened.  *)
(* A line of the master file or of a hosts file is                         *)
(*   [op |-> "ip", ip, words]          an address (<<>> if it is none) and *)
(*                                     host names                          *)
(*   [op |-> "domain", words]          the domain, its servers and +auth   *)
(*   [op |-> "hosts", file, words]     a hosts file and a domain for it    *)
(*   [op |-> "other", words]           a comment or an unknown directive   *)
(* with words no longer than the buffers they are read into.               *)
EXTENDS DnsBytes

DNS_TYPE_A == 1
DNS_TYPE_NS == 2
DNS_TYPE_PTR == 12
DNS_CLASS_INET == 1
DEFAULT_TTL == 3600
UDP_MAXSIZE == 512
NameSize == 256

ARPADOMAIN == <<46, 105, 110, 45, 97, 100, 100, 114, 46, 97, 114, 112, 97>>
Localhost == <<108, 111, 99, 97, 108, 104, 111, 115, 116>>
Auth == <<43, 97, 117, 116, 104>>
Plus == 43

-----------------------------------------------------------------------------
(* get_objname: the name at an offset and the offset behind it, -1 for a   *)
(* bad one.  Every character is valid (tolerant_mode).  For the root name  *)
(* the code writes the end mark before the string: it is taken as empty,   *)
(* and no query for it is modelled.                                        *)
RECURSIVE ObjLabels(_, _)
ObjLabels(msg, s) ==
  LET c == Byte(msg, s.i)
      i == s.i + 1
      to == (c - 192) * 256 + Byte(msg, i)
      bad == [s EXCEPT !.end = -1]
  IN IF c = 0
     THEN [s EXCEPT !.name = IF @ = <<>> THEN @ ELSE Front(@),
                    !.end = IF s.compressed # 0 THEN s.compressed ELSE i]
     ELSE CASE i >= Len(msg) -> bad
            [] i < Len(msg) /\ c >= 192 ->
                 IF s.depth + 1 >= Len(msg) \/ s.depth + 1 > UDP_MAXSIZE \/ to >= Len(msg) THEN bad
                 ELSE ObjLabels(msg, [s EXCEPT !.i = to, !.depth = @ + 1,
                                               !.compressed = IF @ = 0 THEN i + 1 ELSE @])
            [] i < Len(msg) /\ c < 64 ->
                 IF Len(s.name) + c + 1 >= NameSize \/ i + c >= Len(msg) THEN bad
                 ELSE ObjLabels(msg, [s EXCEPT !.i = i + c,
                                               !.name = @ \o SubSeq(msg, i + 1, i + c) \o <<Dot>>])
            [] OTHER -> bad

get_objname(msg, index) ==
  LET s == [i |-> index, name |-> <<>>, depth |-> 0, compressed |-> 0, end |-> -1]
  IN IF index < Header \/ index >= Len(msg) THEN s ELSE ObjLabels(msg, s)

(* read_record: what it reads of one record, i = -1 for a bad one.         *)
NoRecord == [i |-> -1, name |-> <<>>, type |-> 0, data |-> <<>>]

FixedPart(msg, n, i, question) ==
  CASE i < 0 -> NoRecord
    [] i >= 0 /\ i + 4 > Len(msg) -> NoRecord
    [] i >= 0 /\ i + 4 <= Len(msg) /\ question ->
         [i |-> i + 4, name |-> n, type |-> GETSHORT(msg, i), data |-> <<>>]
    [] OTHER ->
         IF i + 10 > Len(msg) THEN NoRecord
         ELSE IF i + 10 + GETSHORT(msg, i + 8) > Len(msg) THEN NoRecord
         ELSE [i |-> i + 10 + GETSHORT(msg, i + 8), name |-> n, type |-> GETSHORT(msg, i),
               data |-> SubSeq(msg, i + 11, i + 10 + GETSHORT(msg, i + 8))]

read_record(msg, index, question) ==
  LET Named(n) == FixedPart(msg, n.name, n.end, question)
  IN Named(get_objname(msg, index))

(* The walk of dump_dnspacket over the whole packet: the records it shows, *)
(* bad if it gives up with -1.                                             *)
Shown(a, r) ==
  IF a.bad \/ r.i < 0 THEN [a EXCEPT !.bad = TRUE]
  ELSE [a EXCEPT !.i = r.i, !.rrs = Append(@, r)]

dump_dnspacket(msg) ==
  LET From(q) == FoldLeft(LAMBDA a, k : Shown(a, read_record(msg, a.i, FALSE)),
                          [i |-> q.i, bad |-> q.i < 0, rrs |-> <<>>],
                          [k \in 1 .. ancount(msg) + nscount(msg) + arcount(msg) |-> k])
  IN From(read_record(msg, Header, TRUE))

(* parse_query: the name in lower case; ok is FALSE where it gives up.     *)
(* GET_OPCODE(flags) != 0 tests the mask 0xe800.                           *)
parse_query(msg) ==
  LET Named(n) ==
        IF qdcount(msg) # 0 /\ n.end >= 0 /\ n.end + 4 <= Len(msg)
        THEN [ok |-> TRUE, name |-> LowerName(n.name),
              type |-> GETSHORT(msg, n.end), class |-> GETSHORT(msg, n.end + 2),
              opcode |-> \E m \in {128, 64, 32, 8} : HasBit(Byte(msg, 2), m)]
        ELSE [ok |-> FALSE, opcode |-> FALSE, name |-> <<>>, type |-> 0, class |-> 0]
  IN Named(get_objname(msg, Header))

-----------------------------------------------------------------------------
(* The database dbv: a sequence of records.  data is the address of a      *)
(* NAMEIP record and the server of a DNS record.                           *)
get_stringcode(s) ==
  FoldLeft(LAMBDA a, c : (a + Lower(c)) % 256, 0, s) + 256 * Len(s)

Arpa(ip) == Dotted(<<Decimal(ip[4]), Decimal(ip[3]), Decimal(ip[2]), Decimal(ip[1])>>)

(* The records the calls of add_record append, for each of some names.     *)
Records(type, objects, data) ==
  [k \in DOMAIN objects |-> [type |-> type, object |-> LowerName(objects[k]), data |-> data]] \o <<>>

add_nameip(names, ip) == IF ip = <<>> THEN <<>> ELSE Records("NAMEIP", names, ip)
add_dns(domain, dns) == Records("DNS", <<domain>>, LowerName(dns))
add_authority(domain) == Records("AUTHORITY", <<domain>>, <<>>)

get_hostname(word, domain) ==
  LET In(w) == IF domain = <<>> THEN w ELSE w \o <<Dot>> \o domain
  IN CASE Head(word) = Plus -> word
       [] Head(word) # Plus /\ Last(word) = Plus -> In(Front(word))
       [] Head(word) # Plus /\ Last(word) = Dot -> Front(word)
       [] OTHER -> IF SelectInSeq(word, LAMBDA c : c = Dot) = 0 THEN In(word) ELSE word

(* The names the loops over get_hostname take: up to the first empty one.  *)
HostNames(words, domain) ==
  LET UpTo(names, k) == IF k = 0 THEN names ELSE SubSeq(names, 1, k - 1)
      Cut(names) == UpTo(names, SelectInSeq(names, LAMBDA n : n = <<>>))
  IN Cut([k \in DOMAIN words |-> get_hostname(words[k], domain)] \o <<>>)

read_hosts(lines, domain) ==
  LET Adds(l) == IF l.op = "ip" THEN add_nameip(HostNames(l.words, domain), l.ip) ELSE <<>>
  IN FlattenSeq([k \in DOMAIN lines |-> Adds(lines[k])])

(* What a line of the master file adds, domain being the one in force.     *)
OrDomain(names, domain) == IF names = <<>> THEN <<domain>> ELSE names

DomainLine(d, words) ==
  FlattenSeq([k \in DOMAIN words |-> IF words[k] = Auth THEN add_authority(d) ELSE add_dns(d, words[k])])

Adds(l, domain, fs) ==
  CASE l.op = "ip" -> add_nameip(OrDomain(HostNames(l.words, domain), domain), l.ip)
    [] l.op = "domain" /\ l.words # <<>> -> DomainLine(domain, HostNames(Tail(l.words), domain))
    [] l.op = "hosts" -> read_hosts(fs[l.file], IF l.words = <<>> THEN domain ELSE Head(l.words))
    [] OTHER -> <<>>

(* fs gives the lines of every file.  junk is what the array `domain'      *)
(* holds before the first domain line: it is not initialised.              *)
DomainAt(lines, k, junk) ==
  LET last == SelectLastInSeq(SubSeq(lines, 1, k), LAMBDA l : l.op = "domain")
  IN IF last = 0 THEN junk ELSE IF lines[last].words = <<>> THEN <<>> ELSE Head(lines[last].words)

read_configuration(lines, fs, junk) ==
  FlattenSeq([k \in DOMAIN lines |-> Adds(lines[k], DomainAt(lines, k, junk), fs)])

read_blacklist(names) == Records("AUTHORITY", names, <<>>)

(* The lookups: 0 for NULL, else the position in the database.             *)
Same(s, t) == s = t /\ get_stringcode(s) = get_stringcode(t)

ptr_lookup(db, arpanum) ==
  SelectInSeq(db, LAMBDA r : r.type = "NAMEIP" /\ Same(Arpa(r.data), arpanum))

name_lookup(db, name) ==
  SelectInSeq(db, LAMBDA r : r.type = "NAMEIP" /\ Same(r.object, name))

authority_lookup(db, domain) ==
  SelectLastInSeq(db, LAMBDA r : r.type = "AUTHORITY" /\ Same(r.object, domain))

(* All records dns_lookup finds, called until it returns NULL.             *)
dns_lookup(db, name) ==
  SelectSeq(db, LAMBDA r : LET k == Len(name) - Len(r.object)
                           IN /\ r.type = "DNS"
                              /\ k = 0 \/ (k > 0 /\ name[k] = Dot)
                              /\ Suffix(name, k) = r.object)

(* master_init: what is there already stays.  With auto_authority dnrd is  *)
(* the authority for the network of each address.                          *)
Network(ip) ==
  LET After(arpaname) == Suffix(arpaname, SelectInSeq(arpaname, LAMBDA c : c = Dot))
  IN After(Arpa(ip) \o ARPADOMAIN)

Authorities(db, domains) ==
  FlattenSeq([k \in DOMAIN domains |->
    IF authority_lookup(db, domains[k]) # 0 \/ (\E j \in 1 .. k - 1 : domains[j] = domains[k])
    THEN <<>> ELSE add_authority(domains[k])])

auto_authority(db) ==
  LET Networks(hosts) == [k \in DOMAIN hosts |-> Network(hosts[k].data)] \o <<>>
  IN db \o Authorities(db, Networks(SelectSeq(db, LAMBDA r : r.type = "NAMEIP")))

master_init(db, fs, junk) ==
  auto_authority(db \o add_nameip(<<Localhost>>, <<127, 0, 0, 1>>)
                    \o add_dns(<<48, 46, 48, 46, 49, 50, 55>> \o ARPADOMAIN, Localhost)
                    \o read_blacklist(fs["blacklist"])
                    \o read_configuration(fs["master"], fs, junk))

-----------------------------------------------------------------------------
(* Answer assembly.  x.packet starts with the twelve bytes of the header,  *)
(* which end_assembly fills in.                                            *)
Labels(labels) ==
  FoldLeft(LAMBDA a, l : a \o <<Len(l) % 64>> \o l, <<>>, labels) \o <<0>>

compile_name(name) ==
  LET UpTo(labels, k) == IF k = 0 THEN labels ELSE SubSeq(labels, 1, k - 1)
      Cut(labels) == UpTo(labels, SelectInSeq(labels, LAMBDA l : l = <<>>))
  IN Labels(Cut(LabelsOf(name)))

compile_namepointer(offset) == <<192, offset % 64>>
compile_objectname == <<192, 12>>
compile_int(n) == PUTSHORT(n)
compile_long(n) == PUTLONG(n)

(* One record, its length filled in by end_rdata.                          *)
Record(owner, type, rdata) ==
  owner \o compile_int(type) \o compile_int(DNS_CLASS_INET) \o compile_long(DEFAULT_TTL)
        \o compile_int(Len(rdata)) \o rdata

begin_assembly(query) ==
  [packet |-> [k \in 1 .. Header |-> 0] \o compile_name(query.name)
              \o compile_int(query.type) \o compile_int(query.class),
   aa |-> 0, rcode |-> 0, ancount |-> 0, nscount |-> 0]

end_assembly(x) ==
  Write(x.packet, 2, <<128 + 4 * x.aa, x.rcode>> \o PUTSHORT(1) \o PUTSHORT(x.ancount)
                     \o PUTSHORT(x.nscount) \o PUTSHORT(0))

(* The servers of the domains that object is in.  pos is the place of the  *)
(* first one's name: the others get a pointer to it, which keeps only six  *)
(* bits of the place.                                                      *)
WithServer(a, rec, owner) ==
  [pos |-> IF a.pos = 0 THEN Len(a.x.packet) ELSE a.pos,
   x |-> [a.x EXCEPT !.packet = @ \o Record(owner, DNS_TYPE_NS, compile_name(rec.data)),
                     !.nscount = @ + 1, !.aa = 1]]

compile_dnsrecords(db, x, object) ==
  FoldLeft(LAMBDA a, rec : WithServer(a, rec, IF a.pos = 0 THEN compile_name(rec.object)
                                              ELSE compile_namepointer(a.pos)),
           [pos |-> 0, x |-> x], dns_lookup(db, object)).x

(* The answer with one record of its own, and the one with servers only.   *)
Answer(db, query, type, rdata) ==
  LET First(x) == [x EXCEPT !.packet = @ \o Record(compile_objectname, type, rdata), !.ancount = 1]
  IN end_assembly(compile_dnsrecords(db, First(begin_assembly(query)), query.name))

Servers(db, query) ==
  LET One(x, rec) ==
        [x EXCEPT !.packet = @ \o Record(compile_objectname, DNS_TYPE_NS, compile_name(rec.data)),
                  !.ancount = @ + 1]
  IN end_assembly([FoldLeft(One, begin_assembly(query), dns_lookup(db, query.name)) EXCEPT !.aa = 1])

(* dnrd is an authority for the name itself or for what is behind its first*)
(* dot: it answers that there is nothing.                                  *)
Negative(db, query) ==
  LET k == SelectInSeq(query.name, LAMBDA c : c = Dot)
  IN IF k # 0 /\ ( \/ authority_lookup(db, query.name) # 0
                   \/ authority_lookup(db, Suffix(query.name, k)) # 0 )
     THEN end_assembly([begin_assembly(query) EXCEPT !.aa = 1])
     ELSE <<>>

(* master_lookup: <<>> if the master has no data.  The answer keeps the id *)
(* of the query.                                                           *)
Handled(query) == query.ok /\ query.class = DNS_CLASS_INET /\ ~query.opcode

LookupPtr(db, query, k) ==
  LET rec == ptr_lookup(db, SubSeq(query.name, 1, k))
  IN IF k < 0 \/ Suffix(query.name, k) # ARPADOMAIN THEN <<>>
     ELSE IF rec # 0 THEN Answer(db, query, DNS_TYPE_PTR, compile_name(db[rec].object))
     ELSE Negative(db, query)

LookupName(db, query, rec) ==
  IF rec # 0 THEN Answer(db, query, DNS_TYPE_A, db[rec].data) ELSE Negative(db, query)

Looked(db, query) ==
  CASE Handled(query) /\ query.type = DNS_TYPE_PTR ->
         LookupPtr(db, query, Len(query.name) - Len(ARPADOMAIN))
    [] Handled(query) /\ query.type = DNS_TYPE_A ->
         LookupName(db, query, name_lookup(db, query.name))
    [] Handled(query) /\ query.type = DNS_TYPE_NS ->
         IF dns_lookup(db, query.name) # <<>> THEN Servers(db, query) ELSE Negative(db, query)
    [] OTHER -> <<>>

master_lookup(db, msg) ==
  LET WithId(answer) == IF answer = <<>> THEN <<>> ELSE SubSeq(msg, 1, 2) \o SubSeq(answer, 3, Len(answer))
  IN WithId(Looked(db, parse_query(msg)))

(* master_dontknow: <<>> for 0.                                            *)
DontKnow(query) ==
  IF Handled(query) THEN end_assembly([begin_assembly(query) EXCEPT !.rcode = 1]) ELSE <<>>

master_dontknow(msg) == DontKnow(parse_query(msg))

(* Fault: the old database is kept.                                        *)
FaultyReinit(m, fs, junk) ==
  IF m.reload THEN [db |-> master_init(m.db, fs, junk), reload |-> FALSE] ELSE m

(* master_reinit: reset_master empties the database, then it is read anew. *)
master_reinit(m, fs, junk) ==
  IF m.reload THEN [db |-> master_init(<<>>, fs, junk), reload |-> FALSE] ELSE m

(* check_query and check_reply: too small or too big, the Z bit, QR.       *)
check_query(msg) ==
  /\ Len(msg) \in Header .. UDP_MAXSIZE
  /\ ~HasBit(Byte(msg, 3), 64)
  /\ ~HasBit(Byte(msg, 2), 128)

check_reply(msg) ==
  /\ Len(msg) >= Header
  /\ ~HasBit(Byte(msg, 3), 64)
  /\ HasBit(Byte(msg, 2), 128)

(* set_srvfail: QR and AA, RA and code 2.                                  *)
set_srvfail(msg) ==
  [msg EXCEPT ![3] = SetBit(SetBit(@, 128), 4), ![4] = 130]
=============================================================================
