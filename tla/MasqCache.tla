----------------------------- MODULE MasqCache -----------------------------
(***************************************************************************)
(* dnsmasq: the store of DNS records (cache.c).                            *)
(*                                                                         *)
(* The cachesize records for upstream answers are allocated once and stay  *)
(* on a list ordered by last use (lru, head first); records of hosts files *)
(* and leases are allocated beside them and are only on the hash chains.   *)
(* A call runs to completion, so an operator maps the state of the store   *)
(* before the call to the state after it; the callers are in MasqAnswer.   *)
(*                                                                         *)
(* ttl is the time left (ttd - now).  The pair (cache, uid) by which a     *)
(* CNAME refers to its target is the field to: cache_free gives the        *)
(* target a new uid, here it sets to := 0 in the CNAMEs that refer to it.  *)
(***************************************************************************)
EXTENDS Integers, FiniteSets, SequencesExt

CONSTANTS
  Names, Addrs,
  NoName,              \* the name of a negative reverse record
  BigNames,            \* the names longer than SMALLDNAME
  NULL,
  Bucket,              \* hash_bucket: the number of a name's chain
  AddrBucket,          \* the hash of an address in add_hosts_entry
  cachesize,
  Spares,              \* how many more records malloc can provide
  BigMax,              \* cachesize / 10: how many long names may be stored
  cnames,              \* the --cname options: [alias, target]
  Qualified,           \* a name of a hosts file with the default domain: the
                       \* name itself without --expand-hosts or if it has one
  max_cache_ttl,       \* 0 for no limit
  MaxTtl

Slots == 1 .. cachesize
Extra == cachesize + 1 .. cachesize + Spares
Ids == Slots \cup Extra
AnyName == Names \cup {NoName}
Buckets == {Bucket[n] : n \in AnyName}

ASSUME CacheAssumption ==
  /\ NoName \notin Names /\ NULL \notin Addrs /\ BigNames \subseteq Names
  /\ cachesize \in Nat /\ Spares \in Nat /\ BigMax \in Nat
  /\ Buckets \subseteq Nat /\ IsFiniteSet(Names) /\ IsFiniteSet(Addrs)
  /\ max_cache_ttl \in Nat /\ MaxTtl \in Nat
  \* an alias follows the aliases it refers to, and none is given twice
  /\ \A i, j \in DOMAIN cnames :
       /\ cnames[i].target = cnames[j].alias => j < i
       /\ cnames[i].alias = cnames[j].alias => i = j

VARIABLE store

Types == {"A", "AAAA", "CNAME"}

Rec ==
  [ name : AnyName, type : Types, fwd : BOOLEAN, rev : BOOLEAN,
    immortal : BOOLEAN, from : {"cache", "hosts", "dhcp"},
    neg : {"", "nodata", "nxdomain"}, addr : Addrs \cup {NULL},
    to : Ids \cup {0}, ttl : 0 .. MaxTtl ]

(* A record with neither F_FORWARD nor F_REVERSE is free.                  *)
Unused ==
  [ name |-> NoName, type |-> "A", fwd |-> FALSE, rev |-> FALSE,
    immortal |-> FALSE, from |-> "cache", neg |-> "", addr |-> NULL,
    to |-> 0, ttl |-> 0 ]

StoreType ==
  /\ store.rec \in [Ids -> Rec]
  /\ store.lru \in Seq(Slots)
  /\ store.chain \in [Buckets -> Seq(Ids)]
  /\ store.new_chain \in Seq(Slots)
  /\ store.insert_error \in BOOLEAN
  /\ store.bignames_left \in 0 .. BigMax
  /\ store.big_free \in 0 .. BigMax

(* cache_init: every record is free and on the list.                       *)
cache_init ==
  [ rec |-> [i \in Ids |-> Unused], lru |-> Reverse([i \in Slots |-> i]),
    chain |-> [b \in Buckets |-> <<>>], new_chain |-> <<>>,
    insert_error |-> FALSE, bignames_left |-> BigMax, big_free |-> 0 ]

-----------------------------------------------------------------------------
InUse(r) == r.fwd \/ r.rev
IsLocal(r) == r.from # "cache"
One(b) == IF b THEN 1 ELSE 0

(* Where Test first holds in s, from position k on; past the end if never. *)
Find(s, k, Test(_)) ==
  LET n == SelectInSubSeq(s, k, Len(s), Test)
  IN IF n = 0 THEN Len(s) + 1 ELSE n

is_outdated_cname_pointer(r) == r.type = "CNAME" /\ r.to = 0

is_expired(r) == ~r.immortal /\ r.ttl = 0

(* now is 0 in the calls made while hosts or leases are read: then nothing *)
(* has expired.                                                            *)
Dead(r, clock) == (clock /\ is_expired(r)) \/ is_outdated_cname_pointer(r)

(* Fault: every record goes to the front of its chain.                     *)
FaultyHash(c, i) == [c EXCEPT !.chain[Bucket[c.rec[i].name]] = <<i>> \o @]

(* cache_hash: reverse records first, then the others, those that are      *)
(* immortal last.                                                          *)
cache_hash(c, i) ==
  LET r == c.rec[i]
      s == c.chain[Bucket[r.name]]
      rest == Find(s, 1, LAMBDA j : ~c.rec[j].rev)
      at == IF r.rev THEN 1
            ELSE IF r.immortal THEN Find(s, rest, LAMBDA j : c.rec[j].immortal)
            ELSE rest
  IN [c EXCEPT !.chain[Bucket[r.name]] = InsertAt(s, at, i)]

(* cache_free, after cache_unlink if the record is on the list: it goes to *)
(* the end of the list, its long name to the free ones.                    *)
cache_free(c, i) ==
  [c EXCEPT !.rec = [j \in Ids |-> IF j = i THEN Unused
                                   ELSE IF @[j].to = i /\ i \in Slots
                                   THEN [@[j] EXCEPT !.to = 0] ELSE @[j]],
            !.lru = Append(Remove(@, i), i),
            !.big_free = @ + One(c.rec[i].name \in BigNames)]

(* cache_unlink and cache_link: a record that was used moves to the head.  *)
Promote(c, i) == [c EXCEPT !.lru = <<i>> \o Remove(@, i)]

Unhash(c, i) == [c EXCEPT !.chain[Bucket[c.rec[i].name]] = Remove(@, i)]

(* A record leaves its chain; one of a lease is no longer known to anyone. *)
Drop(c, i) ==
  IF IsLocal(c.rec[i]) THEN [Unhash(c, i) EXCEPT !.rec[i] = Unused]
  ELSE cache_free(Unhash(c, i), i)

-----------------------------------------------------------------------------
(* Fault: a record of another type never makes way.                        *)
FaultyScanName(c, name, type, clock, self) ==
  LET Step(a, i) ==
        LET r == a.c.rec[i]
        IN IF ~a.ok THEN a
           ELSE IF Dead(r, clock) THEN [a EXCEPT !.c = Drop(@, i)]
           ELSE IF ~(r.fwd /\ r.name = name /\ r.type = type) THEN a
           ELSE IF IsLocal(r) THEN [a EXCEPT !.ok = FALSE]
           ELSE [a EXCEPT !.c = Drop(@, i)]
  IN FoldLeft(Step, [c |-> c, ok |-> TRUE], c.chain[Bucket[name]])

(* cache_scan_free with F_FORWARD: what is dead in the name's chain goes,  *)
(* and so do the records of the name, until one of hosts or leases is met. *)
(* self # 0 if the caller's name is the one stored in that record: a long  *)
(* name is overwritten when the record is freed and matches nothing more.  *)
ScanName(c, name, type, clock, self) ==
  LET Step(a, i) ==
        LET r == a.c.rec[i]
            lost == name \in BigNames /\ self # 0 /\ ~InUse(a.c.rec[self])
            match == /\ r.fwd /\ r.name = name /\ ~lost
                     /\ r.type = type \/ "CNAME" \in {r.type, type}
        IN IF ~a.ok THEN a
           ELSE IF Dead(r, clock) THEN [a EXCEPT !.c = Drop(@, i)]
           ELSE IF ~match THEN a
           ELSE IF IsLocal(r) THEN [a EXCEPT !.ok = FALSE]
           ELSE [a EXCEPT !.c = Drop(@, i)]
  IN FoldLeft(Step, [c |-> c, ok |-> TRUE], c.chain[Bucket[name]])

(* The chains one after the other, each up to where Test fails.            *)
Walk(c, Test(_)) ==
  LET Part(b) == SubSeq(c.chain[b], 1, Find(c.chain[b], 1, LAMBDA i : ~Test(c.rec[i])) - 1)
      order == SetToSortSeq(Buckets, <)
  IN FlattenSeq([k \in DOMAIN order |-> Part(order[k])])

(* cache_scan_free with F_REVERSE, or (addr = NULL) with no flags: what    *)
(* expired goes from every chain, and the upstream records of the address. *)
ScanAll(c, addr, type, clock) ==
  LET Step(a, i) ==
        LET r == a.rec[i]
            match == r.rev /\ ~IsLocal(r) /\ r.type = type /\ r.addr = addr
        IN IF (clock /\ is_expired(r)) \/ (addr # NULL /\ match)
           THEN Drop(a, i) ELSE a
  IN FoldLeft(Step, c, Walk(c, LAMBDA r : r.rev \/ ~r.immortal))

cache_start_insert(c) ==
  [FoldLeft(cache_free, c, c.new_chain)
     EXCEPT !.new_chain = <<>>, !.insert_error = FALSE]

(* The record that cache_insert would use is still in use.                 *)
Busy(c) == c.lru # <<>> /\ InUse(c.rec[Last(c.lru)])

(* Fault: the last record is looked for by its address only.               *)
FaultySpill(c) == ScanAll(c, c.rec[Last(c.lru)].addr, c.rec[Last(c.lru)].type, TRUE)

(* Room is made by discarding what the last record of the list stands for. *)
Spill(c) ==
  LET r == c.rec[Last(c.lru)]
  IN IF r.fwd THEN ScanName(c, r.name, r.type, TRUE, Last(c.lru)).c
     ELSE ScanAll(c, r.addr, r.type, TRUE)

(* The loop of cache_insert: expired records everywhere are tried before   *)
(* live ones are discarded; a reverse insertion has already done that.     *)
MakeRoom(c, e) ==
  LET Spilled(d) == IF Busy(d) THEN Spill(d) ELSE d
  IN Spilled(IF Busy(c) /\ e.fwd THEN ScanAll(c, NULL, "A", TRUE) ELSE c)

Fail(c) == [c EXCEPT !.insert_error = TRUE]

(* The last record of the list is taken, if it is free and there is memory *)
(* for a long name.  The newest record of an insertion is at the head of   *)
(* new_chain.                                                              *)
Take(c, e) ==
  LET big == e.name \in BigNames
      new == Last(c.lru)
      ttl == IF max_cache_ttl # 0 /\ max_cache_ttl < e.ttl
             THEN max_cache_ttl ELSE e.ttl
  IN IF c.lru = <<>> \/ Busy(c) THEN Fail(c)
     ELSE IF big /\ c.big_free = 0 /\ c.bignames_left = 0 THEN Fail(c)
     ELSE [c EXCEPT
             !.lru = Front(@),
             !.new_chain = <<new>> \o @,
             !.big_free = @ - One(big /\ @ > 0),
             !.bignames_left = @ - One(big /\ c.big_free = 0),
             !.rec[new] = [Unused EXCEPT
                !.name = e.name, !.type = e.type, !.fwd = e.fwd, !.rev = e.rev,
                !.neg = e.neg, !.addr = e.addr, !.ttl = ttl]]

(* cache_insert of e: [name, addr, type, fwd, rev, neg, ttl].              *)
cache_insert(c, e) ==
  LET Scanned(s) == IF s.ok THEN Take(MakeRoom(s.c, e), e) ELSE Fail(s.c)
  IN IF c.insert_error THEN c
     ELSE Scanned(IF e.fwd THEN ScanName(c, e.name, e.type, TRUE, 0)
                  ELSE [c |-> ScanAll(c, e.addr, e.type, TRUE), ok |-> TRUE])

(* cache_end_insert: commit, newest first, dropping CNAMEs with no target. *)
cache_end_insert(c) ==
  LET Commit(d, i) ==
        IF is_outdated_cname_pointer(d.rec[i]) THEN cache_free(d, i)
        ELSE Promote(cache_hash(d, i), i)
  IN IF c.insert_error THEN c
     ELSE [FoldLeft(Commit, c, c.new_chain) EXCEPT !.new_chain = <<>>]

-----------------------------------------------------------------------------
(* The answers of a search: those of hosts and leases, in chain order,     *)
(* then the run of matching records at the head of the list.               *)
Answers(c, locals, Match(_)) ==
  locals \o SubSeq(c.lru, 1, Find(c.lru, 1, LAMBDA i : ~Match(c.rec[i])) - 1)

(* Fault: a record that was found keeps its place on the list.             *)
FaultyFound(c, i) == c

(* What a search does with a record it is after.                           *)
Found(c, i) == IF IsLocal(c.rec[i]) THEN c ELSE Promote(c, i)

(* Round robin: the matches after the first that are of its class move in  *)
(* front of it.                                                            *)
Rotate(c, b, m) ==
  LET class(i) == <<c.rec[i].rev, c.rec[i].immortal>>
      mv == SelectSeq(Tail(m), LAMBDA i : class(i) = class(m[1]))
      s == SelectSeq(c.chain[b], LAMBDA i : ~Contains(mv, i))
      at == Find(s, 1, LAMBDA i : i = m[1])
  IN IF m = <<>> THEN c
     ELSE [c EXCEPT !.chain[b] = SubSeq(s, 1, at - 1) \o mv \o SubSeq(s, at, Len(s))]

(* The name that the first CNAME among the answers refers to; a long one   *)
(* is lost if the search from c to d has freed its record.                 *)
TargetName(c, d, ans) ==
  LET k == Find(ans, 1, LAMBDA i : d.rec[i].type = "CNAME")
      to == IF k > Len(ans) THEN 0 ELSE c.rec[ans[k]].to
  IN IF to = 0 \/ (c.rec[to].name \in BigNames /\ ~InUse(d.rec[to])) THEN NULL
     ELSE c.rec[to].name

(* cache_find_by_name, called until it returns NULL.  prot is a set of     *)
(* types or origins.                                                       *)
cache_find_by_name(c, name, prot, clock) ==
  LET Match(r) == r.fwd /\ r.name = name /\ {r.type, r.from} \cap prot # {}
      Step(a, i) ==
        LET r == a.c.rec[i]
        IN IF Dead(r, clock) THEN [a EXCEPT !.c = Drop(@, i)]
           ELSE IF Match(r) THEN [c |-> Found(a.c, i), m |-> Append(a.m, i)]
           ELSE a
      Result(d, m, locals, ans) ==
        [c |-> Rotate(d, Bucket[name], m), ans |-> ans, locals |-> locals,
         target |-> TargetName(c, d, ans)]
      Locals(m) == SelectSeq(m, LAMBDA i : i \in Extra)
      End(f) == Result(f.c, f.m, Locals(f.m), Answers(f.c, Locals(f.m), Match))
  IN End(FoldLeft(Step, [c |-> c, m |-> <<>>], c.chain[Bucket[name]]))

(* cache_find_by_addr, likewise: only the reverse records at the start of  *)
(* each chain are looked at.                                               *)
cache_find_by_addr(c, addr, type, clock) ==
  LET Match(r) == r.rev /\ r.type = type /\ r.addr = addr
      Step(a, i) ==
        LET r == a.c.rec[i]
        IN IF clock /\ is_expired(r) THEN [a EXCEPT !.c = Drop(@, i)]
           ELSE IF Match(r) THEN [c |-> Found(a.c, i), m |-> Append(a.m, i)]
           ELSE a
      End(f) ==
        [c |-> f.c,
         ans |-> Answers(f.c, SelectSeq(f.m, LAMBDA i : i \in Extra), Match)]
  IN End(FoldLeft(Step, [c |-> c, m |-> <<>>], Walk(c, LAMBDA r : r.rev)))

-----------------------------------------------------------------------------
FreeExtra(c) == {i \in Extra : ~InUse(c.rec[i]) /\ \A j \in Ids : c.rec[j].to # i}

NewId(c) == CHOOSE i \in FreeExtra(c) : \A j \in FreeExtra(c) : i <= j

(* malloc (or dhcp_spare) for a record of hosts or leases, put on its      *)
(* chain; nothing happens when there is no memory.                         *)
Allocate(c, r) ==
  LET Put(i) == cache_hash([c EXCEPT !.rec[i] = r], i)
  IN IF FreeExtra(c) = {} THEN c ELSE Put(NewId(c))

(* The aliases of the record i, which was just added, and theirs.          *)
Aliases(c, i) ==
  LET Alias(e, t) == [c.rec[i] EXCEPT !.name = e.alias, !.type = "CNAME",
                        !.rev = FALSE, !.addr = NULL, !.to = t]
      Step(a, e) ==
        LET targets == {t \in a.new : a.c.rec[t].name = e.target}
        IN IF targets = {} \/ FreeExtra(a.c) = {} THEN a
           ELSE [c |-> Allocate(a.c, Alias(e, CHOOSE t \in targets : TRUE)),
                 new |-> a.new \cup {NewId(a.c)}]
  IN FoldLeft(Step, [c |-> c, new |-> {i}], cnames).c

add_hosts_cname(c, i) == Aliases(c, i)

add_dhcp_cname(c, i) == Aliases(c, i)

(* The records reached from i through next, which ends at 0: the head of   *)
(* the list, whose records are all free while hosts files are read.        *)
Reached(next, i) ==
  LET from[k \in 0 .. Spares] ==
        IF k = 0 THEN <<i>>
        ELSE LET s == from[k - 1]
             IN IF Last(s) = 0 THEN s ELSE Append(s, next[Last(s)])
  IN ToSet(from[Spares]) \ {0}

(* add_hosts_entry of h: [name, addr, type].  rhash and next are the       *)
(* chains by address, which share the field next with the answers of       *)
(* cache_find_by_name.                                                     *)
add_hosts_entry(a, h) ==
  LET j == AddrBucket[h.addr]
      Relinked(m) ==
        [i \in Extra |->
           IF ~Contains(m, i) THEN a.next[i]
           ELSE IF i = Last(m) THEN 0 ELSE m[Find(m, 1, LAMBDA k : k = i) + 1]]
      Same(r) == r.addr = h.addr /\ r.type = h.type
      Put(c, known) ==
        Allocate(c, [Unused EXCEPT !.name = h.name, !.type = h.type, !.fwd = TRUE,
                       !.rev = ~known, !.immortal = TRUE, !.from = "hosts",
                       !.addr = h.addr])
      Add(c, next, exists, known, i) ==
        [c |-> IF exists THEN Put(c, known) ELSE add_hosts_cname(Put(c, known), i),
         rhash |-> IF known THEN a.rhash ELSE [a.rhash EXCEPT ![j] = i],
         next |-> IF known THEN next ELSE [next EXCEPT ![i] = a.rhash[j]]]
      Looked(c, ans, next) ==
        LET exists == ans # <<>> /\ c.rec[ans[1]].from = "hosts"
        IN IF exists /\ c.rec[ans[1]].addr = h.addr
           THEN [a EXCEPT !.c = c, !.next = next]
           ELSE Add(c, next, exists,
                    \E i \in Reached(next, a.rhash[j]) : Same(c.rec[i]), NewId(c))
      Search(look) == Looked(look.c, look.ans, Relinked(look.locals))
  IN IF FreeExtra(a.c) = {} THEN a
     ELSE Search(cache_find_by_name(a.c, h.name, {h.type}, FALSE))

(* read_hostsfile: a file is a sequence of lines [addr, type, names], addr  *)
(* or a name NULL where it is malformed.  rehash is left out: the number    *)
(* of chains does not change.                                              *)
read_hostsfile(a, file) ==
  LET Forms(n) ==
        IF n = NULL THEN <<>> ELSE IF Qualified[n] = n THEN <<n>> ELSE <<Qualified[n], n>>
      Add(b, line, n) ==
        FoldLeft(LAMBDA d, m :
                   add_hosts_entry(d, [name |-> m, addr |-> line.addr, type |-> line.type]),
                 b, Forms(n))
      Read(b, line) ==
        IF line.addr = NULL THEN b
        ELSE FoldLeft(LAMBDA d, n : Add(d, line, n), b, line.names)
  IN FoldLeft(Read, a, file)

(* cache_reload: the records of hosts files and of upstream answers go,    *)
(* those of leases stay; the files are read one after the other.  A record *)
(* on the list keeps its place there.  The --host-record options are a     *)
(* file without anything malformed in it.                                  *)
cache_reload(c, hosts) ==
  LET chained == UNION {ToSet(c.chain[b]) : b \in Buckets}
      gone == {i \in chained : c.rec[i].from # "dhcp"}
      long == {i \in gone \cap Slots : c.rec[i].name \in BigNames}
      c1 == [c EXCEPT
               !.chain = [b \in Buckets |-> SelectSeq(@[b], LAMBDA i : i \notin gone)],
               !.rec = [i \in Ids |-> IF i \in gone THEN Unused ELSE @[i]],
               !.big_free = @ + Cardinality(long)]
      none == [j \in {AddrBucket[x] : x \in Addrs} |-> 0]
  IN FoldLeft(read_hostsfile,
              [c |-> c1, rhash |-> none, next |-> [i \in Extra |-> 0]], hosts).c

(* The search for an address of a hosts file by a_record_from_hosts.       *)
a_record_from_hosts(c, name) ==
  LET First(look, k) ==
        [c |-> look.c, addr |-> IF k > Len(look.ans) THEN NULL
                                ELSE look.c.rec[look.ans[k]].addr]
      Hosts(look) == First(look, Find(look.ans, 1, LAMBDA i : look.c.rec[i].from = "hosts"))
  IN Hosts(cache_find_by_name(c, name, {"A"}, TRUE))

cache_unhash_dhcp(c) ==
  [c EXCEPT
     !.chain = [b \in Buckets |-> SelectSeq(@[b], LAMBDA i : c.rec[i].from # "dhcp")],
     !.rec = [i \in Ids |-> IF @[i].from = "dhcp" THEN Unused ELSE @[i]]]

(* cache_add_dhcp_entry of l: [name, addr, type, ttl], ttl = 0 for ever.   *)
cache_add_dhcp_entry(c, l) ==
  LET Put(d, rev) ==
        Allocate(d, [Unused EXCEPT !.name = l.name, !.type = l.type, !.fwd = TRUE,
                       !.rev = rev, !.immortal = (l.ttl = 0), !.from = "dhcp",
                       !.addr = l.addr, !.ttl = l.ttl])
      Add(d, rev) == IF FreeExtra(d) = {} THEN d ELSE add_dhcp_cname(Put(d, rev), NewId(d))
      ByAddr(by) ==
        IF by.ans = <<>> THEN Add(by.c, TRUE)
        ELSE IF by.c.rec[by.ans[1]].neg = "" THEN Add(by.c, FALSE)
        ELSE Add(ScanAll(by.c, l.addr, l.type, FALSE), TRUE)
      Free(d) == ByAddr(cache_find_by_addr(d, l.addr, l.type, FALSE))
      Cleared(d, ans, k) ==
        IF k > Len(ans) THEN d ELSE ScanName(d, l.name, d.rec[ans[k]].type, FALSE, 0).c
      ByName(d, ans) ==
        LET hosts == {i \in ToSet(ans) : d.rec[i].from = "hosts" /\ d.rec[i].type # "CNAME"}
            cached == Cleared(d, ans, Find(ans, 1, LAMBDA i : ~IsLocal(d.rec[i])))
        IN IF hosts # {} THEN cached ELSE Free(cached)
      Search(look) == ByName(look.c, look.ans)
  IN Search(cache_find_by_name(c, l.name, {l.type, "CNAME"}, FALSE))

(* lease_update_dns: the records of leases are made anew.                  *)
lease_update_dns(c, leases) ==
  FoldLeft(cache_add_dhcp_entry, cache_unhash_dhcp(c), leases)
=============================================================================
