# A TLA+ verification of CrossBreeder's daemons

CrossBreeder is an Android package that keeps a few network daemons alive: a
caching DNS relay (dnrd) in front of a DNS and DHCP server (dnsmasq), a port
redirector (rinetd), a one-pixel web server (pixelserv), an entropy daemon
(haveged), and small watchdogs that start and check them. Its C sources are
bundled copies of those daemons, partly changed, and the watchdogs. The
specifications here model the stateful parts of that code, check them with
TLC on small instances, and prove the most important properties with TLAPS
for all values of the constants.

## Inventory

| Part | Source | State that matters | Here |
|---|---|---|---|
| dnrd query list and identifiers | `dnrd-2.20.3/src/query.c`, `qid.c` | circular list, pool of identifiers, socket counter | `DnrdQuery` |
| dnrd loop and UDP relay | `relay.c`, `udp.c`, `domnode.c`, `srvnode.c` | active and current servers, clocks, position in the loops | `DnrdRelay` |
| dnrd cache | `cache.c` | list of entries with two times, water marks | `DnrdCache` |
| dnrd hosts files, packets | `master.c`, `dns.c`, `check.c` | record lists, packets | `DnrdMaster`, `DnsPath` |
| dnrd TCP, start, options | `tcp.c`, `main.c`, `args.c`, ... | lock file | not modelled (TCP is compiled out) |
| dnsmasq forwarding | `forward.c`, `network.c` | table of queries, shared sockets, list of servers | `MasqForward`, over TCP `MasqTcp` |
| dnsmasq processes and events | `dnsmasq.c`, `helper.c` | event pipe, children and their slots, start-up | `MasqEvents` |
| dnsmasq cache and answers | `cache.c`, `rfc1035.c` | hash chains, list of recent use, insertion transaction | `MasqCache`, `MasqAnswer`, abstract `DnsStore` |
| dnsmasq packets | `rfc1035.c` | bytes | `MasqPacket`, `DnsPath` |
| dnsmasq leases | `lease.c`, `slaac.c` | leases, lease file, names, alarm | `MasqLease` |
| dnsmasq DHCP | `dhcp.c`, `rfc2131.c`, `dhcp6.c`, `rfc3315.c`, `dhcp-common.c` | offers, allocation, dhcp-hosts | `MasqDhcp`, `MasqDhcp6`, composed in `MasqDhcpd` |
| dnsmasq DHCP options | `rfc2131.c` | three areas of the packet | `MasqOptions` |
| dnsmasq router advertisement | `radv.c`, `netlink.c` | timers | `MasqRadv` |
| dnsmasq scripts | `helper.c` | queue and pipe | `MasqDhcpd` |
| dnsmasq TFTP, log | `tftp.c`, `log.c` | transfers, bounded queue | `MasqTftp`, `MasqLog` |
| dnsmasq option parsing, D-Bus, sockets | `option.c`, `dbus.c`, `bpf.c`, ... | little of their own | not modelled |
| rinetd | `rinetd/rinetd.c` | connection slots, two buffers each | `Rinetd`, abstract `ByteStreams` |
| haveged | `haveged-1.7/src/` | collector's buffer, tests, pool | `Haveged` |
| watchdogs, `popen_noshell` | `lock/CB_*.c`, `popen_noshell/` | record locks, signal masks, restart counters | `Watchdogs` |
| pixelserv | `pixserv30/` | children, connections | `Pixelserv` |
| dnsc | `dnsc/` | packets | `Dnsc`, `DnsPath` |

The parts run as separate processes. dnrd and dnsmasq interact with each
other, their clients and servers by datagrams only. `DnsPath` follows one query
through all of them; elsewhere the other side is left to nondeterminism.
Inside each program the parts share memory and one thread.

## Modules

`DnrdQuery`, `DnsStore` and `ByteStreams` are abstract specifications.
`DnrdRelay` uses the first (EXTENDS) and is shown to implement it; `MasqAnswer`
and `Rinetd` implement the others through a refinement mapping
(INSTANCE ... WITH). `MasqDhcpd` and `DnsPath` compose components. Modules named `MC...` give the constants values for TLC, modules named
`...Proofs` (and `...Lemmas` below them) hold the theorems. Operators named `Faulty...` are variants of the
definition that follows them with a plausible slip in it; no specification uses
them. They show that each property can fail: put in the place of the
original, TLC reports the property violated.

In the newer modules a call that runs to completion in one thread is an operator
from the state before it to the state after it, with the name of the function,
and an action is the handler that makes the calls.

### DnrdQuery

`qlist` is the list hanging off the static head, in order, each node with its
server, domain (NULL for a reactivation probe), client, the client's
identifier, its own identifier, age, time to live and the servers a datagram
went to. `qid_pool` and `pool_ptr` are the arrays of `qid.c`; `qid_get` and
`qid_return` move entries as the code does. `query_add`, `query_found` (the
identifier is already listed), `query_delete`, `query_bounce` (added and
removed again by one request) and `query_tick` are all that happens to the
list; `QSpec` lets any caller do them in any order.

### DnrdRelay

The single thread of `run()`, with `pc` its place: waiting in `pselect`,
reactivating servers (`retry_srvlist`, server by server), deactivating overdue
ones, the loop over the answers, the handling of a request, maintenance and
expiry. The two loops that delete from the list while walking it go node by
node with `cursor`, so that a successor is skipped where the code skips it. Each action is
a whole handler: a request includes `handle_query`, the choice of a server,
`query_add`, `send2current` with its failover, and the removal of the query if
nothing was sent. Whether a `sendto` works, a socket can be opened, an answer
is well-formed or the cache knows the answer is open. A failed assertion is
the phase `aborted`.

A probe for which no socket is to be had counts as a retry, here and in `RetryComes`: the
server is marked as tried before the probe is sent and is due again after the same interval.

Not modelled: `-r 0`, which turns reactivation off. Then servers are never
deactivated and `send2current` repeats a failing `sendto` without end.

### DnrdCache

`cachelist` with the seconds since creation and since last use, the marks as
`cache_init` derives them from `-c`, and the times since the last pass and the
last call of `cache_expire`. `run()` calls it once an iteration; `Gap` bounds
the distance of two calls and must not exceed `CACHE_TIME`. The order of
entries with equal times after `qsort` is open.

### MasqForward

`frec_list` are the records of the forwarding table (NULL while free),
`refcount` the counters of the shared sockets, `servers` the list in order,
`last_server` and `srv_save` the two other pointers into it. `get_new_frec`
is the set of outcomes the function may have; `SendOn` is the sending loop of
`forward_query` with failing sends and missing sockets; `Reply...` are the
branches of `reply_query`; `Reload`, `PollResolv`, `HangUp` and their variants are
`reload_servers` and `check_servers` from the two places that call them.
`FREED` marks a pointer to a server that `check_servers` freed. Using it is
undefined behaviour: after `UseFreed` nothing more is said (`undefined`).
Servers have a domain or none; servers with a socket of their own are `Bound`.
Left open: the order of the records, `finger`, `forwardcount` and
`forwardtime`. Left out: IPv6 sockets (same code), `rfd_save`, literal
addresses.

### MasqCache, MasqAnswer, DnsStore

`store` has the records by number, the hash chains, the list `lru` in order of
use and the counters and flags of the insertion under way. `cache_scan_free`,
`cache_insert`, `cache_end_insert`, `cache_find_by_name`,
`cache_find_by_addr`, `add_hosts_entry` and `cache_add_dhcp_entry` are
operators on it. A CNAME's pair of pointer and serial number is the field `to`, set
to 0 when the target is freed. `MasqAnswer` has the writers and readers as
actions: replies (`extract_addresses`, with rebind and bogus addresses,
negative answers and bad packets that break it off), questions
(`answer_request` with its CNAME loop, MX and SRV), the reload of the hosts
file, `lease_update_dns`, and time. `DnsStore` is what users may rely on:
for each name and type nothing is known, or exactly what one reply said.

### MasqLease, MasqRadv, MasqDhcp, MasqDhcp6, MasqDhcpd

`MasqLease` is the list of leases with names, limit, script flags and the lease
file's image; `MasqRadv` the timers of the advertised prefixes; `MasqDhcp` and
`MasqDhcp6` the two servers as functions from a message and the state to a
reply and a state, with tags, ranges, dhcp-hosts, allocation and pings.
`MasqDhcpd` puts them to work: clients that do what RFC 2131 and RFC 3315 let
them do and believe the last reply that reached them, replies that are lost,
the event pipe with reloads and the alarm, the file with failing writes,
the helper with its pipe, interfaces' addresses that come and go, and a daemon
that may be killed and started again. `lossy` and `missed` record that the file was
torn or an event for the script lost, after which less is promised.

### The modules of MCDaemons

- `Rinetd`: the process's rules and slots, and for each connection the two
  streams on the wire. The process starts, reads its configuration a line a step,
  registers its pid and serves; every handler of `selectPass` is an action. The
  mapping to `ByteStreams` forgets buffers, slots and the queue.
- `MasqTftp`: the list of transfers and shared open files; the network loses
  and repeats datagrams. Timers may run out at any moment. As in the main loop,
  transfers are counted once a round (`set_tftp_listeners`), and then every listener
  that had a request waiting is served.
- `MasqLog`: the queue of entries with the stack of nested calls of
  `my_syslog` and `log_write`, one `write` a step, and a forked child.
- `Haveged`: the collector with its tests, one test or system call a step;
  what a test finds is open.
- `MasqOptions`: the placing of one option a step; an option is a code and a
  length, so bytes and end marks are counted exactly.
- `Watchdogs`: the programs with their signal frames and record locks;
  `popen_noshell`'s splitting of the command line and its pipe.
- `DnsBytes`, `MasqPacket`, `DnrdMaster`, `Dnsc`: packets as sequences of bytes, and the four
  independent readers and writers of them. They keep the layout because `PathSound` is about
  it: offsets, counts and lengths that one program writes and another trusts. `DnsPath` sends one query through
  them, with SIGHUP and changing files in between.
- `MasqEvents`: launcher, daemon, helper and children of dnsmasq, the event
  pipe with its capacity, process ids that are reused, every step of the
  start-up that can fail.
- `MasqTcp`: the loop of `tcp_request` over queries, servers and connections.
- `Pixelserv`: the parent with its signal handler, a child per connection, and
  clients that send in parts, pause or leave.

They share no state with each other, and `DnrdCache` shares none with them, so
`MCDaemons` lets `Init` pick the one that runs.

## Runs

| Run | Shows | States |
|---|---|---|
| `dnrd_relay` | Current servers are active and no query goes to an inactive one, with domains, failover and round-robin | about 126,000 |
| `dnrd_live` | Identifiers unique and none lost, sockets counted, one node per client identifier; the relay implements `QSpec`; every inactive server is tried again; every query that is not repeated ends | about 40,000 |
| `dnrd_assert` | **violated**: `assert(q->domain != NULL)` fails when a client's identifier is that of an outstanding probe | |
| `dnrd_purge` | **violated**: "oldest first" is the reverse of what `cmp_cachemru` sorts | |
| `masq_forward` | Reference counts exact, answers counted down, servers of resolv.conf forgotten on reload | about 214,000 |
| `masq_table` | Answers belong to one query, no query twice in the table, the table bounded; dnsmasq always goes back to listening | about 60,000 |
| `masq_freed` | **violated**: servers freed by `check_servers` stay referenced | |
| `masq_cache` | The chains, the list and the counters agree; lookups find exactly the valid records; room is made unless the last record's name is shadowed by a lease; answering ends; the cache implements `DnsStore` | about 11,000 |
| `masq_dhcp` | No address has two holders; limit, file, alarm, names in the DNS and the script's table follow the leases; dhcp-hosts keep distinct addresses; advertisements go on | about 71,000 |
| `masq_iaid` | **violated**: an IPv6 address leased to another client is refused only if both use the same IAID | |
| `masq_rebind` | **violated**: on a TCP connection, one query to a `--rebind-domain-ok` domain exempts the answers to all later queries from the check for private addresses | |
| `daemons` | One property for each of the ten parts above, among them that rinetd implements `ByteStreams`, liveness included; and for `DnrdCache` that no entry outlives its times by more than the distance of two passes and that a pass enforces the marks whatever `-c` says | about 251,000 |

The five violations are disagreements between the code and its own comments,
manual or assertions; `PROJECT.json` quotes the lines.

### Bounds

- dnrd: `dnrd_live` has two identifiers and two sockets, which make
  collisions, a full socket table, an empty pool and skipped list nodes happen, and one
  server. `dnrd_relay` has three servers in two domains, one of them used
  round-robin, and one outstanding query, which may be repeated for the other
  domain; the properties it checks are about servers. Timeouts of one second
  let every order of expiry, deactivation and reactivation occur. Ages
  saturate one past the largest value the code compares them with, so the
  saturation is not visible. Client identifiers are symmetric; the liveness
  run uses no symmetry.
- Cache: two keys, up to three entries (`MaxEntries`; the code has no bound
  between passes), marks 1 and 2, and one option of each form, among them
  `low` above `high` and a negative mark.
- dnsmasq: a table that grows to two records (`ftabsize` 1), two identifiers,
  one shared socket, which two records use up to the limit `MaxRef`; the clock
  saturates at four timeouts, after which records are wiped. `masq_forward`:
  one server for any domain and one from resolv.conf, and one with its own
  socket for the domain that one of the two queries asks about, under three sets of
  options. `masq_table`: two queries with the same question, one server from
  the command line and one from resolv.conf.
- `masq_cache`: three records for upstream answers and two spare ones, three names, one of
  them long, in two chains, so that insertions evict, chains are shared and a
  reply needs more room than there is; two replies together make a circle of
  CNAMEs.
- `masq_dhcp`: about a dozen situations (`MCOptions`), each with one to three
  clients, a range of two addresses, a limit of two leases and one fault. Every message
  type, relay, tag, dhcp-host and both families occur; lease times are 1 or 2.
- `daemons`: two connections with buffers of two bytes and a table of one slot
  that is doubled; block numbers modulo 4 for files of more blocks than that; four TFTP
  clients at two listeners with `tftp_max` 1, so that both listeners are served in a
  round that began at the limit;
  queues of up to two lines; two slots and three connections for dnsmasq's children; three places
  for watchdogs. The lengths of options run over the values
  around which an area of the packet is exactly full. Names in `DnsPath` are short except one, after which the
  compression pointers of dnrd need more than the six bits it writes; pseudoheaders come with
  no option, with one, with a last option without data and with the hardware address
  already there; one host stands before any domain line.

### Fairness

- `DnrdRelay`: weak fairness of `Run`, since nothing in the loop blocks except
  `pselect`, whose wait is bounded; strong fairness of `Proceed`, since
  signals do not interrupt every `pselect`; strong fairness of `Tick`, since
  time passes although the model lets it pass only between the steps of the
  loops.
- `MasqForward`: weak fairness of the clock and, while clients are not
  listened to, of `set_dns_listeners`: `select` then waits a bounded time.
- `Rinetd`: weak fairness of every handler of every slot: `selectPass` calls
  all of those that are ready, and a peer that reads is assumed (a write to a
  peer that never reads would wait for ever).

No other fairness is assumed of clients, servers or the network.

## Proofs

All theorems hold for any sets of clients, servers, domains and identifiers
and any values of the numeric constants that satisfy the named assumptions.

- `DnrdQueryProofs`. The inductive invariant `QInv` joins the types with
  `QidsUnused`, `NothingLeaks` and `ClientQidsDistinct`. They need each other:
  a returned identifier is stored inside the array only because none leaked,
  and a new one is fresh only because no listed one is among the free.
  Assumed: `0 <= MaxSockets <= PoolSize`.
- `DnrdRelayProofs`. `RelayKeepsListDiscipline` proves that the relay
  implements `QSpec` step by step (the variables map to themselves); the
  relay inherits the invariants of the list (`RelayQidsUnused`).
  `CurrentStaysActive` proves `CurrentIsActive` from `RInv`, which adds the types: the
  forwarding step finds the next active server by its distance on the ring,
  which `LeastExists` shows to exist. `NeverAsksInactive` proves the action
  property `NoQueryToInactive`: the server `send2current` ends with is active
  afterwards, and nothing in a request activates one, so it was before.
- `DnrdCacheProofs`. `StalenessBounded` is not inductive; `CInv` bounds the
  age of an entry by its limit plus the time since the last pass, and that
  time by the time since the last call. `PassKeepsMarks` needs the marks
  ordered, which `cache_init` establishes for every option.
- `MasqForwardLemmas` and `MasqForwardProofs`. The invariants of
  `MasqForward` are proved together as `FInv`, with `PointersTracked` added: a
  pointer to a server leads to a listed server or is known to be freed. They need each
  other: the reference counts stay exact only if a record's socket is counted
  once, and sending a query on needs the answers counted and the pointers
  tracked to leave a well-typed record behind. The lemmas are about the operators (what
  `Only` leaves of a list, what `get_new_frec` may return, what releasing
  records does to the counts); the proofs take one action at a time.
  Assumed: `ForwardAssumption` (finitely many servers, those of the command line and of
  resolv.conf apart, the latter without a domain) and `NullAssumption`
  (NULL is no record).
- `RinetdLemmas` and `RinetdProofs`. `RinetdRefinesStreams` proves the safety part
  of `StreamsImplemented`: the initial states map to `Begin` and every step to a step
  of `ByteStreams` or a stutter. It rests on `RInv` (`RinetdInvariant`): what a
  peer got, then the unsent part of the slot's buffer, then the socket's queue are
  together the bytes the other peer sent, in order (`InOrder`), all of them unless that peer
  reset the connection (`Whole`); slots in use belong to different connections;
  and the rules stored for a server are those of the lines read (`RulesMatch`).
  The first is what makes a delivery a prefix and an end of
  stream timely; the second keeps a handler from disturbing another connection, and
  `handleAccept` preserves it because the slot it takes is free, also after the
  table was doubled; the third makes the verdict of `handleAccept` that of the file (of a file
  with a forwarding rule that could not be set up nothing is said).
  Assumed: `RinetdAssumption` (connections are positive numbers, there is a
  slot, the file's lines have their form).

Only model-checked: all liveness properties, which are beyond the prover, and
everything outside these modules. `DnsBytes` and what uses it is written with
recursive operators, which the prover cannot load.

## Observations

Met while modelling, true of the models, and promised otherwise by nothing but the
comments and the lines of the manual quoted:

- rinetd: after a deny rule has matched `handleAccept` goes on, opens the local
  side and forgets that socket. SIGHUP and SIGTERM are blocked with all other
  signals and their handlers never run.
- haveged: a continuous procedure that failed twice ends testing; the words that
  follow are still credited. The comment at `havegetest.c:181-184` says the
  buffer is discarded.
- Forwarding: the table grows to `ftabsize + 1` records, since `get_new_frec` tests
  the count with `<=` and `>` before it adds one (`forward.c:1146`, `1159`). The manual calls
  `--dns-forward-max` "the maximum number of concurrent DNS queries" (`dnsmasq.8:512`) and
  `config.h:17` the "max number of outstanding requests". `TableBounded` states the
  bound of the code.
- TFTP: a block of a netascii transfer that is sent again can differ from the
  first sending (`get_block` keeps `carrylf`). `set_dns_listeners` counts the transfers
  once a round, lets a round begin with `tftp_max` of them, and every listener
  then serves a request (`dnsmasq.c:1319-1371`, `1400-1401`): up to `tftp_max` plus
  the number of listeners may run, as `TransfersSound` says. The manual says "Set the maximum
  number of concurrent TFTP connections allowed" (`dnsmasq.8:1422`).
- Log: a child of a fork starts with its parent's `entries_lost` and reports
  them a second time.
- dnsmasq processes: connections on several listeners in one turn with one free
  slot give children without a slot; an event is lost when the pipe is full;
  SIGTERM during the start-up makes the launcher report success.
- TCP queries: an upstream connection closed while idle makes the next query be
  refused if there is only one server.
- Leases: at `--dhcp-lease-max` `lease_allocate` returns NULL (`lease.c:656`), which
  `lease4_allocate` and `lease6_allocate` write through (`lease.c:676-677`, `686-687`): the daemon
  ends, although the callers are prepared to answer "no leases left" (`rfc2131.c:480`,
  `1204`). In the model this is `crashed`, after which the daemon is dead
  until it is started again; `LeaseTable` bounds the leases and does not exclude it. The lease file is
  rewritten in place (`lease.c:219`), and a crash before it is flushed loses leases.
- dnrd packets: `compile_namepointer` masks a pointer to six bits (`master.c:559`), so the
  records that refer to a place past byte 63 name something else; `PathSound` leaves them out. A
  host that the master file gives before any domain line gets its domain from an array nobody
  initialised; its name may be with or without one.
- dnsmasq packets: `filter_mac` does not see a last option without data and
  writes over it (`rfc1035.c:583`).
- Cache: `cache_insert`'s "Must be free space now." (`cache.c:420`) fails when the name of the last
  record is shadowed by a lease; the records of a long name can be evicted one
  at a time.
- DHCP options: the room for `sname` is tested with the size of `file`
  (`rfc2131.c:1742`), so that `RepliesWellFormed` leaves out replies which fill it further.
- Watchdogs: handlers are installed before the lock, and a SIGUSR2 during the
  `waitpid` of SIGUSR1's handler ends the program with the check still running.
- pixelserv: failures after `daemon()` are invisible to the caller; a GET without an
  extension is answered with status 501.

## Not modelled

- dnrd: `-r 0`, `tcp.c` (not compiled), start-up with its lock file, option
  parsing, queries for the root name.
- dnsmasq: `option.c`, `dbus.c`, `bpf.c`, `conntrack.c`; listeners and
  interfaces of `network.c`; rehashing of the cache; bit-string labels; PXE
  exchanges and the server identifier override; sequential allocation and relay headers of
  DHCPv6; contents of router advertisements; leases from a script; parsing of
  the options in a request; where a DHCP reply is sent; Lua.
- rinetd's log; haveged on several cores, its tuning and option parsing, limited output;
  `CB_SleepWait` and `CB_FileLock`, which are a sleep and a lock; a signal between
  `popen_noshell`'s clone and exec; pixelserv's counters (not compiled) and
  option parsing; the authority and additional records dnsc prints.
- haveged's `nist` and `ent` programs: floating-point statistics over files.
