------------------------------ MODULE MasqRadv ------------------------------
(***************************************************************************)
(* dnsmasq: the timers of router advertisements (radv.c).                  *)
(*                                                                         *)
(* Every dhcp-range of IPv6 is a context with a time of its next           *)
(* advertisement (0: none).  One advertisement carries all the prefixes of *)
(* an interface, so the timers of all but one context are zeroed.          *)
(* The record ra is [time, short, if_index, rebuild]; the calls run to     *)
(* completion, so each is an operator on it.  The callers are in MasqLease *)
(* and MasqDhcp.                                                           *)
(***************************************************************************)
EXTENDS Integers, FiniteSets, SequencesExt

CONSTANTS
  RaContexts,          \* ra_contexts: a sequence of [prefix, adv, name]
  Soon,                \* rand16()/13000: the delays of the first round
  ShortPeriod,         \* 60: for how long advertisements are frequent
  RaShort, RaLong      \* 5 to 20 and 450 to 600: the time between them

VARIABLES
  links,               \* the kernel's IPv6 addresses: [iface, prefix, dad]
  opt                  \* the options of the command line, see MasqLease

Contexts == DOMAIN RaContexts

RaType(Times, Ifaces) ==
  [ time : [Contexts -> Times], short : Times,
    if_index : [Contexts -> Ifaces \cup {0}], rebuild : BOOLEAN ]

(* The delay of each context, or now for the one a new SLAAC address needs *)
ra_start_unsolicted(ra, now, soon) ==
  [ra EXCEPT !.time = [c \in Contexts |-> now + soon[c]], !.short = now]

Prod(ra, now, C) ==
  [ra EXCEPT !.time = [c \in Contexts |-> IF c \in C THEN now ELSE @[c]],
             !.short = IF C = {} THEN @ ELSE now]

(* The contexts that an advertisement on iface covers.                     *)
Covered(iface) ==
  {c \in Contexts :
     /\ RaContexts[c].adv
     /\ \E k \in DOMAIN links : links[k].iface = iface
                                /\ links[k].prefix = RaContexts[c].prefix}

(* The first of them: by the kernel's order of the addresses, then by the  *)
(* order of the contexts.                                                  *)
Leader(iface) ==
  LET p == links[SelectInSeq(links, LAMBDA l :
                   /\ l.iface = iface
                   /\ \E c \in Covered(iface) : RaContexts[c].prefix = l.prefix)].prefix
  IN CHOOSE c \in Covered(iface) :
       /\ RaContexts[c].prefix = p
       /\ \A b \in Covered(iface) : RaContexts[b].prefix = p => c <= b

FaultyAddPrefixes(ra, iface) ==
  [ra EXCEPT !.time = [c \in Contexts |-> IF c \in Covered(iface) THEN 0 ELSE @[c]]]

(* add_prefixes: only the first context keeps its timer.  Which interfaces *)
(* may advertise (iface_check, dhcp_except) and what the packet says is    *)
(* left out.                                                               *)
add_prefixes(ra, iface) ==
  [ra EXCEPT !.time =
     [c \in Contexts |-> IF c \in Covered(iface) /\ c # Leader(iface) THEN 0 ELSE @[c]]]

send_ra(ra, iface) ==
  IF iface = 0 \/ Covered(iface) = {} THEN ra ELSE add_prefixes(ra, iface)

Overdue(ra, now) == {c \in Contexts : ra.time[c] # 0 /\ ra.time[c] <= now}

(* iface_search, and what periodic_ra does with its result: the first      *)
(* address with an overdue context; w.iface is kept while the address is   *)
(* still being tested for duplicates.                                      *)
Round(w, now) ==
  LET late == Overdue(w.ra, now)
      k == SelectInSeq(links, LAMBDA l : \E c \in late : RaContexts[c].prefix = l.prefix)
      First(C) == CHOOSE c \in C : \A b \in C : c <= b
      Same(c) == RaContexts[c].prefix = links[k].prefix
      mine == First({c \in late : Same(c)})
      again == now + (IF now - w.ra.short < ShortPeriod THEN RaShort ELSE RaLong)
      iface == IF links[k].dad THEN w.iface ELSE links[k].iface
      timed == [w.ra EXCEPT !.time =
                  [c \in Contexts |-> CASE c = mine -> again
                                        [] Same(c) /\ c > mine -> 0
                                        [] OTHER -> @[c]]]
  IN CASE late = {} -> w
       [] late # {} /\ k = 0 -> [w EXCEPT !.ra.time[First(late)] = 0]
       [] OTHER -> [ra |-> send_ra(timed, iface), iface |-> iface]

(* periodic_ra: a round leaves one overdue context less.                   *)
periodic_ra(ra, now) ==
  FoldLeft(LAMBDA w, c : Round(w, now), [ra |-> ra, iface |-> 0],
           [c \in Contexts |-> c]).ra

RaTimes(ra) == {ra.time[c] : c \in Contexts} \ {0}

(* add_subnet, build_subnet_map: the interface of every ra-names context.  *)
build_subnet_map(ra) ==
  [ra EXCEPT !.if_index = [c \in Contexts |->
     LET k == SelectLastInSeq(links, LAMBDA l : l.prefix = RaContexts[c].prefix)
     IN IF RaContexts[c].name /\ k # 0 THEN links[k].iface ELSE 0]]

schedule_subnet_map(ra) == [ra EXCEPT !.rebuild = TRUE]
=============================================================================
