---------------------------- MODULE RinetdProofs ----------------------------
(* The configuration, the accepting of connections, and the theorems.      *)
EXTENDS RinetdLemmas, FiniteSetTheorems

-----------------------------------------------------------------------------
(* A nonempty set of naturals has a least element.                         *)
LEMMA LeastExists ==
  ASSUME NEW T \in SUBSET Nat, T # {}
  PROVE  \E x \in T : \A y \in T : x <= y
<1> DEFINE R == OpToRel(<, Nat)
<1>1. PICK u \in T : \A v \in T : ~(<<v, u>> \in R)
  BY NatLessThanWellFounded, WFMin, Zenon
<1>2. ASSUME NEW v \in T PROVE u <= v
  <2>1. ~(<<v, u>> \in R)
    BY <1>1, Zenon
  <2>2. u \in Nat /\ v \in Nat
    OBVIOUS
  <2>3. ~(v < u)
    BY <2>1, <2>2 DEF OpToRel
  <2> QED
    BY <2>2, <2>3
<1> QED
  BY <1>2

(* The table handleAccept works on: the slots there were and perhaps free  *)
(* ones after them.                                                        *)
Grown(co) ==
  /\ co \in Seq(Slot)
  /\ \A j \in DOMAIN rin.co : j \in DOMAIN co /\ co[j] = rin.co[j]
  /\ \A j \in DOMAIN co \ DOMAIN rin.co : co[j].closed

(* A free slot is a slot.                                                  *)
LEMMA FreeSlot ==
  Free \in Slot /\ Free.closed
<1>1. <<>> \in Bytes
  BY DEF Bytes
<1> QED
  BY <1>1 DEF Free, Slot, Buffer

Joins(S, q, a, b) ==
  /\ q \in Seq(S) /\ Len(q) = Len(a) + Len(b)
  /\ \A j \in 1 .. Len(a) : q[j] = a[j]
  /\ \A j \in 1 .. Len(b) : q[Len(a) + j] = b[j]

(* Two sequences of any kind one after the other.                          *)
LEMMA Joined ==
  ASSUME NEW S, NEW a \in Seq(S), NEW b \in Seq(S)
  PROVE  Joins(S, a \o b, a, b)
BY DEF Joins

(* The search of handleAccept ends at a free slot, also when the table was *)
(* doubled, and the slots in use stay where they are.                      *)
LEMMA SlottedGrows ==
  ASSUME RTypeOK, rin.co # <<>>, NEW co, co = Slotted(rin.co),
         NEW i, i = FirstFree(co)
  PROVE  Grown(co) /\ i \in DOMAIN co /\ co[i].closed
<1>1. rin.co \in Seq(Slot)
  BY DEF RTypeOK
<1>2. Grown(co) /\ \E j \in DOMAIN co : co[j].closed
  <2>1. CASE \E j \in DOMAIN rin.co : rin.co[j].closed
    BY <1>1, <2>1 DEF Slotted, Grown
  <2>2. CASE ~ \E j \in DOMAIN rin.co : rin.co[j].closed
    <3> DEFINE n == Len(rin.co)
               more == [k \in 1 .. n |-> Free]
    <3>1. n \in Nat /\ n > 0 /\ DOMAIN rin.co = 1 .. n
      BY <1>1
    <3>2. more \in Seq(Slot) /\ Len(more) = n /\ \A j \in 1 .. n : more[j] = Free
      BY <3>1, FreeSlot
    <3>3. co = rin.co \o more
      BY <2>2 DEF Slotted
    <3> HIDE DEF more
    <3>4. /\ co \in Seq(Slot) /\ Len(co) = n + n
          /\ \A j \in 1 .. n : co[j] = rin.co[j]
          /\ \A j \in 1 .. n : co[n + j] = more[j]
      <4>1. Joins(Slot, co, rin.co, more)
        BY <1>1, <3>2, <3>3, Joined, Zenon
      <4> QED
        BY <3>2, <4>1 DEF Joins
    <3> HIDE DEF n
    <3>5. DOMAIN co = 1 .. (n + n)
      BY <3>4
    <3>6. ASSUME NEW j \in DOMAIN co \ DOMAIN rin.co
          PROVE  co[j].closed
      <4>1. j - n \in 1 .. n /\ n + (j - n) = j
        BY <3>1, <3>5
      <4>2. co[j] = Free
        BY <3>2, <3>4, <4>1
      <4> QED
        BY <4>2, FreeSlot
    <3>7. n + 1 \in DOMAIN co \ DOMAIN rin.co
      BY <3>1, <3>5
    <3>8. \A j \in DOMAIN rin.co : j \in DOMAIN co
      BY <3>1, <3>5
    <3> QED
      BY <3>1, <3>4, <3>6, <3>7, <3>8 DEF Grown
  <2> QED
    BY <2>1, <2>2
<1> DEFINE T == {j \in DOMAIN co : co[j].closed}
<1>3. T \in SUBSET Nat /\ T # {}
  BY <1>2 DEF Grown
<1>4. \E x \in T : \A y \in T : x <= y
  BY <1>3, LeastExists, Zenon
<1>5. \E k \in DOMAIN co : co[k].closed /\ \A j \in DOMAIN co : co[j].closed => k <= j
  BY <1>4
<1>6. i \in DOMAIN co /\ co[i].closed
  BY <1>5, Zenon DEF FirstFree
<1> QED
  BY <1>2, <1>6

(* What handleAccept does with the connection c and slot i.                *)
Settled(c, co, i, k, w) ==
  /\ Grown(co) /\ i \in DOMAIN co /\ co[i].closed /\ k \in Slot
  /\ rin' = [rin EXCEPT !.co = [co EXCEPT ![i] = k]]
  /\ w \in WireOf /\ w.st \in States \ {"none", "pending"} /\ w.se = wire[c].se
  /\ wire' = [wire EXCEPT ![c] = w]
  /\ k.closed \/ (k.conn = c /\ LinkOK(k, w))

(* handleAccept settles a pending connection in a free slot, or frees it   *)
(* again: the invariant is kept.                                           *)
LEMMA SettledStep ==
  ASSUME RInv, NEW c \in Conns, wire[c].st = "pending", NEW co, NEW i, NEW k, NEW w,
         Settled(c, co, i, k, w)
  PROVE  RInv'
<1>1. /\ rin \in [run : {"off", "conf", "run", "exit"}, conf : Confs, read : Nat,
                  global : RuleSet, se : Seq(RuleSet), co : Seq(Slot)]
      /\ wire \in [Conns -> WireOf]
  BY DEF RInv, RTypeOK
<1> PICK slots : slots = [co EXCEPT ![i] = k]
  BY Zenon
<1>2. /\ co \in Seq(Slot) /\ i \in DOMAIN co /\ k \in Slot /\ co[i].closed
      /\ \A j \in DOMAIN rin.co : j \in DOMAIN co /\ co[j] = rin.co[j]
      /\ \A j \in DOMAIN co \ DOMAIN rin.co : co[j].closed
  BY DEF Settled, Grown
<1>3. /\ slots \in Seq(Slot) /\ slots # <<>> /\ DOMAIN slots = DOMAIN co /\ slots[i] = k
      /\ \A j \in DOMAIN co \ {i} : slots[j] = co[j]
  BY <1>2
<1>4. rin' = [rin EXCEPT !.co = slots]
  BY DEF Settled
<1>5. /\ rin' \in [run : {"off", "conf", "run", "exit"}, conf : Confs, read : Nat,
                   global : RuleSet, se : Seq(RuleSet), co : Seq(Slot)]
      /\ rin'.co = slots
      /\ rin'.conf = rin.conf /\ rin'.read = rin.read /\ rin'.run = rin.run
      /\ rin'.global = rin.global /\ rin'.se = rin.se
  BY <1>1, <1>3, <1>4, Zenon
<1>6. /\ wire' \in [Conns -> WireOf] /\ wire'[c] = w
      /\ \A d \in Conns \ {c} : wire'[d] = wire[d]
      /\ w.st # "none" /\ w.st # "pending" /\ w.se = wire[c].se
      /\ k.closed \/ (k.conn = c /\ LinkOK(k, w))
  BY <1>1 DEF Settled
<1>7. \A j \in DOMAIN slots \ {i} : ~slots[j].closed =>
        /\ j \in DOMAIN rin.co /\ slots[j] = rin.co[j] /\ ~rin.co[j].closed
        /\ slots[j].conn \in Conns /\ slots[j].conn # c
        /\ LinkOK(slots[j], wire[slots[j].conn])
  <2> SUFFICES ASSUME NEW j \in DOMAIN slots \ {i}, ~slots[j].closed
               PROVE  /\ j \in DOMAIN rin.co /\ slots[j] = rin.co[j] /\ ~rin.co[j].closed
                      /\ slots[j].conn \in Conns /\ slots[j].conn # c
                      /\ LinkOK(slots[j], wire[slots[j].conn])
    OBVIOUS
  <2>1. j \in DOMAIN rin.co /\ slots[j] = rin.co[j]
    BY <1>2, <1>3
  <2>2. slots[j].conn \in Conns /\ LinkOK(slots[j], wire[slots[j].conn])
    BY <2>1 DEF RInv, SlotsOK
  <2>3. wire[slots[j].conn].st = "open"
    BY <2>2 DEF LinkOK
  <2> QED
    BY <2>1, <2>2, <2>3
<1>8. SlotsOK'
  <2>1. \A j \in DOMAIN slots \ {i} : ~slots[j].closed => LinkOK(slots[j], wire'[slots[j].conn])
    BY <1>6, <1>7
  <2>2. \A j \in DOMAIN slots : ~slots[j].closed =>
          slots[j].conn \in Conns /\ LinkOK(slots[j], wire'[slots[j].conn])
    BY <1>3, <1>6, <1>7, <2>1
  <2>3. \A j, l \in DOMAIN slots :
          ~slots[j].closed /\ ~slots[l].closed /\ slots[j].conn = slots[l].conn => j = l
    <3> SUFFICES ASSUME NEW j \in DOMAIN slots, NEW l \in DOMAIN slots,
                        ~slots[j].closed, ~slots[l].closed, slots[j].conn = slots[l].conn
                 PROVE  j = l
      OBVIOUS
    <3>1. CASE j # i /\ l # i
      BY <1>7, <3>1 DEF RInv, SlotsOK
    <3>2. CASE j = i \/ l = i
      BY <1>3, <1>6, <1>7, <3>2
    <3> QED
      BY <3>1, <3>2
  <2> QED
    BY <1>5, <2>2, <2>3 DEF SlotsOK
<1>9. WaitingOK'
  BY <1>6 DEF WaitingOK, RInv
<1>10. RulesRead'
  <2>1. \A d \in Conns : wire'[d].st # "none" => rin.run = "run" /\ wire'[d].se \in DOMAIN rin.se
    BY <1>6 DEF RInv, RulesRead
  <2> QED
    BY <1>3, <1>5, <2>1, RulesKept DEF RInv
<1> QED
  BY <1>5, <1>6, <1>8, <1>9, <1>10 DEF RInv, RTypeOK

(* Who the rules read so far let in, when they are those of all the lines. *)
LEMMA VerdictAdmits ==
  ASSUME NEW lines \in Seq(ConfLine), NEW global, NEW se \in Seq(RuleSet), NEW e \in DOMAIN se,
         RulesMatch(lines, Len(lines), global, se), NEW client,
         Verdict(global, se[e], client) = "ok"
  PROVE  Admitted(lines, e, client)
<1> DEFINE servers == ServersIn(lines, Len(lines))
           rules(kind, o) == {lines[j].who : j \in {k \in 1 .. Len(lines) :
                                lines[k].kind = kind /\ OwnerOf(lines, k) = o}}
           passes(o) == /\ rules("allow", o) = {} \/ \E w \in rules("allow", o) : client \in w
                        /\ \A w \in rules("deny", o) : client \notin w
           hit(q) == \E k \in DOMAIN q : client \in q[k]
           fails(r) == r.allow # <<>> /\ ~hit(r.allow)
<1>1. DOMAIN lines = 1 .. Len(lines) /\ servers = {j \in DOMAIN lines : lines[j].kind = "server"}
  BY DEF ServersIn
<1>2. ASSUME \A j \in servers : lines[j].ok
      PROVE  \A o \in {0, e} : passes(o)
  <2>1. /\ e \in 1 .. Len(se) /\ Len(se) \in Nat
        /\ \A o \in 0 .. Len(se), kind \in RuleKinds : ToSet(RulesOf(global, se, o)[kind]) = rules(kind, o)
    BY <1>2 DEF RulesMatch
  <2> HIDE DEF rules
  <2>2. ASSUME NEW o \in {0, e}
        PROVE  passes(o)
    <3> DEFINE r == RulesOf(global, se, o)
    <3>1. o \in 0 .. Len(se) /\ (r = global \/ r = se[e])
      BY <2>1 DEF RulesOf
    <3>2. ~fails(r) /\ ~hit(r.deny)
      BY <3>1 DEF Verdict
    <3> HIDE DEF r
    <3>3. ToSet(r["allow"]) = rules("allow", o) /\ ToSet(r["deny"]) = rules("deny", o)
      BY <2>1, <3>1 DEF r, RuleKinds
    <3>4. CASE r["allow"] = <<>>
      BY <3>2, <3>3, <3>4 DEF ToSet
    <3>5. CASE r["allow"] # <<>>
      BY <3>2, <3>3, <3>5 DEF ToSet
    <3> QED
      BY <3>4, <3>5
  <2> QED
    BY <2>2
<1>3. (\A j \in servers : lines[j].ok) => passes(0) /\ passes(e)
  BY <1>2, Zenon
<1> DEFINE srvs == {j \in DOMAIN lines : lines[j].kind = "server"}
           owner(j) == Cardinality({k \in srvs : k < j})
<1>4. servers = srvs /\ \A j : OwnerOf(lines, j) = owner(j)
  BY <1>1 DEF OwnerOf
<1> HIDE DEF owner, servers, srvs
<1>5. \A kind, o : rules(kind, o) = {lines[j].who : j \in {k \in DOMAIN lines : lines[k].kind = kind /\ owner(k) = o}}
  BY <1>1, <1>4
<1>6. (\A j \in srvs : lines[j].ok) => passes(0) /\ passes(e)
  BY <1>3, <1>4, Zenon
<1> HIDE DEF rules
<1> QED
  BY <1>5, <1>6, Zenon DEF Admitted, owner, srvs

(* A connection just accepted has lost nothing: what its client sent is    *)
(* all in the socket.                                                      *)
LEMMA NewLink ==
  ASSUME NEW c \in Conns, NEW w \in WireOf, Unheard(w), w.st = "open"
  PROVE  Taken(c) \in Slot /\ ~Taken(c).closed /\ Taken(c).conn = c /\ LinkOK(Taken(c), w)
<1> DEFINE k == Taken(c)
<1>1. <<>> \in Bytes /\ Len(<<>>) = 0
  BY DEF Bytes
<1>2. /\ k \in Slot /\ ~k.closed /\ k.conn = c /\ ~k.closing
      /\ \A s \in Sides : ~k.shut[s] /\ k.buf[s] = [data |-> <<>>, w |-> 0]
  BY <1>1, Zenon DEF Taken, Free, Slot, Buffer
<1> HIDE DEF k
<1>3. ASSUME NEW s \in Sides
      PROVE  InOrder(w.way[s], k.buf[s]) /\ Whole(w.way[s], k.buf[s]) /\ ~w.way[Other(s)].eof
  <2> DEFINE way == w.way[s]
             n == Len(way.sent)
  <2>1. way \in Way /\ way.got = <<>> /\ way.queue = way.sent
    BY DEF WireOf, Unheard
  <2>2. n \in Nat /\ Len(way.queue) = n /\ Len(way.got) = 0
    BY <1>1, <2>1 DEF Way, Bytes
  <2>3. k.buf[s].w = 0 /\ Len(k.buf[s].data) = 0
    BY <1>1, <1>2
  <2>4. way.queue = way.sent
    BY <2>1
  <2> HIDE DEF n
  <2>5. \A x \in 1 .. n : way.queue[x] = way.sent[0 + 0 + x]
    BY <2>2, <2>4
  <2> HIDE DEF way
  <2>6. InOrder(way, k.buf[s])
    BY <2>2, <2>3, <2>5 DEF InOrder, n
  <2>7. Whole(way, k.buf[s])
    BY <2>2, <2>3 DEF Whole, n
  <2> QED
    BY <2>6, <2>7, FarOther DEF way, Unheard
<1>4. LinkOK(k, w)
  <2>1. Sides # {} /\ w.reset = {}
    BY DEF Sides, Unheard
  <2> QED
    BY <1>2, <1>3, <2>1 DEF LinkOK
<1> QED
  BY <1>2, <1>4 DEF k

(* The lines of the file being read have their form.                       *)
LEMMA LinesTyped ==
  ASSUME RTypeOK
  PROVE  rin.conf.lines \in Seq(ConfLine)
<1>1. rin.conf \in Confs
  BY DEF RTypeOK
<1>2. <<>> \in Seq(ConfLine) /\ \A conf \in RinetdConfs : conf.lines \in Seq(ConfLine)
  BY RinetdAssumption
<1>3. CASE rin.conf \in RinetdConfs
  BY <1>2, <1>3
<1>4. CASE rin.conf = [lines |-> <<>>, load |-> <<>>]
  BY <1>2, <1>4
<1> QED
  BY <1>1, <1>3, <1>4 DEF Confs

(* openLocalFd connected the local side.                                   *)
LEMMA ServedStep ==
  ASSUME RInv, NEW c \in Conns, wire[c].st = "pending", rin.run = "run",
         NEW co, NEW i, Grown(co) /\ i \in DOMAIN co /\ co[i].closed,
         Verdict(rin.global, rin.se[wire[c].se], rin.conf.load[c].client) = "ok",
         rin' = [rin EXCEPT !.co = [co EXCEPT ![i] = Taken(c)]],
         wire' = [wire EXCEPT ![c].st = "open"]
  PROVE  RInv' /\ Maps
<1> PICK w : w = [wire[c] EXCEPT !.st = "open"]
  BY Zenon
<1>1. wire[c] \in WireOf /\ wire \in [Conns -> WireOf] /\ Unheard(wire[c])
  BY Typed DEF RInv, RTypeOK, WaitingOK
<1>2. /\ w \in WireOf /\ w.st = "open" /\ w.se = wire[c].se
      /\ w.reset = wire[c].reset /\ w.way = wire[c].way
  BY <1>1 DEF WireOf, States
<1>3. wire' = [wire EXCEPT ![c] = w]
  OBVIOUS
<1>4. wire'[c] = w /\ \A d \in Conns \ {c} : wire'[d] = wire[d]
  BY <1>1, <1>2, <1>3
<1>5. Unheard(w)
  BY <1>1, <1>2 DEF Unheard
<1>6. Settled(c, co, i, Taken(c), w)
  BY <1>2, <1>3, <1>5, NewLink, Zenon DEF Settled, States
<1>7. RInv'
  BY <1>6, SettledStep
<1>8. Admitted(rin.conf.lines, wire[c].se, rin.conf.load[c].client)
  <2>1. /\ rin.conf.lines \in Seq(ConfLine) /\ rin.se \in Seq(RuleSet)
        /\ wire[c].se \in DOMAIN rin.se
        /\ RulesMatch(rin.conf.lines, Len(rin.conf.lines), rin.global, rin.se)
    <3>1. rin.conf \in Confs /\ rin.se \in Seq(RuleSet)
      BY DEF RInv, RTypeOK
    <3>2. rin.conf.lines \in Seq(ConfLine)
      BY LinesTyped DEF RInv
    <3> QED
      BY <3>1, <3>2 DEF RInv, RulesRead
  <2> QED
    BY <2>1, VerdictAdmits
<1>9. /\ ~Open(c) /\ Open(c)' /\ \A d \in Conns \ {c} : Open(d)' <=> Open(d)
      /\ \A d \in Conns : Cut(d)' <=> Cut(d)
      /\ \A d \in Conns, t \in Sides : Abs(d, t)' = Abs(d, t)
  <2>1. \A d \in Conns : wire'[d].way = wire[d].way /\ wire'[d].reset = wire[d].reset
    BY <1>2, <1>4
  <2>2. wire'[c].st = "open" /\ wire[c].st # "open"
    BY <1>2, <1>4, Zenon
  <2> QED
    BY <1>4, <2>1, <2>2 DEF Open, Cut, Abs
<1>10. Streams!Serve(c)
  BY <1>8, <1>9, ServeMaps
<1> QED
  BY <1>7, <1>10 DEF Maps

(* refuse, and an openLocalFd that failed.                                 *)
LEMMA RefusedStep ==
  ASSUME RInv, NEW c \in Conns, wire[c].st = "pending",
         NEW co, NEW i, Grown(co) /\ i \in DOMAIN co /\ co[i].closed,
         NEW st \in {"refused", "leaked"},
         rin' = [rin EXCEPT !.co = [co EXCEPT ![i] = Free]],
         wire' = [Hangup(c, "re") EXCEPT ![c].st = st]
  PROVE  RInv' /\ Maps
<1> PICK v : v = [wire[c].way["lo"] EXCEPT !.eof = TRUE]
  BY Zenon
<1> PICK w : w = [wire[c] EXCEPT !.way["lo"] = v, !.st = st]
  OBVIOUS
<1>1. /\ wire[c] \in WireOf /\ wire \in [Conns -> WireOf] /\ "lo" \in Sides
      /\ wire[c].way["lo"] \in Way
  BY Typed DEF RInv, RTypeOK, Sides, WireOf
<1>2. /\ v \in Way /\ v.eof = TRUE /\ SameEof(v, wire[c].way["lo"])
  BY <1>1, Zenon DEF Way, SameEof
<1>3. /\ w \in WireOf /\ w.st = st /\ w.se = wire[c].se
      /\ w.reset = wire[c].reset /\ w.way["lo"] = v
      /\ \A t \in Sides \ {"lo"} : w.way[t] = wire[c].way[t]
  BY <1>1, <1>2, Zenon DEF WireOf, States
<1>4. wire' = [wire EXCEPT ![c] = w]
  <2>1. Hangup(c, "re") = [wire EXCEPT ![c].way["lo"] = v]
    BY DEF Hangup, Other
  <2>2. wire' = [[wire EXCEPT ![c].way["lo"] = v] EXCEPT ![c].st = st]
    BY <2>1, Zenon
  <2> QED
    BY <1>1, <2>2, Zenon
<1>5. wire'[c] = w /\ \A d \in Conns \ {c} : wire'[d] = wire[d]
  BY <1>1, <1>3, <1>4, Zenon
<1>6. Settled(c, co, i, Free, w)
  BY <1>3, <1>4, FreeSlot, Zenon DEF Settled, States
<1>7. RInv'
  BY <1>6, SettledStep
<1>8. Held /\ ~Open(c)
  <2>1. wire'[c].st # "open" /\ wire[c].st # "open" /\ wire'[c].reset = wire[c].reset
    BY <1>3, <1>5, Zenon
  <2> QED
    BY <1>5, <2>1 DEF Held, Open, Cut
<1>9. OneWay(c, "lo", Rec(v))
  BY <1>3, <1>5, Zenon DEF OneWay, Abs
<1>10. AfterEnd(c, "lo")
  BY <1>1, <1>2, <1>9, EndRecord, Zenon
<1>11. Streams!Refuse(c)
  BY <1>1, <1>8, <1>10, RefuseMaps
<1> QED
  BY <1>7, <1>11 DEF Maps

(* handleAccept, with all verdicts and all that openLocalFd may do.        *)
LEMMA AcceptStep ==
  ASSUME RInv, NEW c \in Conns, handleAccept(c)
  PROVE  RInv' /\ Maps
<1> PICK co : co = Slotted(rin.co)
  OBVIOUS
<1> PICK i : i = FirstFree(co)
  OBVIOUS
<1>1. rin.run = "run" /\ wire[c].st = "pending"
  BY DEF handleAccept
<1>2. Grown(co) /\ i \in DOMAIN co /\ co[i].closed
  BY <1>1, SlottedGrows DEF RInv, RulesRead
<1> DEFINE v == Verdict(rin.global, rin.se[wire[c].se], rin.conf.load[c].client)
<1>3. \/ wire' = [wire EXCEPT ![c].st = "stranded"] /\ UNCHANGED rin
      \/ v = "ok" /\ openLocalFd(c, co, i)
      \/ v = "out" /\ refuse(c, co, i, {"refused"})
      \/ v = "kicked" /\ refuse(c, co, i, {"refused", "leaked"})
  BY DEF handleAccept
<1>4. CASE wire' = [wire EXCEPT ![c].st = "stranded"] /\ UNCHANGED rin
  <2> PICK w : w = [wire[c] EXCEPT !.st = "stranded"]
    BY Zenon
  <2>1. wire[c] \in WireOf /\ wire \in [Conns -> WireOf]
    BY Typed DEF RInv, RTypeOK
  <2>2. /\ w \in WireOf /\ w.st = "stranded" /\ w.se = wire[c].se
        /\ w.reset = wire[c].reset /\ w.way = wire[c].way
    BY <2>1 DEF WireOf, States
  <2>3. wire' = [wire EXCEPT ![c] = w]
    BY <1>4
  <2>4. /\ wire'[c] = w /\ wire' \in [Conns -> WireOf]
        /\ \A d \in Conns \ {c} : wire'[d] = wire[d]
    BY <2>1, <2>2, <2>3
  <2>5. \A j \in DOMAIN rin.co : ~rin.co[j].closed => rin.co[j].conn # c
    BY <1>1, Zenon DEF RInv, SlotsOK, LinkOK
  <2>6. SlotsOK'
    <3>1. \A j \in DOMAIN rin.co : ~rin.co[j].closed =>
            rin.co[j].conn \in Conns /\ LinkOK(rin.co[j], wire'[rin.co[j].conn])
      BY <2>4, <2>5 DEF RInv, SlotsOK
    <3> QED
      BY <1>4, <3>1 DEF SlotsOK, RInv
  <2>7. WaitingOK'
    BY <2>2, <2>4, Zenon DEF WaitingOK, RInv
  <2>8. RulesRead'
    <3>1. \A d \in Conns : wire'[d].st # "none" => rin.run = "run" /\ wire'[d].se \in DOMAIN rin.se
      <4>1. \A d \in Conns : wire[d].st # "none" => rin.run = "run" /\ wire[d].se \in DOMAIN rin.se
        BY DEF RInv, RulesRead
      <4>2. wire'[c].se \in DOMAIN rin.se
        BY <1>1, <2>2, <2>4, <4>1
      <4> QED
        BY <1>1, <2>4, <4>1, <4>2, Zenon
    <3> QED
      BY <1>4, <3>1, RulesKept DEF RInv
  <2>9. RInv'
    BY <1>4, <2>4, <2>6, <2>7, <2>8 DEF RInv, RTypeOK
  <2>10. \A d \in Conns : Same(d)
    BY <1>1, <2>2, <2>4, ZenonT(30) DEF Same, Open, Cut, Abs
  <2> QED
    BY <2>9, <2>10, SameMaps DEF Maps
<1>5. CASE v = "ok" /\ openLocalFd(c, co, i)
  <2>1. CASE /\ rin' = [rin EXCEPT !.co = [co EXCEPT ![i] = Taken(c)]]
             /\ wire' = [wire EXCEPT ![c].st = "open"]
    BY <1>1, <1>2, <1>5, <2>1, ServedStep, Zenon
  <2>2. CASE /\ rin' = [rin EXCEPT !.co = [co EXCEPT ![i] = Free]]
             /\ wire' = [Hangup(c, "re") EXCEPT ![c].st = "refused"]
    BY <1>1, <1>2, <2>2, RefusedStep, Zenon
  <2> QED
    BY <1>5, <2>1, <2>2 DEF openLocalFd
<1>6. CASE refuse(c, co, i, {"refused"}) \/ refuse(c, co, i, {"refused", "leaked"})
  <2>1. PICK st \in {"refused", "leaked"} :
          /\ rin' = [rin EXCEPT !.co = [co EXCEPT ![i] = Free]]
          /\ wire' = [Hangup(c, "re") EXCEPT ![c].st = st]
    BY <1>6 DEF refuse
  <2> QED
    BY <1>1, <1>2, <2>1, RefusedStep, Zenon
<1> QED
  BY <1>3, <1>4, <1>5, <1>6

-----------------------------------------------------------------------------
(* readConfiguration, one line at a time.                                  *)
LinesBelow(lines, n, kind, o) ==
  {lines[j].who : j \in {k \in 1 .. n : lines[k].kind = kind /\ OwnerOf(lines, k) = o}}

(* A line belongs to the server counted by the forwarding rules above it.  *)
LEMMA ServersCount ==
  ASSUME NEW lines \in Seq(ConfLine), NEW n \in 0 .. Len(lines) - 1
  PROVE  /\ n \in Nat /\ n + 1 \in DOMAIN lines /\ lines[n + 1] \in ConfLine
         /\ IsFiniteSet(ServersIn(lines, n)) /\ Cardinality(ServersIn(lines, n)) \in Nat
         /\ OwnerOf(lines, n + 1) = Cardinality(ServersIn(lines, n))
         /\ \A k \in 1 .. n + 1 : OwnerOf(lines, k) <= Cardinality(ServersIn(lines, n)) /\ OwnerOf(lines, k) \in Nat
<1>1. /\ Len(lines) \in Nat /\ n \in Nat /\ n < Len(lines) /\ DOMAIN lines = 1 .. Len(lines)
      /\ n + 1 \in 1 .. Len(lines)
  BY LenFacts
<1>2. n + 1 \in DOMAIN lines /\ lines[n + 1] \in ConfLine
  BY <1>1
<1> DEFINE S == ServersIn(lines, n)
           before(k) == {j \in ServersIn(lines, Len(lines)) : j < k}
<1>3. IsFiniteSet(1 .. n)
  BY <1>1, FS_Interval
<1>4. S \subseteq 1 .. n
  BY DEF ServersIn
<1>5. IsFiniteSet(S) /\ Cardinality(S) \in Nat
  BY <1>3, <1>4, FS_Subset, FS_CardinalityType
<1>6. before(n + 1) = S
  BY <1>1 DEF ServersIn
<1>7. ASSUME NEW k \in 1 .. n + 1
      PROVE  Cardinality(before(k)) <= Cardinality(S) /\ Cardinality(before(k)) \in Nat
  <2>1. before(k) \subseteq S
    BY <1>1 DEF ServersIn
  <2> HIDE DEF before, S
  <2> QED
    BY <1>5, <2>1, FS_Subset, FS_CardinalityType
<1> QED
  BY <1>1, <1>2, <1>5, <1>6, <1>7, Zenon DEF OwnerOf

(* A rule goes to the last server that works, or to all of them.           *)
AddTo(r, l) == [r EXCEPT ![l.kind] = Append(@, l.who)]

NewRule(lines, n, global, se, g, q) ==
  LET l == lines[n + 1] IN
  /\ l.kind \in RuleKinds
  /\ IF se = <<>> THEN /\ g = AddTo(global, l) /\ q = se
     ELSE /\ g = global /\ q = [se EXCEPT ![Len(se)] = AddTo(se[Len(se)], l)]

(* A sequence with one element replaced.                                   *)
LEMMA Replaced ==
  ASSUME NEW S, NEW a \in Seq(S), NEW j \in DOMAIN a, NEW x \in S
  PROVE  /\ [a EXCEPT ![j] = x] \in Seq(S) /\ Len([a EXCEPT ![j] = x]) = Len(a)
         /\ [a EXCEPT ![j] = x][j] = x
         /\ \A o \in DOMAIN a \ {j} : [a EXCEPT ![j] = x][o] = a[o]
OBVIOUS

(* readConfiguration puts a rule at the end of the list of the last        *)
(* server, or of the global list when there is no server yet.              *)
LEMMA RuleGoes ==
  ASSUME NEW lines \in Seq(ConfLine), NEW n \in 0 .. Len(lines) - 1,
         NEW global \in RuleSet, NEW se \in Seq(RuleSet), NEW g, NEW q,
         NewRule(lines, n, global, se, g, q)
  PROVE  /\ g \in RuleSet /\ q \in Seq(RuleSet) /\ Len(q) = Len(se)
         /\ \A o \in 0 .. Len(se), kind \in RuleKinds :
              RulesOf(g, q, o)[kind] =
                IF o = Len(se) /\ kind = lines[n + 1].kind
                  THEN Append(RulesOf(global, se, o)[kind], lines[n + 1].who)
                  ELSE RulesOf(global, se, o)[kind]
<1> DEFINE l == lines[n + 1]
           m == Len(se)
<1>1. l \in ConfLine /\ l.who \in SUBSET Nat /\ l.kind \in RuleKinds
  BY ServersCount, Zenon DEF ConfLine, NewRule
<1>2. m \in Nat /\ (se = <<>> <=> m = 0) /\ DOMAIN se = 1 .. m
  BY LenFacts
<1> HIDE DEF l, m
<1>3. ASSUME NEW r \in RuleSet
      PROVE  LET t == AddTo(r, l)
             IN t \in RuleSet /\ t[l.kind] = Append(r[l.kind], l.who)
                /\ \A kind \in RuleKinds \ {l.kind} : t[kind] = r[kind]
  <2>1. r[l.kind] \in Seq(SUBSET Nat)
    BY <1>1 DEF RuleSet
  <2>2. Append(r[l.kind], l.who) \in Seq(SUBSET Nat)
    BY <1>1, <2>1
  <2> QED
    BY <1>1, <2>2 DEF RuleSet, AddTo
<1>4. CASE se = <<>>
  <2>1. g = AddTo(global, l) /\ q = se
    BY <1>4 DEF NewRule, l
  <2>2. \A o \in 0 .. m : o = 0 /\ o = m
    BY <1>2, <1>4
  <2> QED
    BY <1>3, <2>1, <2>2, Zenon DEF RulesOf, m, l
<1>5. CASE se # <<>>
  <2> DEFINE t == AddTo(se[m], l)
  <2>1. g = global /\ q = [se EXCEPT ![m] = t]
    BY <1>5 DEF NewRule, l, m
  <2>2. m \in DOMAIN se /\ m # 0 /\ se[m] \in RuleSet
    BY <1>2, <1>5
  <2>3. /\ t \in RuleSet /\ t[l.kind] = Append(se[m][l.kind], l.who)
        /\ \A kind \in RuleKinds \ {l.kind} : t[kind] = se[m][kind]
    BY <1>3, <2>2, Zenon
  <2> HIDE DEF t
  <2>4. q \in Seq(RuleSet) /\ Len(q) = m /\ q[m] = t /\ \A o \in 1 .. m : o # m => q[o] = se[o]
    BY <1>2, <2>1, <2>2, <2>3, Replaced DEF m
  <2>5. ASSUME NEW o \in 0 .. m, NEW kind \in RuleKinds
        PROVE  RulesOf(g, q, o)[kind] = IF o = m /\ kind = l.kind
                                          THEN Append(RulesOf(global, se, o)[kind], l.who)
                                          ELSE RulesOf(global, se, o)[kind]
    <3>1. CASE o = 0
      BY <2>1, <2>2, <3>1 DEF RulesOf
    <3>2. CASE o # 0 /\ o # m
      BY <1>2, <2>4, <3>2 DEF RulesOf
    <3>3. CASE o = m
      BY <2>2, <2>3, <2>4, <3>3, Zenon DEF RulesOf
    <3> QED
      BY <3>1, <3>2, <3>3
  <2> QED
    BY <2>1, <2>4, <2>5, Zenon DEF m, l
<1> QED
  BY <1>4, <1>5

(* The elements of a sequence with one more.                               *)
LEMMA AppendSet ==
  ASSUME NEW S, NEW r \in Seq(S), NEW x \in S
  PROVE  ToSet(Append(r, x)) = ToSet(r) \cup {x}
<1> DEFINE q == Append(r, x)
           m == Len(r)
<1>1. m \in Nat /\ DOMAIN r = 1 .. m
  OBVIOUS
<1>2. q[m + 1] = x /\ DOMAIN q = 1 .. m + 1 /\ \A j \in 1 .. m : q[j] = r[j]
  OBVIOUS
<1> HIDE DEF q, m
<1>3. DOMAIN q = DOMAIN r \cup {m + 1}
  BY <1>1, <1>2
<1> QED
  BY <1>1, <1>2, <1>3 DEF ToSet, q

(* A sequence of any kind with one element more.                           *)
LEMMA AppendRules ==
  ASSUME NEW S, NEW r \in Seq(S), NEW x
  PROVE  /\ Len(Append(r, x)) = Len(r) + 1 /\ Len(r) \in Nat /\ Append(r, x)[Len(r) + 1] = x
         /\ \A j \in 1 .. Len(r) : Append(r, x)[j] = r[j]
OBVIOUS

(* A rule line keeps the rules those of the lines read.                    *)
LEMMA RuleMatches ==
  ASSUME NEW lines \in Seq(ConfLine), NEW n \in 0 .. Len(lines) - 1,
         NEW global \in RuleSet, NEW se \in Seq(RuleSet), NEW g, NEW q,
         NewRule(lines, n, global, se, g, q), RulesMatch(lines, n, global, se)
  PROVE  RulesMatch(lines, n + 1, g, q)
<1> DEFINE l == lines[n + 1]
           m == Len(se)
<1>1. /\ n \in Nat /\ n + 1 \in DOMAIN lines /\ l \in ConfLine
      /\ OwnerOf(lines, n + 1) = Cardinality(ServersIn(lines, n))
  BY ServersCount
<1>2. l.kind \in RuleKinds /\ l.kind # "server"
  BY DEF NewRule, RuleKinds
<1>3. ServersIn(lines, n + 1) = ServersIn(lines, n)
  BY <1>1, <1>2 DEF ServersIn
<1>4. /\ Len(q) = m
      /\ \A o \in 0 .. m, kind \in RuleKinds :
           RulesOf(g, q, o)[kind] = IF o = m /\ kind = l.kind
                                      THEN Append(RulesOf(global, se, o)[kind], l.who)
                                      ELSE RulesOf(global, se, o)[kind]
  BY RuleGoes
<1> SUFFICES ASSUME \A j \in ServersIn(lines, n) : lines[j].ok
             PROVE  /\ Len(q) = Cardinality(ServersIn(lines, n + 1))
                    /\ \A o \in 0 .. Len(q), kind \in RuleKinds :
                         ToSet(RulesOf(g, q, o)[kind]) = LinesBelow(lines, n + 1, kind, o)
  BY <1>3 DEF RulesMatch, LinesBelow
<1>5. /\ m = Cardinality(ServersIn(lines, n)) /\ OwnerOf(lines, n + 1) = m
      /\ \A o \in 0 .. m, kind \in RuleKinds :
           ToSet(RulesOf(global, se, o)[kind]) = LinesBelow(lines, n, kind, o)
  BY <1>1, Zenon DEF RulesMatch, LinesBelow
<1>6. ASSUME NEW o \in 0 .. m, NEW kind \in RuleKinds
      PROVE  LinesBelow(lines, n + 1, kind, o) =
               IF o = m /\ kind = l.kind THEN LinesBelow(lines, n, kind, o) \cup {l.who}
                                         ELSE LinesBelow(lines, n, kind, o)
  <2>1. 1 .. n + 1 = (1 .. n) \cup {n + 1}
    BY <1>1
  <2> QED
    BY <1>5, <2>1 DEF LinesBelow
<1>7. ASSUME NEW o \in 0 .. m, NEW kind \in RuleKinds
      PROVE  ToSet(RulesOf(g, q, o)[kind]) = LinesBelow(lines, n + 1, kind, o)
  <2> DEFINE r == RulesOf(global, se, o)[kind]
  <2>1. CASE o = m /\ kind = l.kind
    <3>1. r \in Seq(SUBSET Nat)
      <4>1. RulesOf(global, se, o) \in RuleSet
        BY DEF RulesOf
      <4> QED
        BY <4>1 DEF RuleSet
    <3>2. l.who \in SUBSET Nat
      BY <1>1 DEF ConfLine
    <3>3. ToSet(Append(r, l.who)) = ToSet(r) \cup {l.who}
      BY <3>1, <3>2, AppendSet
    <3> QED
      BY <1>4, <1>5, <1>6, <2>1, <3>3, Zenon
  <2>2. CASE ~(o = m /\ kind = l.kind)
    BY <1>4, <1>5, <1>6, <2>2, ZenonT(30)
  <2> QED
    BY <2>1, <2>2
<1> QED
  BY <1>3, <1>4, <1>5, <1>7

(* A server line opens a new list of rules.                                *)
LEMMA ServerMatches ==
  ASSUME NEW lines \in Seq(ConfLine), NEW n \in 0 .. Len(lines) - 1,
         NEW global \in RuleSet, NEW se \in Seq(RuleSet), NEW q,
         lines[n + 1].kind = "server",
         q = IF lines[n + 1].ok THEN Append(se, Rules) ELSE se,
         RulesMatch(lines, n, global, se)
  PROVE  RulesMatch(lines, n + 1, global, q)
<1> DEFINE S == ServersIn(lines, n)
           m == Len(se)
<1>1. /\ n \in Nat /\ n + 1 \in DOMAIN lines
      /\ IsFiniteSet(S) /\ Cardinality(S) \in Nat
      /\ \A k \in 1 .. n + 1 : OwnerOf(lines, k) <= Cardinality(S) /\ OwnerOf(lines, k) \in Nat
  BY ServersCount
<1>2. ServersIn(lines, n + 1) = S \cup {n + 1} /\ n + 1 \notin S
  BY <1>1 DEF ServersIn
<1> SUFFICES ASSUME \A j \in ServersIn(lines, n + 1) : lines[j].ok
             PROVE  /\ Len(q) = Cardinality(ServersIn(lines, n + 1))
                    /\ \A o \in 0 .. Len(q), kind \in RuleKinds :
                         ToSet(RulesOf(global, q, o)[kind]) = LinesBelow(lines, n + 1, kind, o)
  BY Zenon DEF RulesMatch, LinesBelow
<1>3. q = Append(se, Rules)
  BY <1>2
<1>4. /\ m = Cardinality(S)
      /\ \A o \in 0 .. m, kind \in RuleKinds :
           ToSet(RulesOf(global, se, o)[kind]) = LinesBelow(lines, n, kind, o)
  BY <1>2, Zenon DEF RulesMatch, LinesBelow
<1>5. Cardinality(ServersIn(lines, n + 1)) = m + 1
  BY <1>1, <1>2, <1>4, FS_AddElement, Zenon
<1>6. /\ Len(q) = m + 1 /\ m \in Nat /\ q[m + 1] = Rules
      /\ \A o \in 1 .. m : q[o] = se[o]
  BY <1>3, AppendRules
<1>7. \A kind \in RuleKinds : \A o : LinesBelow(lines, n + 1, kind, o) = LinesBelow(lines, n, kind, o)
  <2>1. 1 .. n + 1 = (1 .. n) \cup {n + 1}
    BY <1>1
  <2> QED
    BY <2>1 DEF LinesBelow, RuleKinds
<1>8. ASSUME NEW o \in 0 .. m + 1, NEW kind \in RuleKinds
      PROVE  ToSet(RulesOf(global, q, o)[kind]) = LinesBelow(lines, n, kind, o)
  <2>1. CASE o \in 0 .. m
    <3>1. RulesOf(global, q, o) = RulesOf(global, se, o)
      BY <1>6, <2>1 DEF RulesOf
    <3> QED
      BY <1>4, <2>1, <3>1
  <2>2. CASE o = m + 1
    <3>1. RulesOf(global, q, o)[kind] = <<>>
      BY <1>6, <2>2 DEF RulesOf, Rules, RuleKinds
    <3>2. \A k \in 1 .. n : OwnerOf(lines, k) # o
      BY <1>1, <1>4, <1>6, <2>2
    <3> QED
      BY <3>1, <3>2 DEF LinesBelow, ToSet
  <2> QED
    BY <1>6, <2>1, <2>2
<1> QED
  BY <1>5, <1>6, <1>7, <1>8

-----------------------------------------------------------------------------
(* The process reads or registers: no connection was made yet.             *)
Quiet(read, run, conf, global, se, co) ==
  /\ rin' \in [run : {"off", "conf", "run", "exit"}, conf : Confs, read : Nat,
               global : RuleSet, se : Seq(RuleSet), co : Seq(Slot)]
  /\ rin'.read = read /\ rin'.run = run /\ rin'.conf = conf
  /\ rin'.global = global /\ rin'.se = se /\ rin'.co = co
  /\ wire' = wire
  /\ read \in 0 .. Len(conf.lines)
  /\ run # "off" /\ (run = "run" => read = Len(conf.lines)) /\ (run \in {"conf", "run"} => co # <<>>)
  /\ RulesMatch(conf.lines, read, global, se)
  /\ \A i \in DOMAIN co : co[i].closed \/ (i \in DOMAIN rin.co /\ co[i] = rin.co[i])

(* A step before connections are served keeps the invariant when the rules *)
(* it leaves match the lines read, and is a stutter of the streams.        *)
LEMMA QuietStep ==
  ASSUME RInv, rin.run \in {"off", "conf"}, NEW read, NEW run, NEW conf, NEW global, NEW se, NEW co,
         Quiet(read, run, conf, global, se, co)
  PROVE  RInv' /\ Maps
<1>1. wire' = wire /\ rin'.co = co
  BY DEF Quiet
<1>2. \A c \in Conns : wire[c].st = "none"
  BY SMTT(30) DEF RInv, RulesRead
<1>3. \A i \in DOMAIN rin.co : rin.co[i].closed
  BY <1>2, Zenon DEF RInv, SlotsOK, LinkOK
<1>4. \A i \in DOMAIN co : co[i].closed
  BY <1>3 DEF Quiet
<1>5. SlotsOK'
  BY <1>1, <1>4 DEF SlotsOK
<1>6. WaitingOK'
  BY <1>1 DEF WaitingOK, RInv
<1>7. RulesRead'
  BY <1>1, <1>2 DEF RulesRead, Quiet
<1>8. RTypeOK'
  BY <1>1 DEF RTypeOK, RInv, Quiet
<1>9. \A c \in Conns : Same(c)
  BY <1>1 DEF Same, Open, Cut, Abs
<1> QED
  BY <1>5, <1>6, <1>7, <1>8, <1>9, SameMaps DEF RInv, Maps

(* Before the first line there are no rules, as the file says.             *)
LEMMA NothingRead ==
  ASSUME NEW lines
  PROVE  RulesMatch(lines, 0, Rules, <<>>)
<1>1. ServersIn(lines, 0) = {} /\ Len(<<>>) = 0
  BY DEF ServersIn
<1>2. Cardinality(ServersIn(lines, 0)) = 0
  BY <1>1, FS_EmptySet
<1>3. \A kind \in RuleKinds : Rules[kind] = <<>>
  BY DEF Rules, RuleKinds
<1>4. \A o \in 0 .. 0, kind \in RuleKinds : ToSet(RulesOf(Rules, <<>>, o)[kind]) = {}
  BY <1>3 DEF RulesOf, ToSet
<1> QED
  BY <1>1, <1>2, <1>4 DEF RulesMatch

(* Empty lists of rules are rules.                                         *)
LEMMA NoRules == Rules \in RuleSet
<1> DEFINE S == SUBSET Nat
<1>1. <<>> \in Seq(S)
  OBVIOUS
<1> HIDE DEF S
<1> DEFINE T == Seq(S)
<1>2. <<>> \in T
  BY <1>1
<1> HIDE DEF T
<1> DEFINE e == <<>>
<1>3. e \in T
  BY <1>2
<1> HIDE DEF e
<1>4. Rules = [kind \in RuleKinds |-> e]
  BY DEF Rules, RuleKinds, e
<1>5. Rules \in [RuleKinds -> T]
  BY <1>3, <1>4
<1> QED
  BY <1>5 DEF RuleSet, T, S

(* initArrays.                                                             *)
LEMMA StartStep ==
  ASSUME RInv, RinetdStart
  PROVE  RInv' /\ Maps
<1>1. PICK conf \in RinetdConfs :
        rin' = [rin EXCEPT !.run = "conf", !.conf = conf, !.co = [k \in 1 .. coFirst |-> Free]]
  BY Zenon DEF RinetdStart
<1> PICK co : co = [k \in 1 .. coFirst |-> Free]
  BY Zenon
<1>2. co \in Seq(Slot) /\ co # <<>> /\ DOMAIN co = 1 .. coFirst /\ \A k \in 1 .. coFirst : co[k].closed
  <2>1. coFirst \in Nat /\ coFirst # 0
    BY RinetdAssumption
  <2> QED
    BY <2>1, FreeSlot
<1>3. /\ rin \in [run : {"off", "conf", "run", "exit"}, conf : Confs, read : Nat,
                  global : RuleSet, se : Seq(RuleSet), co : Seq(Slot)]
      /\ rin.run = "off" /\ wire' = wire
      /\ rin.read = 0 /\ rin.se = <<>> /\ rin.global = Rules
  BY DEF RInv, RTypeOK, RulesRead, RinetdStart
<1>4. /\ rin' \in [run : {"off", "conf", "run", "exit"}, conf : Confs, read : Nat,
                   global : RuleSet, se : Seq(RuleSet), co : Seq(Slot)]
      /\ rin'.run = "conf" /\ rin'.conf = conf /\ rin'.read = 0
      /\ rin'.global = Rules /\ rin'.se = <<>> /\ rin'.co = co
  BY <1>1, <1>2, <1>3, Zenon DEF Confs
<1>5. conf.lines \in Seq(ConfLine) /\ 0 \in 0 .. Len(conf.lines)
  <2>1. conf.lines \in Seq(ConfLine)
    BY RinetdAssumption
  <2>2. Len(conf.lines) \in Nat
    BY <2>1
  <2> QED
    BY <2>1, <2>2
<1>6. RulesMatch(conf.lines, 0, Rules, <<>>)
  BY NothingRead
<1>7. Quiet(0, "conf", conf, Rules, <<>>, co)
  BY <1>2, <1>3, <1>4, <1>5, <1>6 DEF Quiet
<1> QED
  BY <1>3, <1>7, QuietStep, SMTT(30)

(* RegisterPID.                                                            *)
LEMMA RegisterStep ==
  ASSUME RInv, RegisterPID
  PROVE  RInv' /\ Maps
<1>1. PICK run \in {"exit", "run"} : rin' = [rin EXCEPT !.run = run]
  <2>1. PICK locked \in BOOLEAN : rin' = [rin EXCEPT !.run = IF locked THEN "exit" ELSE "run"]
    BY DEF RegisterPID
  <2> QED
    BY <2>1
<1>2. /\ rin \in [run : {"off", "conf", "run", "exit"}, conf : Confs, read : Nat,
                  global : RuleSet, se : Seq(RuleSet), co : Seq(Slot)]
      /\ rin.run = "conf" /\ wire' = wire /\ rin.read = Len(rin.conf.lines)
  BY DEF RInv, RTypeOK, RegisterPID
<1>3. /\ rin' \in [run : {"off", "conf", "run", "exit"}, conf : Confs, read : Nat,
                   global : RuleSet, se : Seq(RuleSet), co : Seq(Slot)]
      /\ rin'.run = run /\ rin'.conf = rin.conf /\ rin'.read = rin.read
      /\ rin'.global = rin.global /\ rin'.se = rin.se /\ rin'.co = rin.co
  BY <1>1, <1>2
<1>4. /\ RulesMatch(rin.conf.lines, rin.read, rin.global, rin.se)
      /\ rin.read \in 0 .. Len(rin.conf.lines) /\ rin.co # <<>>
  BY <1>2 DEF RInv, RulesRead
<1> PICK read : read = rin.read
  OBVIOUS
<1> PICK conf : conf = rin.conf
  OBVIOUS
<1> PICK global : global = rin.global
  OBVIOUS
<1> PICK se : se = rin.se
  OBVIOUS
<1> PICK co : co = rin.co
  OBVIOUS
<1>5. Quiet(read, run, conf, global, se, co)
  BY <1>1, <1>2, <1>3, <1>4 DEF Quiet
<1> QED
  BY <1>2, <1>5, QuietStep

(* One line of the configuration file.                                     *)
LEMMA ConfStep ==
  ASSUME RInv, readConfiguration
  PROVE  RInv' /\ Maps
<1> PICK n : n = rin.read
  OBVIOUS
<1> PICK conf : conf = rin.conf
  OBVIOUS
<1> PICK global : global = rin.global
  OBVIOUS
<1> PICK se : se = rin.se
  OBVIOUS
<1> PICK co : co = rin.co
  OBVIOUS
<1> PICK l : l = conf.lines[n + 1]
  OBVIOUS
<1> DEFINE lines == conf.lines
           r == [rin EXCEPT !.read = n + 1]
<1>1. /\ rin \in [run : {"off", "conf", "run", "exit"}, conf : Confs, read : Nat,
                  global : RuleSet, se : Seq(RuleSet), co : Seq(Slot)]
      /\ rin.run = "conf" /\ wire' = wire /\ n < Len(lines)
      /\ RulesMatch(lines, n, global, se) /\ co # <<>>
      /\ lines \in Seq(ConfLine) /\ n \in Nat
  BY LinesTyped DEF RInv, RTypeOK, RulesRead, readConfiguration
<1>2. n \in 0 .. Len(lines) - 1 /\ n + 1 \in 0 .. Len(lines) /\ n + 1 \in Nat
  <2> DEFINE m == Len(lines)
  <2>1. m \in Nat
    BY <1>1
  <2> HIDE DEF m
  <2>2. n < m
    BY <1>1 DEF m
  <2>3. n \in 0 .. m - 1 /\ n + 1 \in 0 .. m /\ n + 1 \in Nat
    BY <1>1, <2>1, <2>2
  <2> QED
    BY <2>3 DEF m
<1>3. l \in ConfLine
  BY <1>1, <1>2, ServersCount
<1>4. /\ r \in [run : {"off", "conf", "run", "exit"}, conf : Confs, read : Nat,
                global : RuleSet, se : Seq(RuleSet), co : Seq(Slot)]
      /\ r.run = "conf" /\ r.conf = conf /\ r.read = n + 1
      /\ r.global = global /\ r.se = se /\ r.co = co
  BY <1>1, <1>2
<1>5. rin' = IF l.kind = "server" THEN ServerLine(r, l) ELSE RuleLine(r, l)
  BY DEF readConfiguration
<1> HIDE DEF r
<1>6. ASSUME NEW g \in RuleSet, NEW q \in Seq(RuleSet), RulesMatch(lines, n + 1, g, q),
             rin' \in [run : {"off", "conf", "run", "exit"}, conf : Confs, read : Nat,
                       global : RuleSet, se : Seq(RuleSet), co : Seq(Slot)],
             rin'.run = "conf" /\ rin'.conf = conf /\ rin'.read = n + 1,
             rin'.global = g /\ rin'.se = q /\ rin'.co = co
      PROVE  RInv' /\ Maps
  <2>1. Quiet(n + 1, "conf", conf, g, q, co)
    BY <1>1, <1>2, <1>6 DEF Quiet
  <2> QED
    BY <1>1, <2>1, QuietStep
<1>7. CASE l.kind = "server"
  <2> PICK q : q = IF l.ok THEN Append(se, Rules) ELSE se
    BY Zenon
  <2>1. Rules \in RuleSet
    BY NoRules
  <2>2. q \in Seq(RuleSet)
    BY <1>1, <2>1
  <2>3. RulesMatch(lines, n + 1, global, q)
    BY <1>1, <1>2, <1>7, ServerMatches, Zenon
  <2>4. rin' = [r EXCEPT !.se = q]
    <3>1. r = [r EXCEPT !.se = r.se]
      BY <1>4
    <3>2. rin' = ServerLine(r, l)
      BY <1>5, <1>7
    <3>3. CASE l.ok
      BY <1>4, <3>2, <3>3 DEF ServerLine
    <3>4. CASE ~l.ok
      BY <1>4, <3>1, <3>2, <3>4, SMTT(30) DEF ServerLine
    <3> QED
      BY <3>3, <3>4
  <2>5. /\ rin' \in [run : {"off", "conf", "run", "exit"}, conf : Confs, read : Nat,
                     global : RuleSet, se : Seq(RuleSet), co : Seq(Slot)]
        /\ rin'.run = "conf" /\ rin'.conf = conf /\ rin'.read = n + 1
        /\ rin'.global = global /\ rin'.se = q /\ rin'.co = co
    BY <1>4, <2>2, <2>4, Zenon
  <2> QED
    BY <1>1, <1>6, <2>2, <2>3, <2>5, Zenon
<1>8. CASE l.kind # "server"
  <2> PICK g : g = IF se = <<>> THEN AddTo(global, l) ELSE global
    OBVIOUS
  <2> PICK q : q = IF se = <<>> THEN se ELSE [se EXCEPT ![Len(se)] = AddTo(se[Len(se)], l)]
    BY Zenon
  <2>1. NewRule(lines, n, global, se, g, q)
    BY <1>3, <1>8 DEF NewRule, ConfLine, RuleKinds
  <2>2. g \in RuleSet /\ q \in Seq(RuleSet)
    BY <1>1, <1>2, <2>1, RuleGoes
  <2>3. RulesMatch(lines, n + 1, g, q)
    BY <1>1, <1>2, <2>1, RuleMatches
  <2>4. rin' = [r EXCEPT !.global = g, !.se = q]
    <3>1. r = [r EXCEPT !.se = r.se] /\ r = [r EXCEPT !.global = r.global]
      BY <1>4
    <3>2. rin' = RuleLine(r, l)
      BY <1>5, <1>8, SMTT(30)
    <3>3. CASE se = <<>>
      BY <1>4, <3>2, <3>3, ZenonT(30) DEF RuleLine, AddTo
    <3>4. CASE se # <<>>
      BY <1>4, <3>2, <3>4, Zenon DEF RuleLine, AddTo
    <3> QED
      BY <3>3, <3>4
  <2>5. /\ rin' \in [run : {"off", "conf", "run", "exit"}, conf : Confs, read : Nat,
                     global : RuleSet, se : Seq(RuleSet), co : Seq(Slot)]
        /\ rin'.run = "conf" /\ rin'.conf = conf /\ rin'.read = n + 1
        /\ rin'.global = g /\ rin'.se = q /\ rin'.co = co
    BY <1>4, <2>2, <2>4, Zenon
  <2> QED
    BY <1>1, <1>6, <2>2, <2>3, <2>5, Zenon
<1> QED
  BY <1>7, <1>8

-----------------------------------------------------------------------------
(* The invariant holds before rinetd is started.                           *)
LEMMA InitRInv ==
  ASSUME RinetdInit
  PROVE  RInv
<1> DEFINE none == [lines |-> <<>>, load |-> <<>>]
<1>1. /\ rin = [run |-> "off", conf |-> none,
                read |-> 0, global |-> Rules, se |-> <<>>, co |-> <<>>]
      /\ wire = [c \in Conns |-> Wire]
  BY DEF RinetdInit
<1>2. none \in Confs /\ none.lines = <<>>
  BY DEF Confs
<1> HIDE DEF none
<1>3. <<>> \in Seq(RuleSet) /\ <<>> \in Seq(Slot)
  OBVIOUS
<1>4. rin \in [run : {"off", "conf", "run", "exit"}, conf : Confs, read : Nat,
               global : RuleSet, se : Seq(RuleSet), co : Seq(Slot)]
  BY <1>1, <1>2, <1>3, NoRules
<1>5. Wire \in WireOf
  <2>1. <<>> \in Bytes
    BY DEF Bytes
  <2> DEFINE v == [sent |-> <<>>, queue |-> <<>>, fin |-> FALSE, got |-> <<>>, eof |-> FALSE]
  <2>2. v \in Way
    BY <2>1 DEF Way
  <2>3. Wire = [st |-> "none", se |-> 0, reset |-> {}, way |-> [s \in Sides |-> v]]
    BY DEF Wire
  <2> HIDE DEF v
  <2>4. [s \in Sides |-> v] \in [Sides -> Way]
    BY <2>2
  <2> QED
    BY <2>3, <2>4 DEF WireOf, States
<1>6. RTypeOK
  BY <1>1, <1>4, <1>5 DEF RTypeOK
<1>7. SlotsOK
  BY <1>1 DEF SlotsOK
<1>8. WaitingOK
  BY <1>1 DEF WaitingOK, Unheard, Wire
<1>9. RulesMatch(<<>>, 0, Rules, <<>>)
  BY NothingRead
<1>10. RulesRead
  BY <1>1, <1>2, <1>9 DEF RulesRead, Wire
<1> QED
  BY <1>6, <1>7, <1>8, <1>10 DEF RInv

(* A step of another program.                                              *)
LEMMA IdleStep ==
  ASSUME RInv, UNCHANGED rvars
  PROVE  RInv' /\ Maps
<1>1. RInv'
  BY DEF RInv, RTypeOK, SlotsOK, WaitingOK, RulesRead, rvars
<1>2. \A c \in Conns : Same(c)
  BY DEF Same, Open, Cut, Abs, rvars
<1> QED
  BY <1>1, <1>2, SameMaps DEF Maps

(* Every step of rinetd, its peers included, keeps the invariant and is a  *)
(* step of the streams or a stutter.                                       *)
LEMMA RinetdStep ==
  ASSUME RInv, [RinetdNext]_rvars
  PROVE  RInv' /\ Maps
<1>1. CASE Handle
  <2>1. PICK i \in DOMAIN rin.co : \/ handleRemoteRead(i) \/ handleRemoteWrite(i)
                                   \/ handleLocalRead(i) \/ handleLocalWrite(i)
    BY <1>1 DEF Handle
  <2>2. "re" \in Sides /\ "lo" \in Sides
    BY DEF Sides
  <2>3. CASE handleRemoteRead(i)
    BY <2>2, <2>3, ReadStep DEF handleRemoteRead
  <2>4. CASE handleRemoteWrite(i)
    BY <2>2, <2>4, WriteStep DEF handleRemoteWrite
  <2>5. CASE handleLocalRead(i)
    BY <2>2, <2>5, ReadStep DEF handleLocalRead
  <2>6. CASE handleLocalWrite(i)
    BY <2>2, <2>6, WriteStep DEF handleLocalWrite
  <2> QED
    BY <2>1, <2>3, <2>4, <2>5, <2>6
<1>2. CASE Peers
  <2>1. PICK c \in Conns, s \in Sides : PeerSend(c, s) \/ PeerFinish(c, s) \/ PeerReset(c, s)
    BY <1>2 DEF Peers
  <2> QED
    BY <2>1, PutStep, FinishStep, ResetStep
<1>3. CASE \E c \in Conns : handleAccept(c)
  BY <1>3, AcceptStep
<1>4. CASE \E c \in Conns : Connect(c)
  BY <1>4, ConnectStep
<1>5. CASE RinetdStart
  BY <1>5, StartStep
<1>6. CASE readConfiguration
  BY <1>6, ConfStep
<1>7. CASE RegisterPID
  BY <1>7, RegisterStep
<1>8. CASE UNCHANGED rvars
  BY <1>8, IdleStep
<1> QED
  BY <1>1, <1>2, <1>3, <1>4, <1>5, <1>6, <1>7, <1>8, SMTT(30) DEF RinetdNext

(* The invariant behind the refinement, of every process that starts, reads *)
(* its configuration and serves connections: the slots in use belong to     *)
(* different connections (handleAccept never gives away a slot in use), and *)
(* between what a peer sent and what the other one got lie exactly the      *)
(* bytes of the slot's buffer and of the socket, in order (handleRemoteRead *)
(* and the three handlers like it); what readConfiguration has put in the   *)
(* rules of each server is what the lines read so far say.                  *)
THEOREM RinetdInvariant == RinetdInit /\ [][RinetdNext]_rvars => []RInv
<1>1. RinetdInit => RInv
  BY InitRInv
<1>2. RInv /\ [RinetdNext]_rvars => RInv'
  BY RinetdStep
<1> QED
  BY <1>1, <1>2, PTL

(* A redirector of bytes: every step of rinetd is a step of the abstract    *)
(* specification of two streams for each connection, or changes nothing of  *)
(* them.  For any number of slots, any size of buffer and any configuration *)
(* file, bytes arrive once and in order, "polite closing" tells a peer that *)
(* the connection is over only when it has everything the other one sent    *)
(* (or the connection was lost, or it had finished itself), and only        *)
(* connections that the file's allow and deny rules admit are redirected    *)
(* (of a file with a forwarding rule that could not be set up, Admitted     *)
(* says nothing).                                                           *)
THEOREM RinetdRefinesStreams ==
  RinetdInit /\ [][RinetdNext]_rvars => Streams!Begin /\ [][Streams!Step]_(Streams!streams)
<1>1. RinetdInit => Streams!Begin
  BY BeginMaps
<1>2. RInv /\ [RinetdNext]_rvars => [Streams!Step]_(Streams!streams)
  <2>1. Maps => [Streams!Step]_(Streams!streams)
    BY DEF Maps, Streams!Step
  <2> QED
    BY <2>1, RinetdStep
<1> QED
  BY <1>1, <1>2, RinetdInvariant, PTL
=============================================================================
