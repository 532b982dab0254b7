---------------------------- MODULE RinetdLemmas ----------------------------
(* rinetd implements two byte streams for every connection it redirects,   *)
(* for any size of the buffers, any number of slots and connections, and   *)
(* any configuration file.                                                 *)
EXTENDS Rinetd, TLAPS

(* The domain and the length of a sequence.                                *)
LEMMA LenFacts ==
  ASSUME NEW S, NEW q \in Seq(S)
  PROVE  Len(q) \in Nat /\ DOMAIN q = 1 .. Len(q) /\ (q = <<>> <=> Len(q) = 0)
OBVIOUS

(* Sequences of equal length with equal elements are equal.                *)
LEMMA SameSeq ==
  ASSUME NEW S, NEW a \in Seq(S), NEW b \in Seq(S), Len(a) = Len(b),
         \A x \in 1 .. Len(a) : a[x] = b[x]
  PROVE  a = b
OBVIOUS

Bytes == Seq(Nat)
Buffer == [data : Bytes, w : Nat]
Slot == [conn : Conns \cup {0}, closed : BOOLEAN, closing : BOOLEAN,
         shut : [Sides -> BOOLEAN], buf : [Sides -> Buffer]]
Way == [sent : Bytes, queue : Bytes, fin : BOOLEAN, got : Bytes, eof : BOOLEAN]
States == {"none", "pending", "open", "refused", "stranded", "leaked"}
WireOf == [st : States, se : Nat, reset : SUBSET Sides, way : [Sides -> Way]]

RuleSet == [RuleKinds -> Seq(SUBSET Nat)]
Confs == RinetdConfs \cup {[lines |-> <<>>, load |-> <<>>]}

RTypeOK ==
  /\ rin \in [run : {"off", "conf", "run", "exit"}, conf : Confs, read : Nat,
             global : RuleSet, se : Seq(RuleSet), co : Seq(Slot)]
  /\ wire \in [Conns -> WireOf]

(* Where the bytes that side s sent are: some arrived, some wait in the    *)
(* buffer b, some in the socket.                                           *)
InOrder(way, b) ==
  LET g == Len(way.got)
      p == Len(b.data) - b.w
  IN /\ b.w <= Len(b.data)
     /\ g + p + Len(way.queue) <= Len(way.sent)
     /\ \A x \in 1 .. g : way.got[x] = way.sent[x]
     /\ \A x \in 1 .. p : b.data[b.w + x] = way.sent[g + x]
     /\ \A x \in 1 .. Len(way.queue) : way.queue[x] = way.sent[g + p + x]

Whole(way, b) == Len(way.got) + (Len(b.data) - b.w) + Len(way.queue) = Len(way.sent)

(* A slot k in use and its connection w: it is open; a side that is read from has   *)
(* lost nothing unless its peer reset the connection; one that is shut was *)
(* read to its end.                                                        *)
LinkOK(k, w) ==
  /\ w.st = "open"
  /\ \E s \in Sides : ~k.shut[s]
  /\ k.closing <=> \E s \in Sides : k.shut[s]
  /\ \A s \in Sides :
       /\ InOrder(w.way[s], k.buf[s])
       /\ s \notin w.reset => Whole(w.way[s], k.buf[s])
       /\ ~k.shut[s] => ~w.way[Other(s)].eof
       /\ k.shut[s] => w.reset # {} \/ (w.way[s].fin /\ w.way[s].queue = <<>>)
       /\ s \in w.reset => w.way[s].fin

SlotsOK ==
  /\ \A i \in DOMAIN rin.co : ~rin.co[i].closed =>
       rin.co[i].conn \in Conns /\ LinkOK(rin.co[i], wire[rin.co[i].conn])
  /\ \A i, j \in DOMAIN rin.co :
       ~rin.co[i].closed /\ ~rin.co[j].closed /\ rin.co[i].conn = rin.co[j].conn => i = j

(* Connections that were not accepted yet have only been sent on.          *)
Unheard(w) ==
  /\ w.reset = {}
  /\ \A s \in Sides : /\ w.way[s].got = <<>> /\ w.way[s].queue = w.way[s].sent
                      /\ ~w.way[s].eof

WaitingOK == \A c \in Conns : wire[c].st \in {"none", "pending"} => Unheard(wire[c])

ToSet(q) == {q[x] : x \in DOMAIN q}

(* The rules read are those of the first n lines.                          *)
ServersIn(lines, n) == {j \in 1 .. n : lines[j].kind = "server"}
OwnerOf(lines, j) == Cardinality({k \in ServersIn(lines, Len(lines)) : k < j})
RulesOf(global, se, o) == IF o = 0 THEN global ELSE se[o]

RulesMatch(lines, n, global, se) ==
  (\A j \in ServersIn(lines, n) : lines[j].ok) =>
    /\ Len(se) = Cardinality(ServersIn(lines, n))
    /\ \A o \in 0 .. Len(se), kind \in RuleKinds :
         ToSet(RulesOf(global, se, o)[kind])
           = {lines[j].who : j \in {k \in 1 .. n : lines[k].kind = kind /\ OwnerOf(lines, k) = o}}

RulesRead ==
  /\ rin.read \in 0 .. Len(rin.conf.lines)
  /\ rin.run = "off" => rin.read = 0 /\ rin.se = <<>> /\ rin.global = Rules /\ rin.conf.lines = <<>>
  /\ rin.run = "run" => rin.read = Len(rin.conf.lines)
  /\ rin.run \in {"conf", "run"} => rin.co # <<>>
  /\ RulesMatch(rin.conf.lines, rin.read, rin.global, rin.se)
  /\ \A c \in Conns : wire[c].st # "none" => rin.run = "run" /\ wire[c].se \in DOMAIN rin.se

RInv == RTypeOK /\ SlotsOK /\ WaitingOK /\ RulesRead

-----------------------------------------------------------------------------
(* The far end of the abstract streams is the other side of rinetd.        *)
LEMMA FarOther ==
  \A s \in Sides : Streams!far(s) = Other(s) /\ Other(s) \in Sides /\ Other(Other(s)) = s /\ Other(s) # s
BY DEF Streams!far, Sides, Other

(* The abstract state, by its parts.                                       *)
Rec(v) == [sent |-> v.sent, got |-> v.got, fin |-> v.fin, eof |-> v.eof]
Abs(c, s) == Rec(wire[c].way[s])
Open(c) == wire[c].st = "open"
Cut(c) == wire[c].reset # {}
Same(c) == (Open(c)' <=> Open(c)) /\ (Cut(c)' <=> Cut(c)) /\ \A s \in Sides : Abs(c, s)' = Abs(c, s)

(* rinetd starts with fresh streams, none served and none cut.             *)
LEMMA BeginMaps ==
  ASSUME RinetdInit
  PROVE  Streams!Begin
<1>1. \A c \in Conns, s \in Sides : Abs(c, s) = Streams!Fresh
  BY Zenon DEF RinetdInit, Wire, Abs, Rec, Streams!Fresh
<1>2. \A c \in Conns : (wire[c].st = "open") = FALSE /\ (wire[c].reset # {}) = FALSE
  BY DEF RinetdInit, Wire
<1>3. [c \in Conns |-> [s \in Sides |-> Abs(c, s)]] = [c \in Conns |-> [s \in Sides |-> Streams!Fresh]]
  BY <1>1
<1>4. /\ [c \in Conns |-> wire[c].st = "open"] = [c \in Conns |-> FALSE]
      /\ [c \in Conns |-> wire[c].reset # {}] = [c \in Conns |-> FALSE]
  BY <1>2, Zenon
<1> QED
  BY <1>3, <1>4, Zenon DEF Streams!Begin, Abs, Rec

(* When nothing a peer can see has changed the step is a stutter.          *)
LEMMA SameMaps ==
  ASSUME \A c \in Conns : Same(c)
  PROVE  UNCHANGED Streams!streams
<1>1. /\ \A c \in Conns : Open(c)' = Open(c) /\ Cut(c)' = Cut(c)
      /\ \A c \in Conns, s \in Sides : Abs(c, s)' = Abs(c, s)
  BY DEF Same, Open, Cut
<1>2. /\ [c \in Conns |-> [s \in Sides |-> Abs(c, s)]]' = [c \in Conns |-> [s \in Sides |-> Abs(c, s)]]
      /\ [c \in Conns |-> Open(c)]' = [c \in Conns |-> Open(c)]
      /\ [c \in Conns |-> Cut(c)]' = [c \in Conns |-> Cut(c)]
  BY <1>1
<1> QED
  BY <1>2 DEF Streams!streams, Abs, Rec, Open, Cut

(* When one stream of one connection changes, the function of all streams  *)
(* changes there only.                                                     *)
LEMMA WayMaps ==
  ASSUME NEW c \in Conns, NEW s \in Sides, NEW r,
         Abs(c, s)' = r,
         \A t \in Sides \ {s} : Abs(c, t)' = Abs(c, t),
         \A d \in Conns \ {c}, t \in Sides : Abs(d, t)' = Abs(d, t)
  PROVE  [d \in Conns |-> [t \in Sides |-> Abs(d, t)]]'
           = [[d \in Conns |-> [t \in Sides |-> Abs(d, t)]] EXCEPT ![c][s] = r]
<1>1. [t \in Sides |-> Abs(c, t)]' = [[t \in Sides |-> Abs(c, t)] EXCEPT ![s] = r]
  BY Zenon
<1> DEFINE row(d) == [t \in Sides |-> Abs(d, t)]
<1>2. row(c)' = [row(c) EXCEPT ![s] = r]
  BY <1>1
<1>3. \A d \in Conns \ {c} : row(d)' = row(d)
  OBVIOUS
<1> HIDE DEF row
<1>4. [d \in Conns |-> row(d)]' = [[d \in Conns |-> row(d)] EXCEPT ![c] = [row(c) EXCEPT ![s] = r]]
  BY <1>2, <1>3, Zenon
<1>5. [d \in Conns |-> row(d)]' = [[d \in Conns |-> row(d)] EXCEPT ![c][s] = r]
  BY <1>4
<1> QED
  BY <1>5 DEF row

(* Only what side s of c sends changes, to r.                              *)
OneWay(c, s, r) ==
  /\ Abs(c, s)' = r
  /\ \A t \in Sides \ {s} : Abs(c, t)' = Abs(c, t)
  /\ \A d \in Conns \ {c}, t \in Sides : Abs(d, t)' = Abs(d, t)

Held == \A d \in Conns : (Open(d)' <=> Open(d)) /\ (Cut(d)' <=> Cut(d))

(* When no connection is opened or cut, served and cut stay as they are.   *)
LEMMA HeldMaps ==
  ASSUME Held
  PROVE  /\ [c \in Conns |-> wire[c].st = "open"]' = [c \in Conns |-> wire[c].st = "open"]
         /\ [c \in Conns |-> wire[c].reset # {}]' = [c \in Conns |-> wire[c].reset # {}]
<1>1. \A c \in Conns : /\ (wire[c].st = "open")' = (wire[c].st = "open")
                       /\ (wire[c].reset # {})' = (wire[c].reset # {})
  BY DEF Held, Open, Cut
<1> QED
  BY <1>1

(* The same as WayMaps, with its hypotheses under one name.                *)
LEMMA OneWayMaps ==
  ASSUME NEW c \in Conns, NEW s \in Sides, NEW r, OneWay(c, s, r)
  PROVE  [d \in Conns |-> [t \in Sides |-> Abs(d, t)]]'
           = [[d \in Conns |-> [t \in Sides |-> Abs(d, t)]] EXCEPT ![c][s] = r]
BY WayMaps DEF OneWay

AfterPut(c, s, b) == OneWay(c, s, [Abs(c, s) EXCEPT !.sent = Append(@, b)])
AfterFinish(c, s) == OneWay(c, s, [Abs(c, s) EXCEPT !.fin = TRUE])
AfterDeliver(c, s, k) == OneWay(c, s, [Abs(c, s) EXCEPT !.got = SubSeq(wire[c].way[s].sent, 1, k)])
AfterEnd(c, s) == OneWay(c, s, [Abs(c, s) EXCEPT !.eof = TRUE])

(* Two ways that agree on all fields but one.                              *)
SameSent(v, w) == v.got = w.got /\ v.fin = w.fin /\ v.eof = w.eof
SameGot(v, w) == v.sent = w.sent /\ v.fin = w.fin /\ v.eof = w.eof
SameFin(v, w) == v.sent = w.sent /\ v.got = w.got /\ v.eof = w.eof
SameEof(v, w) == v.sent = w.sent /\ v.got = w.got /\ v.fin = w.fin

(* Only the end of stream was set: the abstract stream has ended.          *)
LEMMA EndRecord ==
  ASSUME NEW c \in Conns, NEW s \in Sides, NEW v,
         OneWay(c, s, Rec(v)), SameEof(v, wire[c].way[s]), v.eof = TRUE
  PROVE  AfterEnd(c, s)
<1> DEFINE F == {"sent", "got", "fin", "eof"}
           w == wire[c].way[s]
           l == [Rec(w) EXCEPT !.eof = TRUE]
           r == Rec(v)
<1>1. l.sent = w.sent /\ l.got = w.got /\ l.fin = w.fin /\ l.eof = TRUE
  BY DEF Rec
<1>2. r.sent = w.sent /\ r.got = w.got /\ r.fin = w.fin /\ r.eof = TRUE
  BY DEF Rec, SameEof
<1>3. l = [q \in F |-> l[q]] /\ r = [q \in F |-> r[q]]
  BY Zenon DEF Rec
<1> HIDE DEF l, r, w
<1>4. l = r
  BY <1>1, <1>2, <1>3, ZenonT(30)
<1> QED
  BY <1>4 DEF l, r, w, AfterEnd, OneWay, Abs

(* Only fin was set: the abstract stream has finished.                     *)
LEMMA FinishRecord ==
  ASSUME NEW c \in Conns, NEW s \in Sides, NEW v,
         OneWay(c, s, Rec(v)), SameFin(v, wire[c].way[s]), v.fin = TRUE
  PROVE  AfterFinish(c, s)
<1> DEFINE F == {"sent", "got", "fin", "eof"}
           w == wire[c].way[s]
           l == [Rec(w) EXCEPT !.fin = TRUE]
           r == Rec(v)
<1>1. l.sent = w.sent /\ l.got = w.got /\ l.fin = TRUE /\ l.eof = w.eof
  BY DEF Rec
<1>2. r.sent = w.sent /\ r.got = w.got /\ r.fin = TRUE /\ r.eof = w.eof
  BY DEF Rec, SameFin
<1>3. l = [q \in F |-> l[q]] /\ r = [q \in F |-> r[q]]
  BY Zenon DEF Rec
<1> HIDE DEF l, r, w
<1>4. l = r
  BY <1>1, <1>2, <1>3, ZenonT(30)
<1> QED
  BY <1>4 DEF l, r, w, AfterFinish, OneWay, Abs

(* Only got has changed, to a prefix of sent: bytes were delivered.        *)
LEMMA DeliverRecord ==
  ASSUME NEW c \in Conns, NEW s \in Sides, NEW v, NEW k,
         OneWay(c, s, Rec(v)), SameGot(v, wire[c].way[s]), v.got = SubSeq(wire[c].way[s].sent, 1, k)
  PROVE  AfterDeliver(c, s, k)
<1> DEFINE F == {"sent", "got", "fin", "eof"}
           w == wire[c].way[s]
           l == [Rec(w) EXCEPT !.got = SubSeq(w.sent, 1, k)]
           r == Rec(v)
<1>1. l.sent = w.sent /\ l.got = SubSeq(w.sent, 1, k) /\ l.fin = w.fin /\ l.eof = w.eof
  BY Zenon DEF Rec
<1>2. r.sent = w.sent /\ r.got = SubSeq(w.sent, 1, k) /\ r.fin = w.fin /\ r.eof = w.eof
  BY Zenon DEF Rec, SameGot
<1>3. l = [q \in F |-> l[q]] /\ r = [q \in F |-> r[q]]
  BY Zenon DEF Rec
<1> HIDE DEF l, r, w
<1>4. l = r
  BY <1>1, <1>2, <1>3, Zenon
<1> QED
  BY <1>4, Zenon DEF l, r, w, AfterDeliver, OneWay, Abs, Rec

(* Only sent has grown, by one byte: a byte was put on the stream.         *)
LEMMA PutRecord ==
  ASSUME NEW c \in Conns, NEW s \in Sides, NEW v, NEW b,
         OneWay(c, s, Rec(v)), SameSent(v, wire[c].way[s]), v.sent = Append(wire[c].way[s].sent, b)
  PROVE  AfterPut(c, s, b)
<1> DEFINE F == {"sent", "got", "fin", "eof"}
           w == wire[c].way[s]
           l == [Rec(w) EXCEPT !.sent = Append(w.sent, b)]
           r == Rec(v)
<1>1. l.sent = Append(w.sent, b) /\ l.got = w.got /\ l.fin = w.fin /\ l.eof = w.eof
  BY Zenon DEF Rec
<1>2. r.sent = Append(w.sent, b) /\ r.got = w.got /\ r.fin = w.fin /\ r.eof = w.eof
  BY Zenon DEF Rec, SameSent
<1>3. l = [q \in F |-> l[q]] /\ r = [q \in F |-> r[q]]
  BY Zenon DEF Rec
<1> HIDE DEF l, r, w
<1>4. l = r
  BY <1>1, <1>2, <1>3, Zenon
<1> QED
  BY <1>4, Zenon DEF l, r, w, AfterPut, OneWay, Abs, Rec

(* A byte more on a stream that has not finished is a Put.                 *)
LEMMA PutMaps ==
  ASSUME NEW c \in Conns, NEW s \in Sides, Held, ~wire[c].way[s].fin,
         NEW b \in 1 .. (Len(wire[c].way[s].sent) + 1), AfterPut(c, s, b)
  PROVE  Streams!Put(c, s)
<1> DEFINE S == [d \in Conns |-> [t \in Sides |-> Abs(d, t)]]
<1>1. S[c][s] = Abs(c, s)
  OBVIOUS
<1>2. S[c][s].fin = wire[c].way[s].fin /\ S[c][s].sent = wire[c].way[s].sent
  BY DEF Abs, Rec
<1>3. S' = [S EXCEPT ![c][s] = [Abs(c, s) EXCEPT !.sent = Append(@, b)]]
  BY OneWayMaps, ZenonT(30) DEF AfterPut, AfterFinish, AfterDeliver, AfterEnd
<1> HIDE DEF S
<1>4. S' = [S EXCEPT ![c][s].sent = Append(@, b)]
  BY <1>1, <1>3
<1>5. ~S[c][s].fin /\ \E x \in 1 .. (Len(S[c][s].sent) + 1) : S' = [S EXCEPT ![c][s].sent = Append(@, x)]
  BY <1>2, <1>4, Zenon
<1> QED
  BY <1>5, HeldMaps, Zenon DEF Streams!Put, S, Abs, Rec

(* A stream that finishes once is a Finish.                                *)
LEMMA FinishMaps ==
  ASSUME NEW c \in Conns, NEW s \in Sides, Held, ~wire[c].way[s].fin,
         AfterFinish(c, s)
  PROVE  Streams!Finish(c, s)
<1> DEFINE S == [d \in Conns |-> [t \in Sides |-> Abs(d, t)]]
<1>1. S[c][s] = Abs(c, s) /\ ~S[c][s].fin
  BY DEF Abs, Rec
<1>2. S' = [S EXCEPT ![c][s] = [Abs(c, s) EXCEPT !.fin = TRUE]]
  BY OneWayMaps, ZenonT(30) DEF AfterPut, AfterFinish, AfterDeliver, AfterEnd
<1> HIDE DEF S
<1>3. S' = [S EXCEPT ![c][s].fin = TRUE]
  BY <1>1, <1>2
<1> QED
  BY <1>1, <1>3, HeldMaps, Zenon DEF Streams!Finish, S, Abs, Rec

(* A longer prefix given to a peer that has not been told of the end is a  *)
(* Deliver.                                                                *)
LEMMA DeliverMaps ==
  ASSUME NEW c \in Conns, NEW s \in Sides, Held, wire[c].st = "open", ~wire[c].way[s].eof,
         NEW k \in (Len(wire[c].way[s].got) + 1) .. Len(wire[c].way[s].sent),
         AfterDeliver(c, s, k)
  PROVE  Streams!Deliver(c, s)
<1> DEFINE S == [d \in Conns |-> [t \in Sides |-> Abs(d, t)]]
<1>1. S[c][s] = Abs(c, s)
  OBVIOUS
<1>2. /\ S[c][s].sent = wire[c].way[s].sent /\ S[c][s].got = wire[c].way[s].got
      /\ S[c][s].eof = wire[c].way[s].eof
  BY DEF Abs, Rec
<1>3. S' = [S EXCEPT ![c][s] = [Abs(c, s) EXCEPT !.got = SubSeq(wire[c].way[s].sent, 1, k)]]
  BY OneWayMaps, ZenonT(30) DEF AfterPut, AfterFinish, AfterDeliver, AfterEnd
<1> HIDE DEF S
<1>4. S' = [S EXCEPT ![c][s].got = SubSeq(S[c][s].sent, 1, k)]
  BY <1>1, <1>2, <1>3
<1>5. ~S[c][s].eof /\ \E x \in (Len(S[c][s].got) + 1) .. Len(S[c][s].sent) :
        S' = [S EXCEPT ![c][s].got = SubSeq(S[c][s].sent, 1, x)]
  BY <1>2, <1>4, Zenon
<1>6. [d \in Conns |-> wire[d].st = "open"][c]
  BY Zenon
<1> QED
  BY <1>5, <1>6, HeldMaps, Zenon DEF Streams!Deliver, S, Abs, Rec

(* Why side s of c may be closed now.                                      *)
MayLeave(c, s) ==
  \/ wire[c].way[Other(s)].fin /\ wire[c].way[Other(s)].got = wire[c].way[Other(s)].sent
  \/ wire[c].way[s].fin
  \/ wire[c].reset # {}

(* Telling a peer of the end, for one of the reasons MayLeave gives, is an *)
(* End.                                                                    *)
LEMMA EndMaps ==
  ASSUME NEW c \in Conns, NEW s \in Sides, Held, ~wire[c].way[s].eof, MayLeave(c, Other(s)),
         AfterEnd(c, s)
  PROVE  Streams!End(c, s)
<1> DEFINE S == [d \in Conns |-> [t \in Sides |-> Abs(d, t)]]
<1>1. S[c][s] = Abs(c, s) /\ ~S[c][s].eof
  BY DEF Abs, Rec
<1>2. S' = [S EXCEPT ![c][s] = [Abs(c, s) EXCEPT !.eof = TRUE]]
  BY OneWayMaps, ZenonT(30) DEF AfterPut, AfterFinish, AfterDeliver, AfterEnd
<1>3. \/ S[c][s].fin /\ S[c][s].got = S[c][s].sent
      \/ S[c][Streams!far(s)].fin
      \/ [d \in Conns |-> wire[d].reset # {}][c]
  BY FarOther, Zenon DEF Abs, Rec, MayLeave
<1> HIDE DEF S
<1>4. S' = [S EXCEPT ![c][s].eof = TRUE]
  BY <1>1, <1>2
<1> QED
  BY <1>1, <1>3, <1>4, HeldMaps, Zenon DEF Streams!End, Streams!MayEnd, S, Abs, Rec

(* Hanging up on a client whose connection is not open is a Refuse.        *)
LEMMA RefuseMaps ==
  ASSUME NEW c \in Conns, NEW s \in Sides, Held, ~Open(c),
         AfterEnd(c, s)
  PROVE  Streams!Refuse(c)
<1> DEFINE S == [d \in Conns |-> [t \in Sides |-> Abs(d, t)]]
<1>1. S[c][s] = Abs(c, s)
  OBVIOUS
<1>2. S' = [S EXCEPT ![c][s] = [Abs(c, s) EXCEPT !.eof = TRUE]]
  BY OneWayMaps, ZenonT(30) DEF AfterPut, AfterFinish, AfterDeliver, AfterEnd
<1>3. ~[d \in Conns |-> wire[d].st = "open"][c]
  BY Zenon DEF Open
<1> HIDE DEF S
<1>4. \E e \in Sides : S' = [S EXCEPT ![c][e].eof = TRUE]
  BY <1>1, <1>2, Zenon
<1> QED
  BY <1>3, <1>4, HeldMaps, Zenon DEF Streams!Refuse, S, Abs, Rec

(* Opening an admitted connection, and nothing else, is a Serve.           *)
LEMMA ServeMaps ==
  ASSUME NEW c \in Conns, ~Open(c), Open(c)', \A d \in Conns \ {c} : Open(d)' <=> Open(d),
         \A d \in Conns : Cut(d)' <=> Cut(d),
         \A d \in Conns, t \in Sides : Abs(d, t)' = Abs(d, t),
         wire[c].st # "none", Admitted(rin.conf.lines, wire[c].se, rin.conf.load[c].client)
  PROVE  Streams!Serve(c)
<1> DEFINE S == [d \in Conns |-> [t \in Sides |-> Abs(d, t)]]
           V == [d \in Conns |-> wire[d].st = "open"]
           K == [d \in Conns |-> wire[d].reset # {}]
<1>1. S' = S
  OBVIOUS
<1>2. \A d \in Conns : /\ d # c => (wire[d].st = "open")' = (wire[d].st = "open")
                       /\ (wire[d].reset # {})' = (wire[d].reset # {})
                       /\ (wire[c].st = "open")' = TRUE /\ ~V[c]
  BY Zenon DEF Open, Cut
<1>3. V' = [V EXCEPT ![c] = TRUE] /\ K' = K /\ ~V[c]
  BY <1>2, Zenon
<1>4. [d \in Conns |-> wire[d].st # "none" /\ Admitted(rin.conf.lines, wire[d].se, rin.conf.load[d].client)][c]
  BY Zenon
<1> QED
  BY <1>1, <1>3, <1>4, Zenon DEF Streams!Serve, S, Abs, Rec

CutNow(c) ==
  /\ ~Cut(c) /\ Cut(c)'
  /\ \A d \in Conns \ {c} : Cut(d)' <=> Cut(d)
  /\ \A d \in Conns : Open(d)' <=> Open(d)

(* The first reset of a connection, by a peer that has then finished, is a *)
(* Break.                                                                  *)
LEMMA BreakMaps ==
  ASSUME NEW c \in Conns, NEW s \in Sides, CutNow(c),
         AfterFinish(c, s)
  PROVE  Streams!Break(c)
<1> DEFINE S == [d \in Conns |-> [t \in Sides |-> Abs(d, t)]]
<1>2. S' = [S EXCEPT ![c][s] = [Abs(c, s) EXCEPT !.fin = TRUE]]
  BY OneWayMaps, ZenonT(30) DEF AfterPut, AfterFinish, AfterDeliver, AfterEnd
<1> DEFINE V == [d \in Conns |-> wire[d].st = "open"]
           K == [d \in Conns |-> wire[d].reset # {}]
           row == [e \in Sides |-> IF e \in {s} THEN [S[c][e] EXCEPT !.fin = TRUE] ELSE S[c][e]]
<1>1. S[c][s] = Abs(c, s) /\ DOMAIN S[c] = Sides /\ S[c] = [t \in Sides |-> Abs(c, t)]
  OBVIOUS
<1>3. [S[c] EXCEPT ![s] = [Abs(c, s) EXCEPT !.fin = TRUE]] = row
  BY <1>1, Zenon
<1> HIDE DEF S
<1>4. S' = [S EXCEPT ![c] = row]
  BY <1>2, <1>3, Zenon
<1>5. \A d \in Conns : /\ d # c => (wire[d].reset # {})' = (wire[d].reset # {})
                       /\ (wire[d].st = "open")' = (wire[d].st = "open")
                       /\ (wire[c].reset # {})' = TRUE /\ ~K[c]
  BY Zenon DEF CutNow, Open, Cut
<1>6. K' = [K EXCEPT ![c] = TRUE] /\ V' = V /\ ~K[c]
  BY <1>5, Zenon
<1>7. \E F \in SUBSET Sides :
        S' = [S EXCEPT ![c] = [e \in Sides |-> IF e \in F THEN [@[e] EXCEPT !.fin = TRUE] ELSE @[e]]]
  BY <1>4, Zenon
<1> QED
  BY <1>6, <1>7, Zenon DEF Streams!Break, S, Abs, Rec

-----------------------------------------------------------------------------
(* The rules stay as they were read.                                       *)
LEMMA RulesKept ==
  ASSUME RulesRead,
         /\ rin'.conf = rin.conf /\ rin'.read = rin.read /\ rin'.run = rin.run
         /\ rin'.global = rin.global /\ rin'.se = rin.se,
         rin.co # <<>> => rin'.co # <<>>,
         \A c \in Conns : wire'[c].st # "none" => rin.run = "run" /\ wire'[c].se \in DOMAIN rin.se
  PROVE  RulesRead'
BY DEF RulesRead

(* A step of a handler on slot i changes that slot and its connection.     *)
LEMMA SlotStep ==
  ASSUME RInv, NEW i \in DOMAIN rin.co, ~rin.co[i].closed, NEW k \in Slot,
         rin' = [rin EXCEPT !.co[i] = k],
         wire' \in [Conns -> WireOf],
         NEW c, c = rin.co[i].conn,
         \A d \in Conns \ {c} : wire'[d] = wire[d],
         wire'[c].st = "open" /\ wire'[c].se = wire[c].se,
         k.closed \/ (k.conn = c /\ LinkOK(k, wire'[c]))
  PROVE  RInv'
<1>1. /\ rin \in [run : {"off", "conf", "run", "exit"}, conf : Confs, read : Nat,
                  global : RuleSet, se : Seq(RuleSet), co : Seq(Slot)]
      /\ c \in Conns /\ LinkOK(rin.co[i], wire[c])
  BY DEF RInv, RTypeOK, SlotsOK
<1>2. c \in Conns /\ wire[c].st = "open"
  BY <1>1, Zenon DEF LinkOK
<1>3. [rin.co EXCEPT ![i] = k] \in Seq(Slot)
  BY <1>1
<1>4. /\ rin' \in [run : {"off", "conf", "run", "exit"}, conf : Confs, read : Nat,
                   global : RuleSet, se : Seq(RuleSet), co : Seq(Slot)]
      /\ rin'.co = [rin.co EXCEPT ![i] = k]
      /\ rin'.conf = rin.conf /\ rin'.read = rin.read /\ rin'.run = rin.run
      /\ rin'.global = rin.global /\ rin'.se = rin.se
  BY <1>1, <1>3, Zenon
<1>5. /\ DOMAIN rin'.co = DOMAIN rin.co /\ rin'.co[i] = k
      /\ \A j \in DOMAIN rin.co \ {i} : rin'.co[j] = rin.co[j]
      /\ rin'.co # <<>>
  BY <1>1, <1>3, <1>4
<1>6. \A j \in DOMAIN rin.co \ {i} : ~rin.co[j].closed =>
        /\ rin.co[j].conn # c /\ rin.co[j].conn \in Conns
        /\ LinkOK(rin.co[j], wire[rin.co[j].conn])
  BY DEF RInv, SlotsOK
<1>7. \A j \in DOMAIN rin.co \ {i} : ~rin.co[j].closed =>
        LinkOK(rin.co[j], wire'[rin.co[j].conn])
  BY <1>6
<1>8. SlotsOK'
  BY <1>1, <1>5, <1>6, <1>7 DEF SlotsOK, RInv
<1>9. WaitingOK'
  BY <1>2 DEF WaitingOK, RInv
<1>10. RulesRead'
  <2>1. \A d \in Conns : wire'[d].st # "none" => rin.run = "run" /\ wire'[d].se \in DOMAIN rin.se
    BY <1>2 DEF RInv, RulesRead
  <2> QED
    BY <1>4, <1>5, <2>1, RulesKept DEF RInv
<1> QED
  BY <1>4, <1>8, <1>9, <1>10 DEF RInv, RTypeOK

(* A step of a peer of c leaves the process alone.                         *)
LEMMA PeerStep ==
  ASSUME RInv, rin' = rin, wire' \in [Conns -> WireOf],
         NEW c \in Conns,
         \A d \in Conns \ {c} : wire'[d] = wire[d],
         wire'[c].st = wire[c].st /\ wire'[c].se = wire[c].se /\ wire[c].st # "none",
         \A i \in DOMAIN rin.co : ~rin.co[i].closed /\ rin.co[i].conn = c => LinkOK(rin.co[i], wire'[c]),
         wire[c].st = "pending" => Unheard(wire'[c])
  PROVE  RInv'
<1>1. SlotsOK'
  <2>1. \A i \in DOMAIN rin.co : ~rin.co[i].closed =>
          rin.co[i].conn \in Conns /\ LinkOK(rin.co[i], wire'[rin.co[i].conn])
    BY DEF RInv, SlotsOK
  <2> QED
    BY <2>1 DEF SlotsOK, RInv
<1>2. WaitingOK'
  BY DEF WaitingOK, RInv
<1>3. RulesRead'
  <2>1. \A d \in Conns : wire'[d].st # "none" => rin.run = "run" /\ wire'[d].se \in DOMAIN rin.se
    BY DEF RInv, RulesRead
  <2> QED
    BY <2>1, RulesKept DEF RInv
<1> QED
  BY <1>1, <1>2, <1>3 DEF RInv, RTypeOK

-----------------------------------------------------------------------------
(* A change of what side s of c sends.                                     *)
SetWay(c, s, v) == wire' = [wire EXCEPT ![c].way[s] = v]

AfterSet(c, s, v) ==
  /\ wire' \in [Conns -> WireOf]
  /\ \A d \in Conns \ {c} : wire'[d] = wire[d]
  /\ wire'[c].st = wire[c].st /\ wire'[c].se = wire[c].se /\ wire'[c].reset = wire[c].reset
  /\ wire'[c].way[s] = v
  /\ \A t \in Sides \ {s} : wire'[c].way[t] = wire[c].way[t]
  /\ Held
  /\ OneWay(c, s, Rec(v))

(* What an assignment to one way of one connection changes and what it     *)
(* leaves.                                                                 *)
LEMMA WaySet ==
  ASSUME RTypeOK, NEW c \in Conns, NEW s \in Sides, NEW v \in Way, SetWay(c, s, v)
  PROVE  AfterSet(c, s, v)
<1>1. wire[c] \in WireOf /\ wire \in [Conns -> WireOf]
  BY DEF RTypeOK
<1> DEFINE w == [wire[c] EXCEPT !.way[s] = v]
<1>2. /\ w \in WireOf
      /\ w.st = wire[c].st /\ w.se = wire[c].se /\ w.reset = wire[c].reset
      /\ w.way[s] = v
      /\ \A t \in Sides \ {s} : w.way[t] = wire[c].way[t]
  BY <1>1 DEF WireOf
<1>3. wire' = [wire EXCEPT ![c] = w]
  BY DEF SetWay
<1> HIDE DEF w
<1>4. wire'[c] = w /\ wire' \in [Conns -> WireOf] /\ \A d \in Conns \ {c} : wire'[d] = wire[d]
  BY <1>1, <1>2, <1>3
<1>5. Held
  BY <1>2, <1>4 DEF Held, Open, Cut
<1>6. OneWay(c, s, Rec(v))
  BY <1>2, <1>4 DEF OneWay, Abs, Rec
<1> QED
  BY <1>2, <1>4, <1>5, <1>6 DEF AfterSet

(* A step that the abstract specification allows.                          *)
Maps ==
  \/ UNCHANGED Streams!streams
  \/ \E c \in Conns :
       \/ Streams!Serve(c) \/ Streams!Break(c) \/ Streams!Refuse(c)
       \/ \E e \in Sides :
            Streams!Put(c, e) \/ Streams!Finish(c, e) \/ Streams!Deliver(c, e) \/ Streams!End(c, e)

(* A step of one stream is a step of the abstract specification.           *)
LEMMA MapsOne ==
  ASSUME NEW c \in Conns, NEW e \in Sides,
         Streams!Put(c, e) \/ Streams!Finish(c, e) \/ Streams!Deliver(c, e) \/ Streams!End(c, e)
  PROVE  Maps
BY DEF Maps

(* The n bytes of a sequence after the first a.                            *)
LEMMA SubSeqFacts ==
  ASSUME NEW q \in Seq(Nat), NEW a \in Nat, NEW n \in Nat, a + n <= Len(q)
  PROVE  /\ SubSeq(q, a + 1, a + n) \in Seq(Nat) /\ Len(SubSeq(q, a + 1, a + n)) = n
         /\ \A x \in 1 .. n : SubSeq(q, a + 1, a + n)[x] = q[a + x]
<1>1. SubSeq(q, a + 1, a + n) \in Seq(Nat)
  OBVIOUS
<1>2. Len(SubSeq(q, a + 1, a + n)) = n
  OBVIOUS
<1>3. ASSUME NEW x \in 1 .. n PROVE SubSeq(q, a + 1, a + n)[x] = q[a + x]
  <2> PICK m : m = a + 1
    OBVIOUS
  <2> PICK k : k = a + n
    OBVIOUS
  <2>1. x \in Nat /\ m \in Nat /\ k \in Nat /\ x \in 1 .. k - m + 1 /\ m + x - 1 = a + x
    OBVIOUS
  <2>2. SubSeq(q, m, k)[x] = q[m + x - 1]
    BY <2>1, SMTT(60)
  <2> QED
    BY <2>1, <2>2
<1> QED
  BY <1>1, <1>2, <1>3, Zenon

(* recv moves bytes from the socket to the end of the buffer.              *)
LEMMA ReadMoves ==
  ASSUME NEW way \in Way, NEW b \in Buffer, InOrder(way, b), NEW n \in 1 .. Len(way.queue)
  PROVE  LET v == [way EXCEPT !.queue = SubSeq(way.queue, n + 1, Len(way.queue))]
             d == [b EXCEPT !.data = b.data \o SubSeq(way.queue, 1, n)]
         IN /\ v \in Way /\ d \in Buffer
            /\ v.sent = way.sent /\ v.got = way.got /\ v.fin = way.fin /\ v.eof = way.eof
            /\ InOrder(v, d)
            /\ Whole(way, b) => Whole(v, d)
<1> DEFINE q == way.queue
           rest == SubSeq(q, n + 1, Len(q))
           more == SubSeq(q, 1, n)
           data == b.data \o more
<1>1. /\ q \in Bytes /\ b.data \in Bytes /\ b.w \in Nat /\ way.got \in Bytes /\ way.sent \in Bytes
      /\ Len(q) \in Nat /\ Len(b.data) \in Nat /\ Len(way.got) \in Nat /\ Len(way.sent) \in Nat
  BY DEF Way, Buffer, Bytes
<1>2. /\ rest \in Bytes /\ Len(rest) = Len(q) - n
      /\ \A x \in 1 .. Len(q) - n : rest[x] = q[n + x]
  <2> DEFINE r == Len(q) - n
  <2>1. r \in Nat /\ n \in Nat /\ n + r = Len(q)
    BY <1>1
  <2> HIDE DEF r
  <2>2. /\ SubSeq(q, n + 1, n + r) \in Seq(Nat) /\ Len(SubSeq(q, n + 1, n + r)) = r
        /\ \A x \in 1 .. r : SubSeq(q, n + 1, n + r)[x] = q[n + x]
    BY <1>1, <2>1, SubSeqFacts DEF Bytes
  <2> QED
    BY <2>1, <2>2, Zenon DEF r, Bytes
<1>3. /\ more \in Bytes /\ Len(more) = n
      /\ \A x \in 1 .. n : more[x] = q[x]
  BY <1>1 DEF Bytes
<1>4. /\ data \in Bytes /\ Len(data) = Len(b.data) + n
      /\ \A x \in 1 .. Len(b.data) : data[x] = b.data[x]
      /\ \A x \in 1 .. n : data[Len(b.data) + x] = more[x]
  BY <1>1, <1>3 DEF Bytes
<1> HIDE DEF rest, more, data
<1> DEFINE v == [way EXCEPT !.queue = rest]
           d == [b EXCEPT !.data = data]
<1>5. /\ v \in Way /\ d \in Buffer
      /\ v.sent = way.sent /\ v.got = way.got /\ v.fin = way.fin /\ v.eof = way.eof
      /\ v.queue = rest /\ d.data = data /\ d.w = b.w
  BY <1>2, <1>4, Zenon DEF Way, Buffer
<1> HIDE DEF v, d
<1> DEFINE g == Len(way.got)
           p == Len(b.data) - b.w
           l == Len(q)
<1>6. /\ b.w <= Len(b.data)
      /\ g + p + l <= Len(way.sent)
      /\ \A x \in 1 .. g : way.got[x] = way.sent[x]
      /\ \A x \in 1 .. p : b.data[b.w + x] = way.sent[g + x]
      /\ \A x \in 1 .. l : q[x] = way.sent[g + p + x]
  BY DEF InOrder
<1>7. /\ g \in Nat /\ p \in Nat /\ l \in Nat /\ Len(d.data) - d.w = p + n
      /\ n \in 1 .. l /\ Len(b.data) = p + b.w /\ b.w \in Nat /\ Len(way.sent) \in Nat
      /\ l - n \in Nat
  <2> DEFINE m == Len(b.data)
             e == Len(d.data)
  <2>1. /\ b.w <= m /\ b.w \in Nat /\ m \in Nat /\ e = m + n /\ d.w = b.w
        /\ l \in Nat /\ n \in 1 .. l /\ g \in Nat /\ Len(way.sent) \in Nat /\ p = m - b.w
    BY <1>1, <1>4, <1>5, <1>6
  <2> HIDE DEF m, e, l, g, p
  <2>2. p \in Nat /\ e - d.w = p + n /\ m = p + b.w /\ l - n \in Nat
    BY <2>1
  <2> QED
    BY <2>1, <2>2 DEF m, e
<1> HIDE DEF g, p, l
<1>8. \A x \in 1 .. p + n : data[b.w + x] = way.sent[g + x]
  <2> SUFFICES ASSUME NEW x \in 1 .. p + n
               PROVE  data[b.w + x] = way.sent[g + x]
    OBVIOUS
  <2>1. CASE x \in 1 .. p
    <3>1. b.w + x \in 1 .. Len(b.data)
      BY <1>7, <2>1
    <3> QED
      BY <1>4, <1>6, <2>1, <3>1, Zenon
  <2>2. CASE x \notin 1 .. p
    <3>1. /\ x - p \in 1 .. n /\ x - p \in 1 .. l
          /\ Len(b.data) + (x - p) = b.w + x /\ g + p + (x - p) = g + x
      BY <1>7, <2>2
    <3>2. data[Len(b.data) + (x - p)] = more[x - p] /\ more[x - p] = q[x - p]
      BY <1>3, <1>4, <3>1
    <3>3. q[x - p] = way.sent[g + p + (x - p)]
      BY <1>6, <3>1
    <3> QED
      BY <3>1, <3>2, <3>3
  <2> QED
    BY <2>1, <2>2
<1>9. \A x \in 1 .. l - n : rest[x] = way.sent[g + (p + n) + x]
  <2> SUFFICES ASSUME NEW x \in 1 .. l - n
               PROVE  rest[x] = way.sent[g + (p + n) + x]
    OBVIOUS
  <2>1. n + x \in 1 .. l /\ g + p + (n + x) = g + (p + n) + x
    BY <1>7
  <2>2. rest[x] = q[n + x]
    BY <1>2 DEF l
  <2> QED
    BY <1>6, <2>1, <2>2
<1>10. Len(v.got) = g /\ Len(v.queue) = l - n /\ v.sent = way.sent /\ v.got = way.got
  BY <1>2, <1>5 DEF g, l
<1>11. g + (p + n) + (l - n) = g + p + l /\ d.w <= Len(d.data)
  BY <1>4, <1>5, <1>7
<1>12. InOrder(v, d)
  <2> HIDE DEF q
  <2> QED
    BY <1>5, <1>6, <1>7, <1>8, <1>9, <1>10, <1>11, Zenon DEF InOrder
<1>13. Whole(way, b) => Whole(v, d)
  <2>1. Whole(way, b) => g + p + l = Len(way.sent)
    BY DEF Whole, g, p, l
  <2>2. g + p + l = Len(way.sent) => Whole(v, d)
    BY <1>7, <1>10, <1>11 DEF Whole
  <2> QED
    BY <2>1, <2>2
<1> QED
  BY <1>5, <1>12, <1>13 DEF v, d, rest, data, more

(* A sequence with one byte more.                                          *)
LEMMA AppendFacts ==
  ASSUME NEW q \in Seq(Nat), NEW e \in Nat
  PROVE  /\ Append(q, e) \in Seq(Nat) /\ Len(Append(q, e)) = Len(q) + 1
         /\ \A x \in 1 .. Len(q) : Append(q, e)[x] = q[x]
         /\ Append(q, e)[Len(q) + 1] = e
OBVIOUS

(* Two sequences of bytes one after the other.                             *)
LEMMA ConcatFacts ==
  ASSUME NEW q \in Seq(Nat), NEW r \in Seq(Nat)
  PROVE  /\ q \o r \in Seq(Nat) /\ Len(q \o r) = Len(q) + Len(r) /\ Len(q) \in Nat
         /\ \A x \in 1 .. Len(q) : (q \o r)[x] = q[x]
         /\ \A x \in 1 .. Len(r) : (q \o r)[Len(q) + x] = r[x]
OBVIOUS

(* The n bytes of data after the first w follow got in sent: with them,    *)
(* got is a longer prefix of sent.                                         *)
Follows(sent, got, data, w, n) ==
  /\ sent \in Seq(Nat) /\ got \in Seq(Nat) /\ data \in Seq(Nat) /\ w \in Nat /\ n \in Nat
  /\ w + n <= Len(data) /\ Len(got) + n <= Len(sent)
  /\ \A x \in 1 .. Len(got) : got[x] = sent[x]
  /\ \A x \in 1 .. n : data[w + x] = sent[Len(got) + x]

Prefixed(sent, got, data, w, n) ==
  got \o SubSeq(data, w + 1, w + n) = SubSeq(sent, 1, Len(got) + n)

(* The first k bytes of a sequence.                                        *)
LEMMA FrontFacts ==
  ASSUME NEW q \in Seq(Nat), NEW k \in 0 .. Len(q)
  PROVE  /\ SubSeq(q, 1, k) \in Seq(Nat) /\ Len(SubSeq(q, 1, k)) = k
         /\ \A x \in 1 .. k : SubSeq(q, 1, k)[x] = q[x]
OBVIOUS

(* A prefix of what was sent, and after it the next n bytes from a buffer, *)
(* are a longer prefix.                                                    *)
LEMMA Prefix ==
  ASSUME NEW sent, NEW got, NEW data, NEW w, NEW n, Follows(sent, got, data, w, n)
  PROVE  Prefixed(sent, got, data, w, n)
<1> DEFINE more == SubSeq(data, w + 1, w + n)
           all == got \o more
           g == Len(got)
<1>0. /\ sent \in Seq(Nat) /\ got \in Seq(Nat) /\ data \in Seq(Nat) /\ w \in Nat /\ n \in Nat
      /\ w + n <= Len(data) /\ Len(got) + n <= Len(sent)
      /\ \A x \in 1 .. Len(got) : got[x] = sent[x]
      /\ \A x \in 1 .. n : data[w + x] = sent[Len(got) + x]
  BY Zenon DEF Follows
<1>1. more \in Seq(Nat) /\ Len(more) = n /\ \A x \in 1 .. n : more[x] = data[w + x]
  BY <1>0, SubSeqFacts, Zenon
<1> HIDE DEF more
<1>2. /\ all \in Seq(Nat) /\ Len(all) = g + n /\ g \in Nat
      /\ \A x \in 1 .. g : all[x] = got[x]
      /\ \A x \in 1 .. n : all[g + x] = more[x]
  BY <1>0, <1>1, ConcatFacts, Zenon
<1> HIDE DEF all
<1>3. /\ SubSeq(sent, 1, g + n) \in Seq(Nat) /\ Len(SubSeq(sent, 1, g + n)) = g + n
      /\ \A x \in 1 .. g + n : SubSeq(sent, 1, g + n)[x] = sent[x]
  BY <1>0, <1>2
<1>4. ASSUME NEW x \in 1 .. g + n
      PROVE  all[x] = sent[x]
  <2>1. CASE x \in 1 .. g
    BY <1>0, <1>2, <2>1, Zenon
  <2>2. CASE x \notin 1 .. g
    <3>1. x - g \in 1 .. n /\ g + (x - g) = x
      BY <1>0, <1>2, <2>2
    <3> QED
      BY <1>0, <1>1, <1>2, <3>1, ZenonT(30)
  <2> QED
    BY <2>1, <2>2
<1> HIDE DEF g
<1>5. all = SubSeq(sent, 1, g + n)
  BY <1>2, <1>3, <1>4
<1> QED
  BY <1>5, Zenon DEF all, more, g, Prefixed

(* send takes n bytes from the buffer, which starts anew when it is empty. *)
LEMMA SendMoves ==
  ASSUME NEW way \in Way, NEW b \in Buffer, InOrder(way, b), NEW n \in 1 .. (Len(b.data) - b.w)
  PROVE  LET v == [way EXCEPT !.got = way.got \o SubSeq(b.data, b.w + 1, b.w + n)]
             d == Sent(b, n)
         IN /\ v \in Way /\ d \in Buffer
            /\ v.sent = way.sent /\ v.queue = way.queue /\ v.fin = way.fin /\ v.eof = way.eof
            /\ InOrder(v, d)
            /\ Whole(way, b) => Whole(v, d)
            /\ Len(way.got) + n \in (Len(way.got) + 1) .. Len(way.sent)
            /\ v.got = SubSeq(way.sent, 1, Len(way.got) + n)
<1> DEFINE more == SubSeq(b.data, b.w + 1, b.w + n)
           got == way.got \o more
           d == Sent(b, n)
           m == Len(b.data)
           w == b.w
           g == Len(way.got)
           p == m - w
           l == Len(way.queue)
<1>1. /\ b.data \in Seq(Nat) /\ b.w \in Nat /\ way.got \in Seq(Nat) /\ way.sent \in Seq(Nat)
      /\ way.queue \in Seq(Nat)
  BY DEF Way, Buffer, Bytes
<1>2. /\ b.w <= m
      /\ g + p + l <= Len(way.sent)
      /\ \A x \in 1 .. g : way.got[x] = way.sent[x]
      /\ \A x \in 1 .. p : b.data[b.w + x] = way.sent[g + x]
      /\ \A x \in 1 .. l : way.queue[x] = way.sent[g + p + x]
  BY Zenon DEF InOrder
<1>3. /\ m \in Nat /\ w \in Nat /\ w <= m /\ n \in 1 .. (m - w) /\ p = m - w
      /\ g \in Nat /\ l \in Nat /\ Len(way.sent) \in Nat /\ g + p + l <= Len(way.sent)
  <2>1. m \in Nat /\ g \in Nat /\ l \in Nat /\ Len(way.sent) \in Nat
    BY <1>1, LenFacts
  <2> QED
    BY <1>1, <1>2, <2>1, Zenon
<1> HIDE DEF m, w, p, g, l
<1>4. /\ w + n <= m /\ n \in Nat /\ p \in Nat /\ p - n \in Nat /\ n \in 1 .. p
      /\ (w + n = m => p - n = 0) /\ m - (w + n) = p - n
      /\ \A x \in 1 .. p - n : w + n + x = w + (n + x)
  BY <1>3
<1>5. /\ w + n <= Len(b.data) /\ Len(way.got) + n <= Len(way.sent)
      /\ \A x \in 1 .. n : b.data[b.w + x] = way.sent[Len(way.got) + x]
  <2>1. g + n <= Len(way.sent) /\ \A x \in 1 .. n : x \in 1 .. p
    BY <1>3, <1>4
  <2> QED
    BY <1>2, <1>4, <2>1 DEF m, g
<1>6. got = SubSeq(way.sent, 1, g + n)
  <2>1. \A x \in 1 .. Len(way.got) : way.got[x] = way.sent[x]
    BY <1>2 DEF g
  <2>2. w \in Nat /\ n \in Nat /\ w = b.w
    BY <1>3, <1>4 DEF w
  <2>3. Follows(way.sent, way.got, b.data, w, n)
    BY <1>1, <1>5, <2>1, <2>2, Zenon DEF Follows
  <2>4. Prefixed(way.sent, way.got, b.data, w, n)
    BY <2>3, Prefix
  <2> QED
    BY <2>4, Zenon DEF Prefixed, g, w
<1>6a. got \in Seq(Nat) /\ Len(got) = g + n /\ \A x \in 1 .. g + n : got[x] = way.sent[x]
  <2>1. g + n \in 0 .. Len(way.sent)
    BY <1>3, <1>4
  <2>2. /\ SubSeq(way.sent, 1, g + n) \in Seq(Nat) /\ Len(SubSeq(way.sent, 1, g + n)) = g + n
        /\ \A x \in 1 .. g + n : SubSeq(way.sent, 1, g + n)[x] = way.sent[x]
    BY <1>1, <2>1, FrontFacts, Zenon
  <2> HIDE DEF got
  <2> QED
    BY <1>6, <2>2, Zenon
<1> HIDE DEF more, got
<1>7. /\ d \in Buffer /\ d.w <= Len(d.data) /\ Len(d.data) - d.w = p - n
      /\ \A x \in 1 .. p - n : d.data[d.w + x] = b.data[b.w + (n + x)]
  <2>1. CASE w + n = m
    <3>1. d = [data |-> <<>>, w |-> 0] /\ p - n = 0
      BY <1>4, <2>1 DEF Sent, w, m
    <3> QED
      BY <3>1 DEF Buffer, Bytes
  <2>2. CASE w + n # m
    <3>1. d = [b EXCEPT !.w = @ + n]
      BY <2>2 DEF Sent, w, m
    <3>2. d.data = b.data /\ d.w = w + n
      BY <3>1 DEF Buffer, w
    <3>3. d = [data |-> b.data, w |-> w + n] /\ w + n \in Nat
      BY <1>3, <3>1, SMTT(30) DEF Buffer, w
    <3>4. d \in Buffer
      BY <1>1, <3>3 DEF Buffer, Bytes
    <3> QED
      BY <1>4, <3>2, <3>4 DEF w, m
  <2> QED
    BY <2>1, <2>2
<1> DEFINE v == [way EXCEPT !.got = got]
<1>8. /\ v \in Way /\ v.got = got
      /\ v.sent = way.sent /\ v.queue = way.queue /\ v.fin = way.fin /\ v.eof = way.eof
  BY <1>6a, Zenon DEF Way, Bytes
<1> HIDE DEF v, d
<1>10. \A x \in 1 .. p - n : d.data[d.w + x] = way.sent[g + n + x]
  <2> SUFFICES ASSUME NEW x \in 1 .. p - n
               PROVE  d.data[d.w + x] = way.sent[g + n + x]
    OBVIOUS
  <2>1. n + x \in 1 .. p /\ g + (n + x) = g + n + x
    BY <1>3, <1>4
  <2> QED
    BY <1>2, <1>7, <2>1
<1>11. /\ g + n + (p - n) = g + p /\ 0 + (g + n) <= Len(way.sent) /\ g + n \in Nat
       /\ g + n \in (g + 1) .. Len(way.sent) /\ 0 + (g + n) = g + n /\ 0 + 1 = 1
  BY <1>3, <1>4
<1>12. Len(v.got) = g + n /\ Len(v.queue) = l
  BY <1>6a, <1>8 DEF l
<1>13. InOrder(v, d)
  BY <1>2, <1>7, <1>8, <1>6a, <1>10, <1>11, <1>12 DEF InOrder
<1>14. Whole(way, b) => Whole(v, d)
  <2>1. Whole(way, b) => g + p + l = Len(way.sent)
    BY DEF Whole, g, p, l, m, w
  <2>2. g + p + l = Len(way.sent) => Whole(v, d)
    BY <1>7, <1>8, <1>11, <1>12 DEF Whole
  <2> QED
    BY <2>1, <2>2
<1> QED
  BY <1>6, <1>7, <1>8, <1>11, <1>13, <1>14, Zenon DEF v, d, got, more, g

-----------------------------------------------------------------------------
(* The slot after side s was closed from its end.                          *)
Gone(k, s) == EndTurn(CloseFrom(k, s))

(* handleCloseFromRemote or handleCloseFromLocal and the end of the turn:  *)
(* the slot is freed only when the other side was shut before.             *)
LEMMA GoneFacts ==
  ASSUME NEW k \in Slot, NEW s \in Sides, ~k.closed
  PROVE  /\ Gone(k, s) \in Slot /\ Gone(k, s).conn = k.conn /\ Gone(k, s).closing
         /\ Gone(k, s).buf = k.buf /\ Gone(k, s).shut[s]
         /\ Gone(k, s).shut[Other(s)] = k.shut[Other(s)]
         /\ Gone(k, s).closed <=> k.shut[Other(s)]
<1> DEFINE m == CloseFrom(k, s)
<1>1. /\ m \in Slot /\ m.conn = k.conn /\ m.closing /\ m.buf = k.buf /\ ~m.closed
      /\ m.shut = [k.shut EXCEPT ![s] = TRUE]
  BY Zenon DEF CloseFrom, Slot
<1>2. m.shut[s] /\ m.shut[Other(s)] = k.shut[Other(s)] /\ m.shut \in [Sides -> BOOLEAN]
  BY <1>1, FarOther, Zenon DEF Slot
<1>3. (\A t \in Sides : m.shut[t]) <=> k.shut[Other(s)]
  BY <1>2 DEF Sides, Other
<1> HIDE DEF m
<1> DEFINE all == \A t \in Sides : m.shut[t]
<1>4. all \in BOOLEAN
  OBVIOUS
<1>5. EndTurn(m) = [m EXCEPT !.closed = m.closed \/ all]
  BY DEF EndTurn
<1> HIDE DEF all
<1>6. EndTurn(m) = [m EXCEPT !.closed = all]
  BY <1>1, <1>4, <1>5
<1>7. /\ EndTurn(m) \in Slot /\ EndTurn(m).conn = m.conn /\ EndTurn(m).closing = m.closing
      /\ EndTurn(m).buf = m.buf /\ EndTurn(m).shut = m.shut /\ EndTurn(m).closed = all
  BY <1>1, <1>4, <1>6, Zenon DEF Slot
<1> QED
  BY <1>1, <1>2, <1>3, <1>7, Zenon DEF Gone, m, all

(* What a peer is told does not touch the bytes.                           *)
LEMMA EofKeepsBytes ==
  ASSUME NEW way \in Way, NEW b
  PROVE  LET v == [way EXCEPT !.eof = TRUE]
         IN /\ v \in Way /\ v.eof
            /\ v.sent = way.sent /\ v.got = way.got /\ v.fin = way.fin /\ v.queue = way.queue
            /\ InOrder(way, b) => InOrder(v, b)
            /\ Whole(way, b) => Whole(v, b)
<1> DEFINE v == [way EXCEPT !.eof = TRUE]
<1>1. /\ v \in Way /\ v.eof
      /\ v.sent = way.sent /\ v.got = way.got /\ v.fin = way.fin /\ v.queue = way.queue
  BY Zenon DEF Way
<1> HIDE DEF v
<1>2. (InOrder(way, b) => InOrder(v, b)) /\ (Whole(way, b) => Whole(v, b))
  BY <1>1 DEF InOrder, Whole
<1> QED
  BY <1>1, <1>2 DEF v

(* The slot k that stays when side s of c was closed.                      *)
Stays(k, j, c, s) ==
  /\ k.conn = c /\ k.closing /\ k.shut[s] /\ ~k.shut[Other(s)] /\ ~j.shut[Other(s)]
  /\ k.buf = j.buf
  /\ wire[c].reset # {} \/ (wire[c].way[s].fin /\ wire[c].way[s].queue = <<>>)

(* Closing a side for a reason that MayLeave allows keeps the invariant    *)
(* and is a step of the streams, whether the slot is freed or waits for    *)
(* the other side.                                                         *)
LEMMA HangupStep ==
  ASSUME RInv, NEW i \in DOMAIN rin.co, NEW s \in Sides, ~rin.co[i].closed, ~rin.co[i].shut[s],
         NEW k \in Slot, rin' = [rin EXCEPT !.co[i] = k],
         NEW c, c = rin.co[i].conn,
         wire' = Hangup(c, s), MayLeave(c, s),
         k.closed \/ Stays(k, rin.co[i], c, s)
  PROVE  RInv' /\ Maps
<1> DEFINE j == rin.co[i]
           t == Other(s)
           way == wire[c].way[t]
<1> PICK v : v = [way EXCEPT !.eof = TRUE]
  BY Zenon
<1>1. c \in Conns /\ LinkOK(j, wire[c]) /\ RTypeOK
  BY Zenon DEF RInv, SlotsOK
<1>2. wire[c] \in WireOf /\ t \in Sides /\ Other(t) = s /\ t # s
  BY <1>1, FarOther, Zenon DEF RTypeOK
<1>3. way \in Way
  BY <1>2, Zenon DEF WireOf
<1>4. SetWay(c, t, v)
  BY <1>1, <1>2, Zenon DEF Hangup, SetWay
<1>5. /\ v \in Way /\ v.eof
      /\ v.sent = way.sent /\ v.got = way.got /\ v.fin = way.fin /\ v.queue = way.queue
      /\ \A b : (InOrder(way, b) => InOrder(v, b)) /\ (Whole(way, b) => Whole(v, b))
  BY <1>3, EofKeepsBytes, Zenon
<1>6. /\ wire' \in [Conns -> WireOf]
      /\ \A d \in Conns \ {c} : wire'[d] = wire[d]
      /\ wire'[c].st = wire[c].st /\ wire'[c].se = wire[c].se /\ wire'[c].reset = wire[c].reset
      /\ wire'[c].way[t] = v
      /\ \A u \in Sides \ {t} : wire'[c].way[u] = wire[c].way[u]
      /\ Held
      /\ OneWay(c, t, Rec(v))
  <2>1. RTypeOK /\ c \in Conns /\ t \in Sides /\ v \in Way
    BY <1>1, <1>2, <1>5, Zenon
  <2>2. AfterSet(c, t, v)
    BY <1>4, <2>1, WaySet, Zenon
  <2> QED
    BY <2>2, Zenon DEF AfterSet
<1>7. Maps
  <2>1. ~way.eof
    BY <1>1, Zenon DEF LinkOK
  <2>2. AfterEnd(c, t)
    <3>1. v.eof = TRUE /\ SameEof(v, way)
      BY <1>5, Zenon DEF Way, SameEof
    <3> QED
      BY <1>1, <1>2, <1>6, <3>1, EndRecord, Zenon
  <2>3. MayLeave(c, Other(t))
    BY <1>2, Zenon
  <2>4. Streams!End(c, t)
    BY <1>1, <1>2, <1>6, <2>1, <2>2, <2>3, EndMaps, Zenon
  <2> QED
    BY <1>1, <1>2, <2>4, MapsOne, Zenon
<1>8. ASSUME Stays(k, j, c, s)
      PROVE  k.conn = c /\ LinkOK(k, wire'[c])
  <2>1. /\ InOrder(wire'[c].way[s], k.buf[s])
        /\ s \notin wire'[c].reset => Whole(wire'[c].way[s], k.buf[s])
        /\ k.shut[s] => wire'[c].reset # {} \/ (wire'[c].way[s].fin /\ wire'[c].way[s].queue = <<>>)
        /\ s \in wire'[c].reset => wire'[c].way[s].fin
    BY <1>1, <1>2, <1>6, <1>8, Zenon DEF Stays, LinkOK
  <2>2. /\ InOrder(wire'[c].way[t], k.buf[t])
        /\ t \notin wire'[c].reset => Whole(wire'[c].way[t], k.buf[t])
        /\ ~wire'[c].way[Other(t)].eof
        /\ t \in wire'[c].reset => wire'[c].way[t].fin
    BY <1>1, <1>2, <1>5, <1>6, <1>8, ZenonT(30) DEF Stays, LinkOK
  <2>3. wire'[c].st = "open" /\ k.conn = c
    BY <1>1, <1>6, <1>8, Zenon DEF LinkOK, Stays
  <2>4. k.closing /\ k.shut[s] /\ ~k.shut[t]
    BY <1>8, Zenon DEF Stays
  <2>5. \A u \in Sides : u = s \/ u = t
    BY <1>2, Zenon DEF Sides
  <2> QED
    BY <1>2, <2>1, <2>2, <2>3, <2>4, <2>5, Zenon DEF LinkOK
<1>9. RInv'
  <2>1. wire'[c].st = "open"
    BY <1>1, <1>6, Zenon DEF LinkOK
  <2>2. k.closed \/ (k.conn = c /\ LinkOK(k, wire'[c]))
    BY <1>8, Zenon
  <2> QED
    BY <1>6, <2>1, <2>2, SlotStep, Zenon
<1> QED
  BY <1>7, <1>9, Zenon

-----------------------------------------------------------------------------
(* The elements of the slots and of the wire have their types.             *)
LEMMA Typed ==
  ASSUME RTypeOK
  PROVE  /\ \A i \in DOMAIN rin.co : rin.co[i] \in Slot
         /\ \A c \in Conns : wire[c] \in WireOf
<1>1. rin.co \in Seq(Slot)
  BY DEF RTypeOK
<1>2. \A i \in DOMAIN rin.co : rin.co[i] \in Slot
  BY <1>1
<1> QED
  BY <1>2 DEF RTypeOK

(* Bytes move between the socket, the buffer and the peer.                 *)
Moved(way, b, v, d) ==
  /\ v \in Way /\ d \in Buffer /\ InOrder(v, d)
  /\ Whole(way, b) => Whole(v, d)
  /\ v.sent = way.sent /\ v.fin = way.fin /\ v.eof = way.eof
  /\ way.queue = <<>> => v.queue = <<>>

SetBuf(i, s, d) == rin' = [rin EXCEPT !.co[i].buf[s] = d]

(* Moving bytes of one stream along (socket, buffer, peer) keeps the       *)
(* invariant.                                                              *)
LEMMA MoveStep ==
  ASSUME RInv, NEW i \in DOMAIN rin.co, NEW s \in Sides, ~rin.co[i].closed,
         NEW c, c = rin.co[i].conn, NEW v, NEW d,
         Moved(wire[c].way[s], rin.co[i].buf[s], v, d), SetBuf(i, s, d), SetWay(c, s, v)
  PROVE  RInv' /\ AfterSet(c, s, v)
<1> DEFINE j == rin.co[i]
           k == [j EXCEPT !.buf[s] = d]
<1>1. c \in Conns /\ LinkOK(j, wire[c]) /\ RTypeOK
  BY DEF RInv, SlotsOK
<1>2. v \in Way /\ d \in Buffer
  BY Zenon DEF Moved
<1>3. AfterSet(c, s, v)
  BY <1>1, <1>2, WaySet
<1>4. j \in Slot
  BY <1>1 DEF RTypeOK
<1>5. /\ k \in Slot /\ k.conn = c /\ k.closed = j.closed /\ k.closing = j.closing /\ k.shut = j.shut
      /\ k.buf[s] = d /\ \A t \in Sides \ {s} : k.buf[t] = j.buf[t]
  BY <1>2, <1>4 DEF Slot
<1>6. rin' = [rin EXCEPT !.co[i] = k]
  BY DEF SetBuf
<1> HIDE DEF k
<1>7. \A t \in Sides :
        /\ InOrder(wire'[c].way[t], k.buf[t])
        /\ t \notin wire'[c].reset => Whole(wire'[c].way[t], k.buf[t])
        /\ wire'[c].way[t].eof = wire[c].way[t].eof /\ wire'[c].way[t].fin = wire[c].way[t].fin
        /\ wire[c].way[t].queue = <<>> => wire'[c].way[t].queue = <<>>
  <2> SUFFICES ASSUME NEW t \in Sides
               PROVE  /\ InOrder(wire'[c].way[t], k.buf[t])
                      /\ t \notin wire'[c].reset => Whole(wire'[c].way[t], k.buf[t])
                      /\ wire'[c].way[t].eof = wire[c].way[t].eof /\ wire'[c].way[t].fin = wire[c].way[t].fin
                      /\ wire[c].way[t].queue = <<>> => wire'[c].way[t].queue = <<>>
    BY Zenon
  <2>1. CASE t = s
    BY <1>1, <1>3, <1>5, <2>1, Zenon DEF Moved, AfterSet, LinkOK
  <2>2. CASE t # s
    BY <1>1, <1>3, <1>5, <2>2, Zenon DEF AfterSet, LinkOK
  <2> QED
    BY <2>1, <2>2, Zenon
<1>8. wire'[c].st = "open" /\ wire'[c].se = wire[c].se /\ wire'[c].reset = wire[c].reset
  BY <1>1, <1>3, Zenon DEF AfterSet, LinkOK
<1>9. LinkOK(k, wire'[c])
  BY <1>1, <1>5, <1>7, <1>8, FarOther, Zenon DEF LinkOK
<1>10. wire' \in [Conns -> WireOf] /\ \A e \in Conns \ {c} : wire'[e] = wire[e]
  BY <1>3, Zenon DEF AfterSet
<1>11. RInv'
  BY <1>5, <1>6, <1>8, <1>9, <1>10, SlotStep, Zenon
<1> QED
  BY <1>3, <1>11

Delivers(way, b, n, v, d) ==
  /\ v \in Way /\ d \in Buffer
  /\ v.sent = way.sent /\ v.queue = way.queue /\ v.fin = way.fin /\ v.eof = way.eof
  /\ InOrder(v, d)
  /\ Whole(way, b) => Whole(v, d)
  /\ Len(way.got) + n \in (Len(way.got) + 1) .. Len(way.sent)
  /\ v.got = SubSeq(way.sent, 1, Len(way.got) + n)

SentFrom(way, b, n, v, d) ==
  /\ way \in Way /\ b \in Buffer /\ InOrder(way, b) /\ n \in 1 .. (Len(b.data) - b.w)
  /\ v = [way EXCEPT !.got = way.got \o SubSeq(b.data, b.w + 1, b.w + n)]
  /\ d = Sent(b, n)

(* send of n bytes from the buffer leaves the bytes in order and gives the *)
(* peer a longer prefix, also when the buffer is then empty and both       *)
(* positions go back to 0.                                                 *)
LEMMA SendDelivers ==
  ASSUME NEW way, NEW b, NEW n, NEW v, NEW d, SentFrom(way, b, n, v, d)
  PROVE  Delivers(way, b, n, v, d)
BY SendMoves, Zenon DEF SentFrom, Delivers

(* handleRemoteWrite and handleLocalWrite when send takes bytes.           *)
LEMMA SendStep ==
  ASSUME RInv, NEW i \in DOMAIN rin.co, NEW s \in Sides, ~rin.co[i].closed, ~rin.co[i].shut[Other(s)],
         NEW c, c = rin.co[i].conn, NEW b, b = rin.co[i].buf[s],
         NEW n \in 1 .. (Len(b.data) - b.w),
         rin' = [rin EXCEPT !.co[i].buf[s] = Sent(b, n)],
         wire' = [wire EXCEPT ![c].way[s].got = @ \o SubSeq(b.data, b.w + 1, b.w + n)]
  PROVE  RInv' /\ Maps
<1>1. c \in Conns /\ LinkOK(rin.co[i], wire[c]) /\ RTypeOK
  BY Zenon DEF RInv, SlotsOK
<1>2. b \in Buffer /\ wire[c].way[s] \in Way
  BY <1>1, Typed, Zenon DEF Slot, WireOf
<1> DEFINE way == wire[c].way[s]
<1>3. InOrder(way, b) /\ ~way.eof /\ wire[c].st = "open"
  BY <1>1, FarOther, Zenon DEF LinkOK
<1> PICK v : v = [way EXCEPT !.got = way.got \o SubSeq(b.data, b.w + 1, b.w + n)]
  BY Zenon
<1> PICK d : d = Sent(b, n)
  BY Zenon
<1>4. /\ v \in Way /\ d \in Buffer
      /\ v.sent = way.sent /\ v.queue = way.queue /\ v.fin = way.fin /\ v.eof = way.eof
      /\ InOrder(v, d)
      /\ Whole(way, b) => Whole(v, d)
      /\ Len(way.got) + n \in (Len(way.got) + 1) .. Len(way.sent)
      /\ v.got = SubSeq(way.sent, 1, Len(way.got) + n)
  <2>1. SentFrom(way, b, n, v, d)
    BY <1>2, <1>3, Zenon DEF SentFrom
  <2>2. Delivers(way, b, n, v, d)
    BY <2>1, SendDelivers, Zenon
  <2> QED
    BY <2>2, Zenon DEF Delivers
<1>5. Moved(way, b, v, d)
  BY <1>4, Zenon DEF Moved
<1>6. SetWay(c, s, v)
  BY <1>1, <1>2, Zenon DEF SetWay
<1>6a. SetBuf(i, s, d)
  BY Zenon DEF SetBuf
<1>7. RInv' /\ AfterSet(c, s, v)
  BY <1>5, <1>6, <1>6a, MoveStep, Zenon
<1> PICK k : k = Len(way.got) + n
  BY Zenon
<1>8. AfterDeliver(c, s, k)
  <2>1. OneWay(c, s, Rec(v)) /\ SameGot(v, way) /\ v.got = SubSeq(way.sent, 1, k)
    BY <1>4, <1>7, Zenon DEF AfterSet, SameGot
  <2> QED
    BY <1>1, <2>1, DeliverRecord, Zenon
<1>9. Streams!Deliver(c, s)
  BY <1>1, <1>3, <1>4, <1>7, <1>8, DeliverMaps, Zenon DEF AfterSet
<1> QED
  BY <1>1, <1>7, <1>9, MapsOne, Zenon

ReadFrom(way, b, n, v, d) ==
  /\ way \in Way /\ b \in Buffer /\ InOrder(way, b) /\ n \in 1 .. Len(way.queue)
  /\ v = [way EXCEPT !.queue = SubSeq(way.queue, n + 1, Len(way.queue))]
  /\ d = [b EXCEPT !.data = b.data \o SubSeq(way.queue, 1, n)]

Kept(way, b, v, d) == Moved(way, b, v, d) /\ v.got = way.got

(* recv of n bytes into the buffer leaves the bytes in order and none      *)
(* lost.                                                                   *)
LEMMA ReadMoved ==
  ASSUME NEW way, NEW b, NEW n, NEW v, NEW d, ReadFrom(way, b, n, v, d)
  PROVE  Kept(way, b, v, d)
<1>1. /\ v \in Way /\ d \in Buffer
      /\ v.sent = way.sent /\ v.got = way.got /\ v.fin = way.fin /\ v.eof = way.eof
      /\ InOrder(v, d)
      /\ Whole(way, b) => Whole(v, d)
  BY ReadMoves, Zenon DEF ReadFrom
<1>2. way.queue # <<>>
  BY DEF ReadFrom
<1> QED
  BY <1>1, <1>2 DEF Moved, Kept

(* handleRemoteRead and handleLocalRead when recv returns bytes.           *)
LEMMA RecvStep ==
  ASSUME RInv, NEW i \in DOMAIN rin.co, NEW s \in Sides, ~rin.co[i].closed,
         NEW c, c = rin.co[i].conn, NEW n \in 1 .. Len(wire[c].way[s].queue),
         rin' = [rin EXCEPT !.co[i].buf[s].data = @ \o SubSeq(wire[c].way[s].queue, 1, n)],
         wire' = [wire EXCEPT ![c].way[s].queue = SubSeq(@, n + 1, Len(@))]
  PROVE  RInv' /\ Maps
<1> DEFINE way == wire[c].way[s]
           b == rin.co[i].buf[s]
<1>1. c \in Conns /\ LinkOK(rin.co[i], wire[c]) /\ RTypeOK
  BY Zenon DEF RInv, SlotsOK
<1>2. b \in Buffer /\ way \in Way /\ InOrder(way, b)
  BY <1>1, Typed, Zenon DEF Slot, WireOf, LinkOK
<1> PICK v : v = [way EXCEPT !.queue = SubSeq(way.queue, n + 1, Len(way.queue))]
  BY Zenon
<1> PICK d : d = [b EXCEPT !.data = b.data \o SubSeq(way.queue, 1, n)]
  BY Zenon
<1>3. Moved(way, b, v, d) /\ v.got = way.got
  <2>1. ReadFrom(way, b, n, v, d)
    BY <1>2, Zenon DEF ReadFrom
  <2>2. Kept(way, b, v, d)
    BY <2>1, ReadMoved, Zenon
  <2> QED
    BY <2>2, Zenon DEF Kept
<1>4. SetWay(c, s, v)
  BY <1>1, <1>2, Zenon DEF SetWay
<1>5. SetBuf(i, s, d)
  BY Zenon DEF SetBuf
<1>6. RInv' /\ AfterSet(c, s, v)
  BY <1>3, <1>4, <1>5, MoveStep, Zenon
<1>7. Rec(v) = Abs(c, s)
  BY <1>3, Zenon DEF Moved, Rec, Abs
<1>8. \A e \in Conns : Same(e)
  BY <1>6, <1>7, Zenon DEF AfterSet, Held, OneWay, Same
<1> QED
  BY <1>6, <1>8, SameMaps, Zenon DEF Maps

(* handleRemoteRead and handleLocalRead, with all that recv may return.    *)
LEMMA ReadStep ==
  ASSUME RInv, NEW i \in DOMAIN rin.co, NEW s \in Sides, handleRead(i, s)
  PROVE  RInv' /\ Maps
<1> PICK c : c = rin.co[i].conn
  OBVIOUS
<1> DEFINE k == rin.co[i]
           way == wire[c].way[s]
           room == bufferSpace - Len(k.buf[s].data)
           n == IF room < Len(way.queue) THEN room ELSE Len(way.queue)
<1>1. ~k.closed /\ ~k.shut[s] /\ room > 0
  BY Zenon DEF handleRead
<1>2. c \in Conns /\ LinkOK(k, wire[c]) /\ RTypeOK /\ k \in Slot /\ wire[c] \in WireOf
  BY <1>1, Typed DEF RInv, SlotsOK
<1>3. way \in Way /\ k.buf[s] \in Buffer
  BY <1>2 DEF WireOf, Slot
<1>4. CASE /\ n > 0
           /\ rin' = [rin EXCEPT !.co[i].buf[s].data = @ \o SubSeq(way.queue, 1, n)]
           /\ wire' = [wire EXCEPT ![c].way[s].queue = SubSeq(@, n + 1, Len(@))]
  <2> DEFINE l == Len(way.queue)
             h == Len(k.buf[s].data)
  <2>1. l \in Nat /\ h \in Nat
    <3>1. way.queue \in Seq(Nat) /\ k.buf[s].data \in Seq(Nat)
      BY <1>3, Zenon DEF Way, Buffer, Bytes
    <3> QED
      BY <3>1, LenFacts, Zenon
  <2>2. n \in 1 .. l
    <3>1. room = bufferSpace - h /\ n = (IF room < l THEN room ELSE l) /\ n > 0
      BY <1>4, Zenon
    <3> HIDE DEF l, h, n, room
    <3> QED
      BY <1>1, <2>1, <3>1, RinetdAssumption
  <2> PICK m : m = n
    BY Zenon
  <2>3. /\ m \in 1 .. Len(way.queue)
        /\ rin' = [rin EXCEPT !.co[i].buf[s].data = @ \o SubSeq(wire[c].way[s].queue, 1, m)]
        /\ wire' = [wire EXCEPT ![c].way[s].queue = SubSeq(@, m + 1, Len(@))]
    BY <1>4, <2>2, Zenon
  <2> QED
    BY <1>1, <2>3, RecvStep, Zenon
<1>5. CASE /\ s \in wire[c].reset \/ (way.queue = <<>> /\ way.fin)
           /\ rin' = [rin EXCEPT !.co[i] = Gone(k, s)]
           /\ wire' = Hangup(c, s)
  <2> PICK g : g = Gone(k, s)
    OBVIOUS
  <2>1. /\ g \in Slot /\ g.conn = k.conn /\ g.closing /\ g.buf = k.buf /\ g.shut[s]
        /\ g.shut[Other(s)] = k.shut[Other(s)]
        /\ g.closed <=> k.shut[Other(s)]
    BY <1>1, <1>2, GoneFacts
  <2>2. MayLeave(c, s)
    BY <1>5, Zenon DEF MayLeave
  <2>3. g.closed \/ Stays(g, k, c, s)
    BY <1>5, <2>1, Zenon DEF Stays
  <2>4. rin' = [rin EXCEPT !.co[i] = g]
    BY <1>5
  <2> QED
    BY <1>1, <1>5, <2>1, <2>2, <2>3, <2>4, HangupStep, Zenon
<1> QED
  BY <1>4, <1>5, Zenon DEF handleRead, Gone

(* With nothing left in the socket or the buffer, all has arrived.         *)
LEMMA AllArrived ==
  ASSUME NEW way \in Way, NEW b \in Buffer, InOrder(way, b), Whole(way, b),
         way.queue = <<>>, Len(b.data) - b.w = 0
  PROVE  way.got = way.sent
<1>1. way.got \in Seq(Nat) /\ way.sent \in Seq(Nat)
  BY DEF Way, Bytes
<1>2. Len(way.got) \in Nat /\ Len(way.sent) \in Nat /\ Len(way.queue) = 0
  BY <1>1, LenFacts
<1>3. Len(way.got) + 0 + Len(way.queue) = Len(way.sent)
  BY DEF Whole
<1> DEFINE g == Len(way.got)
           m == Len(way.sent)
<1>4. g \in Nat /\ m \in Nat /\ g + 0 + 0 = m
  BY <1>2, <1>3
<1> HIDE DEF g, m
<1>5. g = m
  BY <1>4
<1>6. \A x \in 1 .. Len(way.got) : way.got[x] = way.sent[x]
  BY DEF InOrder
<1> QED
  BY <1>1, <1>5, <1>6, SameSeq, Zenon DEF g, m

(* handleRemoteWrite and handleLocalWrite, with all that send may return   *)
(* and the end of a closing connection.                                    *)
LEMMA WriteStep ==
  ASSUME RInv, NEW i \in DOMAIN rin.co, NEW s \in Sides, handleWrite(i, s)
  PROVE  RInv' /\ Maps
<1> PICK c : c = rin.co[i].conn
  OBVIOUS
<1> DEFINE k == rin.co[i]
           t == Other(s)
<1> PICK b : b = k.buf[t]
  OBVIOUS
<1>1. ~k.closed /\ ~k.shut[s]
  BY Zenon DEF handleWrite
<1>2. c \in Conns /\ LinkOK(k, wire[c]) /\ RTypeOK /\ k \in Slot /\ wire[c] \in WireOf
  BY <1>1, Typed DEF RInv, SlotsOK
<1>3. t \in Sides /\ Other(t) = s /\ t # s
  BY FarOther
<1>4. wire[c].way[t] \in Way /\ b \in Buffer
  BY <1>2, <1>3 DEF WireOf, Slot
<1>5. CASE /\ k.closing /\ Len(b.data) - b.w = 0
           /\ rin' = [rin EXCEPT !.co[i] = [@ EXCEPT !.shut[s] = TRUE, !.closed = TRUE]]
           /\ wire' = Hangup(c, s)
  <2> PICK g : g = [k EXCEPT !.shut[s] = TRUE, !.closed = TRUE]
    OBVIOUS
  <2>1. g \in Slot /\ g.closed
    BY <1>2, Zenon DEF Slot
  <2>2. k.shut[t]
    <3>1. \A u \in Sides : u = s \/ u = t
      BY <1>3 DEF Sides
    <3> QED
      BY <1>1, <1>2, <1>5, <3>1, Zenon DEF LinkOK
  <2>3. wire[c].reset # {} \/ (wire[c].way[t].fin /\ wire[c].way[t].got = wire[c].way[t].sent)
    <3>1. CASE wire[c].reset # {}
      BY <3>1, Zenon
    <3>2. CASE wire[c].reset = {}
      <4>1. wire[c].way[t].fin /\ wire[c].way[t].queue = <<>>
        BY <1>2, <1>3, <2>2, <3>2, Zenon DEF LinkOK
      <4>2. InOrder(wire[c].way[t], b) /\ Whole(wire[c].way[t], b)
        BY <1>2, <1>3, <3>2, Zenon DEF LinkOK
      <4> QED
        BY <1>4, <1>5, <4>1, <4>2, AllArrived, Zenon
    <3> QED
      BY <3>1, <3>2, Zenon
  <2>4. MayLeave(c, s)
    BY <2>3, Zenon DEF MayLeave
  <2>5. rin' = [rin EXCEPT !.co[i] = g]
    BY <1>5
  <2> QED
    BY <1>1, <1>5, <2>1, <2>4, <2>5, HangupStep, Zenon
<1>6. CASE /\ s \in wire[c].reset
           /\ rin' = [rin EXCEPT !.co[i] = Gone(k, s)]
           /\ wire' = Hangup(c, s)
  <2> PICK g : g = Gone(k, s)
    OBVIOUS
  <2>1. /\ g \in Slot /\ g.conn = k.conn /\ g.closing /\ g.buf = k.buf /\ g.shut[s]
        /\ g.shut[Other(s)] = k.shut[Other(s)]
        /\ g.closed <=> k.shut[Other(s)]
    BY <1>1, <1>2, GoneFacts
  <2>2. MayLeave(c, s)
    BY <1>6, Zenon DEF MayLeave
  <2>3. g.closed \/ Stays(g, k, c, s)
    BY <1>6, <2>1, Zenon DEF Stays
  <2>4. rin' = [rin EXCEPT !.co[i] = g]
    BY <1>6
  <2> QED
    BY <1>1, <1>6, <2>1, <2>2, <2>3, <2>4, HangupStep
<1>7. ASSUME NEW n \in 1 .. (Len(b.data) - b.w),
             rin' = [rin EXCEPT !.co[i].buf[t] = Sent(b, n)],
             wire' = [wire EXCEPT ![c].way[t].got = @ \o SubSeq(b.data, b.w + 1, b.w + n)]
      PROVE  RInv' /\ Maps
  BY <1>1, <1>3, <1>7, SendStep, Zenon
<1> QED
  BY <1>5, <1>6, <1>7, Zenon DEF handleWrite, Gone

-----------------------------------------------------------------------------
(* A peer sends one byte more.                                             *)
LEMMA PutMoves ==
  ASSUME NEW way \in Way, NEW b \in Buffer, NEW x \in Nat, InOrder(way, b), Whole(way, b)
  PROVE  InOrder(More(way, x), b) /\ Whole(More(way, x), b)
<1> DEFINE q == way.queue
           r == way.sent
           aq == Append(q, x)
           ar == Append(r, x)
           v == [way EXCEPT !.sent = ar, !.queue = aq]
           g == Len(way.got)
           p == Len(b.data) - b.w
           l == Len(q)
           m == Len(r)
<1>1. q \in Seq(Nat) /\ r \in Seq(Nat) /\ way.got \in Seq(Nat) /\ b.data \in Seq(Nat) /\ b.w \in Nat
  BY DEF Way, Buffer, Bytes
<1>2. /\ b.w <= Len(b.data)
      /\ g + p + l <= m
      /\ \A y \in 1 .. g : way.got[y] = r[y]
      /\ \A y \in 1 .. p : b.data[b.w + y] = r[g + y]
      /\ \A y \in 1 .. l : q[y] = r[g + p + y]
      /\ g + p + l = m
  BY DEF InOrder, Whole
<1>3. v.sent = ar /\ v.queue = aq /\ v.got = way.got
  BY DEF Way
<1> HIDE DEF v
<1>4. /\ Len(aq) = l + 1 /\ Len(ar) = m + 1
      /\ \A y \in 1 .. l : aq[y] = q[y]
      /\ \A y \in 1 .. m : ar[y] = r[y]
      /\ aq[l + 1] = x /\ ar[m + 1] = x
  <2> HIDE DEF q, r
  <2> QED
    BY <1>1, AppendFacts
<1>5. l \in Nat /\ m \in Nat /\ g \in Nat /\ p \in Nat
  <2> DEFINE h == Len(b.data)
             u == b.w
  <2>1. l \in Nat /\ m \in Nat /\ g \in Nat /\ h \in Nat /\ u \in Nat /\ u <= h
    BY <1>1, <1>2, LenFacts
  <2> HIDE DEF h, u
  <2>2. h - u \in Nat
    BY <2>1
  <2> QED
    BY <2>1, <2>2 DEF h, u
<1> HIDE DEF aq, ar, g, p, l, m
<1>6. /\ \A y \in 1 .. g : y \in 1 .. m
      /\ \A y \in 1 .. p : g + y \in 1 .. m
      /\ \A y \in 1 .. l + 1 : y \in 1 .. l \/ (y = l + 1 /\ g + p + y = m + 1)
      /\ \A y \in 1 .. l : g + p + y \in 1 .. m
      /\ g + p + (l + 1) = m + 1
  BY <1>2, <1>5
<1>7. /\ \A y \in 1 .. g : way.got[y] = ar[y]
      /\ \A y \in 1 .. p : b.data[b.w + y] = ar[g + y]
  BY <1>2, <1>4, <1>6
<1>8. \A y \in 1 .. l + 1 : aq[y] = ar[g + p + y]
  BY <1>2, <1>4, <1>6
<1>9. m + 1 <= m + 1
  BY <1>5
<1>10. InOrder(v, b)
  BY <1>2, <1>3, <1>4, <1>6, <1>7, <1>8, <1>9 DEF InOrder, g, p
<1>11. Whole(v, b)
  BY <1>3, <1>4, <1>6 DEF Whole, g, p
<1> QED
  BY <1>10, <1>11 DEF v, aq, ar, q, r, More

(* A peer resets: what the process has not read is lost.                   *)
LEMMA ResetMoves ==
  ASSUME NEW way \in Way, NEW b \in Buffer, InOrder(way, b)
  PROVE  LET v == [way EXCEPT !.fin = TRUE, !.queue = <<>>]
         IN InOrder(v, b)
<1> DEFINE v == [way EXCEPT !.fin = TRUE, !.queue = <<>>]
           g == Len(way.got)
           p == Len(b.data) - b.w
           l == Len(way.queue)
           m == Len(way.sent)
<1>1. way.queue \in Seq(Nat) /\ way.sent \in Seq(Nat) /\ way.got \in Seq(Nat) /\ b.data \in Seq(Nat) /\ b.w \in Nat
  BY DEF Way, Buffer, Bytes
<1>2. v.sent = way.sent /\ v.queue = <<>> /\ v.got = way.got
  BY DEF Way
<1> HIDE DEF v
<1>3. g + p + l <= m /\ l \in Nat /\ m \in Nat /\ g \in Nat /\ p \in Int
  <2> DEFINE h == Len(b.data)
             u == b.w
  <2>1. l \in Nat /\ m \in Nat /\ g \in Nat /\ h \in Nat /\ u \in Nat
    BY <1>1, LenFacts
  <2> HIDE DEF h, u
  <2>2. h - u \in Int
    BY <2>1
  <2> QED
    BY <2>1, <2>2 DEF h, u, InOrder
<1> HIDE DEF g, p, l, m
<1>4. g + p + 0 <= m
  BY <1>3
<1>5. Len(v.queue) = 0 /\ \A y \in 1 .. 0 : v.queue[y] = v.sent[g + p + y]
  BY <1>2
<1> QED
  BY <1>2, <1>4, <1>5 DEF InOrder, g, p, m, v

(* The slots of c after its side s changed to v and the sides in r have    *)
(* reset it.                                                               *)
Links(i, c, s, v) ==
  /\ ~rin.co[i].closed /\ rin.co[i].conn = c
  /\ wire'[c].st = wire[c].st /\ wire'[c].way[s] = v
  /\ wire[c].reset \subseteq wire'[c].reset /\ wire'[c].reset \subseteq wire[c].reset \cup {s}
  /\ \A t \in Sides \ {s} : wire'[c].way[t] = wire[c].way[t]
  /\ InOrder(v, rin.co[i].buf[s])
  /\ s \notin wire'[c].reset => Whole(v, rin.co[i].buf[s])
  /\ s \in wire'[c].reset => v.fin
  /\ v.eof = wire[c].way[s].eof /\ ~wire[c].way[s].fin

(* What a peer does on its own way leaves its slot and connection in       *)
(* accord.                                                                 *)
LEMMA PeerLinks ==
  ASSUME RInv, NEW c \in Conns, NEW s \in Sides, NEW v, NEW i \in DOMAIN rin.co, Links(i, c, s, v)
  PROVE  LinkOK(rin.co[i], wire'[c])
<1> DEFINE k == rin.co[i]
<1>1. LinkOK(k, wire[c])
  BY DEF RInv, SlotsOK, Links
<1> HIDE DEF k
<1>2. \A t \in Sides :
        /\ InOrder(wire'[c].way[t], k.buf[t])
        /\ t \notin wire'[c].reset => Whole(wire'[c].way[t], k.buf[t])
        /\ wire'[c].way[t].eof = wire[c].way[t].eof
        /\ k.shut[t] => wire'[c].reset # {} \/ (wire'[c].way[t].fin /\ wire'[c].way[t].queue = <<>>)
        /\ t \in wire'[c].reset => wire'[c].way[t].fin
  <2> SUFFICES ASSUME NEW t \in Sides
               PROVE  /\ InOrder(wire'[c].way[t], k.buf[t])
                      /\ t \notin wire'[c].reset => Whole(wire'[c].way[t], k.buf[t])
                      /\ wire'[c].way[t].eof = wire[c].way[t].eof
                      /\ k.shut[t] => wire'[c].reset # {} \/ (wire'[c].way[t].fin /\ wire'[c].way[t].queue = <<>>)
                      /\ t \in wire'[c].reset => wire'[c].way[t].fin
    OBVIOUS
  <2>1. CASE t = s
    <3>1. k.shut[t] => wire'[c].reset # {}
      BY <1>1, <2>1 DEF LinkOK, Links
    <3> QED
      BY <2>1, <3>1 DEF k, Links
  <2>2. CASE t # s
    BY <1>1, <2>2 DEF LinkOK, Links
  <2> QED
    BY <2>1, <2>2
<1>3. LinkOK(k, wire'[c])
  BY <1>1, <1>2, FarOther, Zenon DEF LinkOK, Links
<1> QED
  BY <1>3 DEF k

Given(c, v, s) ==
  /\ Talking(c, s) /\ rin' = rin /\ AfterSet(c, s, v) /\ v.eof = wire[c].way[s].eof
  /\ \A b \in Buffer : InOrder(wire[c].way[s], b) /\ Whole(wire[c].way[s], b) =>
       InOrder(v, b) /\ Whole(v, b)
  /\ v.got = wire[c].way[s].got
  /\ wire[c].way[s].queue = wire[c].way[s].sent => v.queue = v.sent

(* A peer that only sends or finishes keeps the invariant, before the      *)
(* connection is accepted and after.                                       *)
LEMMA TalkStep ==
  ASSUME RInv, NEW c \in Conns, NEW s \in Sides, NEW v, Given(c, v, s)
  PROVE  RInv'
<1>1. wire[c].st \in {"pending", "open"} /\ ~wire[c].way[s].fin
  BY DEF Given, Talking
<1>2. /\ wire' \in [Conns -> WireOf]
      /\ \A d \in Conns \ {c} : wire'[d] = wire[d]
      /\ wire'[c].st = wire[c].st /\ wire'[c].se = wire[c].se /\ wire'[c].reset = wire[c].reset
      /\ wire'[c].way[s] = v
      /\ \A t \in Sides \ {s} : wire'[c].way[t] = wire[c].way[t]
      /\ rin' = rin
  BY DEF Given, AfterSet
<1>3. ASSUME NEW i \in DOMAIN rin.co, ~rin.co[i].closed, rin.co[i].conn = c
      PROVE  LinkOK(rin.co[i], wire'[c])
  <2>1. LinkOK(rin.co[i], wire[c]) /\ rin.co[i].buf[s] \in Buffer
    BY <1>3, Typed DEF RInv, SlotsOK, Slot
  <2>2. /\ InOrder(wire[c].way[s], rin.co[i].buf[s])
        /\ s \notin wire[c].reset /\ Whole(wire[c].way[s], rin.co[i].buf[s])
    BY <1>1, <2>1 DEF LinkOK
  <2>3. InOrder(v, rin.co[i].buf[s]) /\ Whole(v, rin.co[i].buf[s]) /\ v.eof = wire[c].way[s].eof
    BY <2>1, <2>2 DEF Given
  <2>4. Links(i, c, s, v)
    BY <1>1, <1>2, <1>3, <2>2, <2>3, Zenon DEF Links
  <2> QED
    BY <2>4, PeerLinks
<1>4. wire[c].st = "pending" => Unheard(wire'[c])
  <2> SUFFICES ASSUME wire[c].st = "pending"
               PROVE  Unheard(wire'[c])
    OBVIOUS
  <2>1. Unheard(wire[c])
    BY DEF RInv, WaitingOK
  <2>2. v.got = <<>> /\ v.queue = v.sent /\ ~v.eof
    BY <2>1 DEF Unheard, Given
  <2> QED
    BY <1>2, <2>1, <2>2 DEF Unheard
<1> QED
  BY <1>1, <1>2, <1>3, <1>4, PeerStep

(* A peer sends a byte.                                                    *)
LEMMA PutStep ==
  ASSUME RInv, NEW c \in Conns, NEW s \in Sides, PeerSend(c, s)
  PROVE  RInv' /\ Maps
<1> DEFINE way == wire[c].way[s]
<1> PICK x : x = Len(way.sent) + 1
  OBVIOUS
<1> PICK v : v = More(way, x)
  OBVIOUS
<1>1. way \in Way /\ RTypeOK
  BY Typed DEF RInv, WireOf
<1>2. x \in Nat /\ x \in 1 .. (Len(way.sent) + 1)
  <2> DEFINE m == Len(way.sent)
  <2>1. way.sent \in Seq(Nat)
    BY <1>1 DEF Way, Bytes
  <2>2. m \in Nat
    BY <2>1, LenFacts
  <2> HIDE DEF m
  <2>3. m + 1 \in Nat /\ m + 1 \in 1 .. (m + 1)
    BY <2>2
  <2> QED
    BY <2>3 DEF m
<1>3. Append(way.sent, x) \in Bytes /\ Append(way.queue, x) \in Bytes
  <2>1. way.sent \in Seq(Nat) /\ way.queue \in Seq(Nat)
    BY <1>1 DEF Way, Bytes
  <2> QED
    BY <1>2, <2>1, AppendFacts DEF Bytes
<1>4. /\ v \in Way /\ v.sent = Append(way.sent, x) /\ v.queue = Append(way.queue, x)
      /\ v.got = way.got /\ v.fin = way.fin /\ v.eof = way.eof
  BY <1>1, <1>3, Zenon DEF Way, More
<1>5. SetWay(c, s, v) /\ rin' = rin /\ Talking(c, s)
  <2>1. wire' = [wire EXCEPT ![c].way[s] = More(way, Len(way.sent) + 1)]
    BY DEF PeerSend
  <2>2. wire' = [wire EXCEPT ![c].way[s] = v]
    BY <2>1
  <2> QED
    BY <2>2 DEF SetWay, PeerSend
<1>6. AfterSet(c, s, v)
  BY <1>1, <1>4, <1>5, WaySet, Zenon
<1>7. \A b \in Buffer : InOrder(way, b) /\ Whole(way, b) => InOrder(v, b) /\ Whole(v, b)
  BY <1>1, <1>2, PutMoves
<1>8. Given(c, v, s)
  BY <1>4, <1>5, <1>6, <1>7, Zenon DEF Given
<1>9. RInv'
  BY <1>8, TalkStep
<1>10. AfterPut(c, s, x)
  <2>1. OneWay(c, s, Rec(v)) /\ SameSent(v, wire[c].way[s]) /\ v.sent = Append(wire[c].way[s].sent, x)
    BY <1>4, <1>6, Zenon DEF AfterSet, SameSent
  <2> QED
    BY <2>1, PutRecord, Zenon
<1>11. Streams!Put(c, s)
  BY <1>2, <1>5, <1>6, <1>10, PutMaps, Zenon DEF AfterSet, Talking
<1> QED
  BY <1>9, <1>11, MapsOne

(* Setting fin moves no byte.                                              *)
LEMMA FinishKeepsBytes ==
  ASSUME NEW way \in Way
  PROVE  LET v == [way EXCEPT !.fin = TRUE]
         IN /\ v \in Way /\ v.fin = TRUE
            /\ v.sent = way.sent /\ v.got = way.got /\ v.eof = way.eof /\ v.queue = way.queue
            /\ \A b : InOrder(way, b) /\ Whole(way, b) => InOrder(v, b) /\ Whole(v, b)
<1> DEFINE v == [way EXCEPT !.fin = TRUE]
<1>1. /\ v \in Way /\ v.fin = TRUE
      /\ v.sent = way.sent /\ v.got = way.got /\ v.eof = way.eof /\ v.queue = way.queue
  BY Zenon DEF Way
<1> HIDE DEF v
<1>2. \A b : InOrder(way, b) /\ Whole(way, b) => InOrder(v, b) /\ Whole(v, b)
  BY <1>1 DEF InOrder, Whole
<1> QED
  BY <1>1, <1>2, Zenon DEF v

(* A peer has sent everything.                                             *)
LEMMA FinishStep ==
  ASSUME RInv, NEW c \in Conns, NEW s \in Sides, PeerFinish(c, s)
  PROVE  RInv' /\ Maps
<1> DEFINE way == wire[c].way[s]
<1> PICK v : v = [way EXCEPT !.fin = TRUE]
  BY Zenon
<1>1. way \in Way /\ RTypeOK
  BY Typed DEF RInv, WireOf
<1>2. /\ v \in Way /\ v.fin = TRUE
      /\ v.sent = way.sent /\ v.got = way.got /\ v.eof = way.eof /\ v.queue = way.queue
      /\ \A b : InOrder(way, b) /\ Whole(way, b) => InOrder(v, b) /\ Whole(v, b)
  BY <1>1, FinishKeepsBytes
<1>3. SetWay(c, s, v) /\ rin' = rin /\ Talking(c, s)
  BY <1>1 DEF PeerFinish, SetWay
<1>4. AfterSet(c, s, v)
  BY <1>1, <1>2, <1>3, WaySet
<1>5. Given(c, v, s)
  BY <1>2, <1>3, <1>4, Zenon DEF Given
<1>6. RInv'
  BY <1>5, TalkStep
<1>7. AfterFinish(c, s)
  <2>1. OneWay(c, s, Rec(v)) /\ SameFin(v, wire[c].way[s])
    BY <1>2, <1>4 DEF AfterSet, SameFin
  <2> QED
    BY <1>2, <2>1, FinishRecord, Zenon
<1>8. Streams!Finish(c, s)
  BY <1>3, <1>4, <1>7, FinishMaps DEF AfterSet, Talking
<1> QED
  BY <1>6, <1>8, MapsOne

(* A peer resets the connection, and what it had not had read is lost.     *)
LEMMA ResetStep ==
  ASSUME RInv, NEW c \in Conns, NEW s \in Sides, PeerReset(c, s)
  PROVE  RInv' /\ Maps
<1> DEFINE way == wire[c].way[s]
<1> PICK v : v = [way EXCEPT !.fin = TRUE, !.queue = <<>>]
  OBVIOUS
<1> PICK w : w = [wire[c] EXCEPT !.way[s] = v, !.reset = @ \cup {s}]
  OBVIOUS
<1>1. way \in Way /\ RTypeOK /\ wire[c] \in WireOf /\ wire \in [Conns -> WireOf]
  BY Typed DEF RInv, RTypeOK, WireOf
<1>2. /\ v \in Way /\ v.fin = TRUE /\ v.queue = <<>>
      /\ v.sent = way.sent /\ v.got = way.got /\ v.eof = way.eof
  <2>1. <<>> \in Bytes
    BY DEF Bytes
  <2> QED
    BY <1>1, <2>1, Zenon DEF Way
<1>3. /\ w \in WireOf /\ w.st = wire[c].st /\ w.se = wire[c].se
      /\ w.reset = wire[c].reset \cup {s} /\ w.way[s] = v
      /\ \A t \in Sides \ {s} : w.way[t] = wire[c].way[t]
  BY <1>1, <1>2, Zenon DEF WireOf
<1>4. wire' = [wire EXCEPT ![c] = w]
  BY Zenon DEF PeerReset
<1>5. /\ wire'[c] = w /\ wire' \in [Conns -> WireOf]
      /\ \A d \in Conns \ {c} : wire'[d] = wire[d]
  BY <1>1, <1>3, <1>4
<1>6. rin' = rin /\ wire[c].st = "open" /\ ~way.fin
  BY DEF PeerReset, Talking
<1>7. ASSUME NEW i \in DOMAIN rin.co, ~rin.co[i].closed, rin.co[i].conn = c
      PROVE  LinkOK(rin.co[i], wire'[c])
  <2>1. LinkOK(rin.co[i], wire[c]) /\ rin.co[i].buf[s] \in Buffer
    BY <1>7, Typed DEF RInv, SlotsOK, Slot
  <2>2. InOrder(v, rin.co[i].buf[s])
    BY <1>1, <2>1, ResetMoves, Zenon DEF LinkOK
  <2>3. /\ s \in wire'[c].reset /\ v.fin
        /\ wire[c].reset \subseteq wire'[c].reset /\ wire'[c].reset \subseteq wire[c].reset \cup {s}
    BY <1>2, <1>3, <1>5
  <2>4. Links(i, c, s, v)
    BY <1>2, <1>3, <1>5, <1>6, <1>7, <2>2, <2>3 DEF Links
  <2> QED
    BY <2>4, PeerLinks
<1>8. RInv'
  BY <1>3, <1>5, <1>6, <1>7, PeerStep, Zenon
<1>9. AfterFinish(c, s)
  <2>1. OneWay(c, s, Rec(v))
    BY <1>3, <1>5 DEF OneWay, Abs
  <2>2. SameFin(v, wire[c].way[s])
    BY <1>2 DEF SameFin
  <2> QED
    BY <1>2, <2>1, <2>2, FinishRecord, Zenon
<1>10. CASE Cut(c)
  <2>1. Held
    BY <1>3, <1>5, <1>10, Zenon DEF Held, Open, Cut
  <2>2. Streams!Finish(c, s)
    BY <1>6, <1>9, <2>1, FinishMaps
  <2> QED
    BY <1>8, <2>2, MapsOne
<1>11. CASE ~Cut(c)
  <2>1. CutNow(c)
    BY <1>3, <1>5, <1>11, Zenon DEF CutNow, Open, Cut
  <2>2. Streams!Break(c)
    BY <1>9, <2>1, BreakMaps
  <2> QED
    BY <1>8, <2>2 DEF Maps
<1> QED
  BY <1>10, <1>11

(* A client connects: nothing of the streams has changed yet.              *)
LEMMA ConnectStep ==
  ASSUME RInv, NEW c \in Conns, Connect(c)
  PROVE  RInv' /\ Maps
<1>1. PICK se \in DOMAIN rin.se : wire' = [wire EXCEPT ![c].st = "pending", ![c].se = se]
  BY Zenon DEF Connect
<1> PICK w : w = [wire[c] EXCEPT !.st = "pending", !.se = se]
  OBVIOUS
<1>2. RTypeOK /\ wire[c] \in WireOf /\ wire \in [Conns -> WireOf] /\ se \in Nat
  <2>1. rin.se \in Seq(RuleSet)
    BY DEF RInv, RTypeOK
  <2> QED
    BY <2>1, Typed DEF RInv, RTypeOK
<1>3. /\ w \in WireOf /\ w.st = "pending" /\ w.se = se
      /\ w.reset = wire[c].reset /\ w.way = wire[c].way
  BY <1>2, Zenon DEF WireOf, States
<1>4. wire' = [wire EXCEPT ![c] = w]
  BY <1>1, Zenon
<1>5. /\ wire'[c] = w /\ wire' \in [Conns -> WireOf]
      /\ \A d \in Conns \ {c} : wire'[d] = wire[d]
  BY <1>2, <1>3, <1>4
<1>6. rin' = rin /\ wire[c].st = "none" /\ rin.run = "run"
  BY DEF Connect
<1>7. \A i \in DOMAIN rin.co : ~rin.co[i].closed => rin.co[i].conn # c
  BY <1>6, Zenon DEF RInv, SlotsOK, LinkOK
<1>8. SlotsOK'
  <2>1. \A i \in DOMAIN rin.co : ~rin.co[i].closed =>
          rin.co[i].conn \in Conns /\ LinkOK(rin.co[i], wire'[rin.co[i].conn])
    BY <1>5, <1>7 DEF RInv, SlotsOK
  <2> QED
    BY <1>6, <2>1 DEF SlotsOK, RInv
<1>9. WaitingOK'
  <2>1. Unheard(wire[c])
    BY <1>6 DEF RInv, WaitingOK
  <2>2. Unheard(w)
    BY <1>3, <2>1 DEF Unheard
  <2> QED
    BY <1>5, <2>2 DEF WaitingOK, RInv
<1>10. RulesRead'
  <2>1. \A d \in Conns : wire'[d].st # "none" => rin.run = "run" /\ wire'[d].se \in DOMAIN rin.se
    <3>1. wire'[c].se \in DOMAIN rin.se
      BY <1>3, <1>5
    <3> QED
      BY <1>5, <1>6, <3>1, Zenon DEF RInv, RulesRead
  <2> QED
    BY <1>6, <2>1, RulesKept DEF RInv
<1>11. RInv'
  BY <1>2, <1>5, <1>6, <1>8, <1>9, <1>10 DEF RInv, RTypeOK
<1>12. \A d \in Conns : Same(d)
  BY <1>3, <1>5, <1>6, Zenon DEF Same, Open, Cut, Abs
<1> QED
  BY <1>11, <1>12, SameMaps DEF Maps
=============================================================================
