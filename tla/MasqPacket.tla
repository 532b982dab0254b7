----------------------------- MODULE MasqPacket -----------------------------
(* How dnsmasq reads and writes DNS packets (rfc1035.c): the names with    *)
(* their compression, the walk over the sections, the EDNS pseudoheader,   *)
(* the replies it sets up and the addresses it rewrites.  Names built of   *)
(* bit-string labels are left out.                                         *)
EXTENDS DnsBytes

MAXDNAME == 1025
MaxHops == 255
PACKETSZ == 512
EDNS0_OPTION_MAC == 5

T_A == 1
T_SIG == 24
T_AAAA == 28
T_OPT == 41
T_TKEY == 249
T_TSIG == 250
T_ANY == 255
C_IN == 1
C_ANY == 255

NOERROR == 0
SERVFAIL == 2
NXDOMAIN == 3
REFUSED == 5

CHECK_LEN(packet, o, n) == o + n <= Len(packet)

Printable(c) == c \in 32 .. 126 /\ c # Dot

(* One label of extract_name.  With isExtract its characters are added to  *)
(* out; else they are compared with those left of the name in rest.        *)
Label(s, chars, isExtract) ==
  LET Compare(t, c) ==
        IF t.rest = <<>> THEN [t EXCEPT !.ret = 2]
        ELSE [t EXCEPT !.rest = Tail(@), !.cp = @ + 1,
                       !.ret = IF Lower(Head(t.rest)) = Lower(c) THEN @ ELSE 2]
      End(t) == IF t.rest = <<>> THEN t
                ELSE [t EXCEPT !.rest = Tail(@), !.cp = @ + 1,
                               !.ret = IF Head(t.rest) = Dot THEN @ ELSE 2]
  IN CASE s.cp + Len(chars) + 1 >= MAXDNAME -> [s EXCEPT !.ret = 0]
       [] isExtract -> IF \A k \in DOMAIN chars : Printable(chars[k])
                       THEN [s EXCEPT !.out = @ \o chars \o <<Dot>>, !.cp = @ + Len(chars) + 1]
                       ELSE [s EXCEPT !.ret = 0]
       [] OTHER -> End(FoldLeft(Compare, s, chars))

(* extract_name from offset p: where = 0 until a pointer was followed, then*)
(* the place to go on from.  ret is 0 for a bad packet, 2 if the name is   *)
(* not the one it is compared with, else 1.                                *)
RECURSIVE ReadLabels(_, _, _, _)
ReadLabels(packet, s, isExtract, extrabytes) ==
  LET l == Byte(packet, s.p)
      bad == [s EXCEPT !.ret = 0]
  IN CASE s.ret = 0 \/ ~CHECK_LEN(packet, s.p, 1) -> bad
       [] CHECK_LEN(packet, s.p, 1) /\ l = 0 ->
            IF ~CHECK_LEN(packet, s.p + 1, extrabytes) THEN bad
            ELSE [s EXCEPT !.p = IF s.where # 0 THEN s.where ELSE @ + 1,
                           !.out = IF @ = <<>> THEN @ ELSE Front(@),
                           !.ret = IF ~isExtract /\ s.rest # <<>> THEN 2 ELSE @]
       [] CHECK_LEN(packet, s.p, 1) /\ l >= 192 ->
            IF ~CHECK_LEN(packet, s.p + 1, 1) \/ s.hops = MaxHops THEN bad
            ELSE ReadLabels(packet, [s EXCEPT !.p = GETSHORT(packet, s.p) - 49152, !.hops = @ + 1,
                                           !.where = IF @ = 0 THEN s.p + 2 ELSE @],
                            isExtract, extrabytes)
       [] CHECK_LEN(packet, s.p, 1) /\ l \in 64 .. 191 -> bad
       [] OTHER ->
            IF ~CHECK_LEN(packet, s.p + 1, l) THEN bad
            ELSE ReadLabels(packet, [Label(s, SubSeq(packet, s.p + 2, s.p + 1 + l), isExtract)
                                    EXCEPT !.p = s.p + 1 + l],
                            isExtract, extrabytes)

extract_name(packet, p, name, isExtract, extrabytes) ==
  ReadLabels(packet, [p |-> p, where |-> 0, hops |-> 0, out |-> <<>>, cp |-> 0,
                   rest |-> name, ret |-> 1], isExtract, extrabytes)

(* skip_name: 0 for NULL.                                                  *)
RECURSIVE skip_name(_, _, _)
skip_name(packet, o, extrabytes) ==
  LET l == Byte(packet, o)
      Done(p) == IF CHECK_LEN(packet, p, extrabytes) THEN p ELSE 0
  IN CASE ~CHECK_LEN(packet, o, 1) -> 0
       [] CHECK_LEN(packet, o, 1) /\ l >= 192 -> Done(o + 2)
       [] CHECK_LEN(packet, o, 1) /\ l \in 64 .. 191 -> 0
       [] CHECK_LEN(packet, o, 1) /\ l = 0 -> Done(o + 1)
       [] OTHER -> IF CHECK_LEN(packet, o + 1, l) THEN skip_name(packet, o + 1 + l, extrabytes) ELSE 0

(* A NULL goes through the steps that follow: each gives up on it.         *)
SkipFrom(packet, o, extrabytes) == IF o = 0 THEN 0 ELSE skip_name(packet, o, extrabytes)
Behind(p, n) == IF p = 0 THEN 0 ELSE p + n
Upto(n) == [k \in 1 .. n |-> k]

skip_questions(packet) ==
  FoldLeft(LAMBDA o, k : Behind(SkipFrom(packet, o, 4), 4), Header, Upto(qdcount(packet)))

(* The record whose fixed part is at p ends here; 0 if outside the packet. *)
Within(packet, end) == IF end <= Len(packet) THEN end ELSE 0

EndOfRecord(packet, p) ==
  IF p = 0 THEN 0 ELSE Within(packet, p + 10 + GETSHORT(packet, p + 8))

skip_section(packet, o, count) ==
  FoldLeft(LAMBDA a, k : EndOfRecord(packet, SkipFrom(packet, a, 10)), o, Upto(count))

(* questions_crc, the checksum taken for what it sums: the decoded names   *)
(* in lower case, with the types and classes, up to a bad question.        *)
SumUp(packet, a, n) ==
  IF a.bad \/ n.ret = 0 THEN [a EXCEPT !.bad = TRUE]
  ELSE [a EXCEPT !.p = n.p + 4,
                 !.sum = Append(@, <<LowerName(n.out), SubSeq(packet, n.p + 1, n.p + 4)>>)]

questions_crc(packet) ==
  FoldLeft(LAMBDA a, k : SumUp(packet, a, extract_name(packet, a.p, <<>>, TRUE, 4)),
           [p |-> Header, bad |-> FALSE, sum |-> <<>>], Upto(qdcount(packet))).sum

-----------------------------------------------------------------------------
(* find_pseudoheader: where the OPT record starts (0 if there is none), how*)
(* long it is, where its UDP size is and whether the packet is signed.     *)
(* Asked about signatures in a packet that is no QUERY the code walks the  *)
(* questions as if they were records.                                      *)
NoHeader == [start |-> 0, len |-> 0, size |-> 0, is_sign |-> FALSE]

AfterQuestion(packet, asked, a, p) ==
  IF p = 0 THEN [a EXCEPT !.p = 0]
  ELSE [a EXCEPT !.p = p + 4,
                 !.r.is_sign = @ \/ (asked /\ GETSHORT(packet, p) = T_TKEY
                                           /\ GETSHORT(packet, p + 2) = C_IN)]

AfterRecord(packet, a, p, end, mayBeSig) ==
  IF end = 0 THEN [a EXCEPT !.p = 0]
  ELSE [p |-> end,
        r |-> IF GETSHORT(packet, p) = T_OPT
              THEN [a.r EXCEPT !.start = a.p, !.len = end - a.p, !.size = p + 2]
              ELSE [a.r EXCEPT !.is_sign = @ \/ (mayBeSig /\ GETSHORT(packet, p + 2) = C_ANY
                                                 /\ GETSHORT(packet, p) \in {T_SIG, T_TSIG})]]

PastQuestions(packet, asked) ==
  FoldLeft(LAMBDA a, k : AfterQuestion(packet, asked, a, SkipFrom(packet, a.p, 4)),
           [p |-> Header, r |-> NoHeader],
           IF asked /\ OPCODE(packet) # 0 THEN <<>> ELSE Upto(qdcount(packet)))

PastRecords(packet, asked, a) ==
  FoldLeft(LAMBDA b, k : LET p == SkipFrom(packet, b.p, 10)
                         IN AfterRecord(packet, b, p, EndOfRecord(packet, p),
                                        asked /\ k = arcount(packet)),
           a, Upto(arcount(packet)))

FoundHeader(a) == IF a.p = 0 THEN [a.r EXCEPT !.start = 0] ELSE a.r

find_pseudoheader(packet, asked) ==
  LET Sections(a) ==
        IF arcount(packet) = 0 THEN a.r
        ELSE FoundHeader(PastRecords(packet, asked,
               [a EXCEPT !.p = skip_section(packet, a.p, ancount(packet) + nscount(packet))]))
  IN Sections(PastQuestions(packet, asked))

EndOfPacket(packet) ==
  skip_section(packet, skip_questions(packet), ancount(packet) + nscount(packet) + arcount(packet))

(* resize_packet: what the header's counts no longer cover is cut off, and *)
(* the pseudoheader found before (h) put back if its section is now empty. *)
CutAt(packet, h, end) ==
  CASE end = 0 -> packet
    [] end # 0 /\ h.start # 0 /\ arcount(packet) = 0 ->
         Write(SubSeq(packet, 1, end), 10, PUTSHORT(1))
         \o SubSeq(packet, h.start + 1, h.start + h.len)
    [] OTHER -> SubSeq(packet, 1, end)

resize_packet(packet, h) == CutAt(packet, h, EndOfPacket(packet))

(* filter_mac once the sender's hardware address is found: an option is    *)
(* added to the pseudoheader, which is made if there is no other record    *)
(* behind the question.  The options are passed over one by one; the last  *)
(* is not if it is empty, and then the new one takes its place.            *)
RECURSIVE PastOptions(_, _, _, _)
PastOptions(packet, p, i, rdlen) ==
  IF i + 4 >= rdlen THEN p
  ELSE IF GETSHORT(packet, p) = EDNS0_OPTION_MAC THEN 0
  ELSE PastOptions(packet, p + 4 + GETSHORT(packet, p + 2), i + 4 + GETSHORT(packet, p + 2), rdlen)

MacOption(mac) == PUTSHORT(EDNS0_OPTION_MAC) \o PUTSHORT(Len(mac)) \o mac
Fits(mac, p) == Len(mac) <= PACKETSZ - (p + 4)

NewHeader(packet, mac, end) ==
  IF end = 0 \/ ~Fits(mac, end + 11) THEN packet
  ELSE Write(SubSeq(packet, 1, end), 10, PUTSHORT(1))
       \o <<0>> \o PUTSHORT(T_OPT) \o PUTSHORT(PACKETSZ) \o PUTLONG(0)
       \o PUTSHORT(Len(mac) + 4) \o MacOption(mac)

AddAt(packet, mac, fix, at) ==
  IF at = 0 \/ ~Fits(mac, at) THEN packet
  ELSE Write(SubSeq(packet, 1, at), fix + 8, PUTSHORT(at + Len(mac) + 4 - (fix + 10)))
       \o MacOption(mac)

AddTo(packet, mac, fix) ==
  IF fix = 0 THEN packet
  ELSE AddAt(packet, mac, fix, PastOptions(packet, fix + 10, 0, GETSHORT(packet, fix + 8)))

filter_mac(packet, mac) ==
  LET Extend(h) == IF arcount(packet) # 1 \/ h.start = 0 \/ h.is_sign THEN packet
                   ELSE AddTo(packet, mac, skip_name(packet, h.start, 10))
  IN IF arcount(packet) = 0
     THEN NewHeader(packet, mac, skip_section(packet, skip_questions(packet),
                                              ancount(packet) + nscount(packet)))
     ELSE Extend(find_pseudoheader(packet, TRUE))

(* mac is <<>> if the sender is not in the kernel's table of neighbours.   *)
add_mac(packet, mac) ==
  IF arcount(packet) > 1 \/ mac = <<>> THEN packet ELSE filter_mac(packet, mac)

-----------------------------------------------------------------------------
(* do_doctor: the first alias that covers an A record's address replaces   *)
(* the part of it under the mask.  An alias covers a network (end = <<>>)  *)
(* or a range; a mask has bytes 0 and 255.  Result 0 stands for NULL.      *)
is_same_net(a, b, mask) == \A k \in 1 .. 4 : mask[k] = 0 \/ a[k] = b[k]
AtMost(a, b) ==
  a = b \/ \E k \in 1 .. 4 : a[k] < b[k] /\ \A j \in 1 .. k - 1 : a[j] = b[j]

Covers(d, addr) ==
  IF d.end = <<>> THEN is_same_net(d.in, addr, d.mask)
  ELSE AtMost(d.in, addr) /\ AtMost(addr, d.end)

Replaced(d, addr) ==
  FoldLeft(LAMBDA a, k : Append(a, IF d.mask[k] = 255 THEN d.out[k] ELSE addr[k]),
           <<>>, <<1, 2, 3, 4>>)

IsAddress(packet, p) == GETSHORT(packet, p) = T_A /\ GETSHORT(packet, p + 2) = C_IN

Rewritten(packet, p, d, addr) ==
  IF d = <<>> THEN packet
  ELSE [Write(packet, p + 10, Replaced(d[1], addr)) EXCEPT ![3] = ClearBit(@, 4)]

DoctorRecord(a, p, doctors) ==
  LET addr == SubSeq(a.packet, p + 11, p + 14)
  IN CASE p = 0 -> [a EXCEPT !.p = 0]
       [] p # 0 /\ IsAddress(a.packet, p) /\ ~CHECK_LEN(a.packet, p + 10, 4) -> [a EXCEPT !.p = 0]
       [] p # 0 /\ IsAddress(a.packet, p) /\ CHECK_LEN(a.packet, p + 10, 4) ->
            [packet |-> Rewritten(a.packet, p, SelectSeq(doctors, LAMBDA d : Covers(d, addr)), addr),
             p |-> EndOfRecord(a.packet, p)]
       [] OTHER -> [a EXCEPT !.p = EndOfRecord(a.packet, p)]

do_doctor(packet, o, count, doctors) ==
  FoldLeft(LAMBDA a, k : DoctorRecord(a, SkipFrom(a.packet, a.p, 10), doctors),
           [packet |-> packet, p |-> o], Upto(count))

(* The walk of find_soa over all sections, for the aliases only.           *)
Doctored(packet, doctors) ==
  LET More(a) == do_doctor(a.packet, skip_section(a.packet, a.p, nscount(packet)),
                           arcount(packet), doctors).packet
  IN IF doctors = <<>> THEN packet
     ELSE More(do_doctor(packet, skip_questions(packet), ancount(packet), doctors))

-----------------------------------------------------------------------------
(* extract_request: {} for 0.                                              *)
Requested(packet, n) ==
  LET type == GETSHORT(packet, n.p)
      flags == IF GETSHORT(packet, n.p + 2) # C_IN THEN {"QUERY"}
               ELSE CASE type = T_A -> {"IPV4"}
                      [] type = T_AAAA -> {"IPV6"}
                      [] type = T_ANY -> {"IPV4", "IPV6"}
                      [] OTHER -> {"QUERY"}
  IN IF qdcount(packet) # 1 \/ OPCODE(packet) # 0 \/ n.ret = 0
     THEN [flags |-> {}, name |-> <<>>, type |-> 0]
     ELSE [flags |-> flags, name |-> n.out, type |-> type]

extract_request(packet) == Requested(packet, extract_name(packet, Header, <<>>, TRUE, 4))

(* do_rfc1035_name, which writes no end mark.                              *)
do_rfc1035_name(name) ==
  FoldLeft(LAMBDA a, l : a \o <<Len(l)>> \o l, <<>>, LabelsOf(name))

(* One field of the data of a record, by the letter of its format.         *)
Field(f) ==
  CASE f.as \in {"4", "6", "t"} -> f.v
    [] f.as = "s" -> PUTSHORT(f.v)
    [] f.as = "l" -> PUTLONG(f.v)
    [] f.as = "d" -> do_rfc1035_name(f.v) \o <<0>>
    [] f.as = "z" -> LET v == SubSeq(f.v, 1, IF Len(f.v) > 255 THEN 255 ELSE Len(f.v))
                     IN <<Len(v)>> \o v

(* add_resource_record at the end of the packet.  offset is where the name *)
(* among the fields was put, limit = 0 stands for none.                    *)
RData(w, fields) ==
  FoldLeft(LAMBDA a, f : [data |-> a.data \o Field(f),
                          offset |-> IF f.as = "d" THEN Len(w.packet) + 12 + Len(a.data) ELSE a.offset],
           [data |-> <<>>, offset |-> w.offset], fields)

PutRecord(w, limit, fixed, r) ==
  IF limit # 0 /\ Len(w.packet) + 12 + Len(r.data) > limit
  THEN [w EXCEPT !.trunc = TRUE, !.added = FALSE, !.offset = r.offset]
  ELSE [w EXCEPT !.packet = @ \o fixed \o PUTSHORT(Len(r.data)) \o r.data,
                 !.added = TRUE, !.offset = r.offset]

add_resource_record(w, limit, nameoffset, ttl, type, class, fields) ==
  IF w.trunc THEN [w EXCEPT !.added = FALSE]
  ELSE PutRecord(w, limit, PUTSHORT(nameoffset + 49152) \o PUTSHORT(type) \o PUTSHORT(class)
                           \o PUTLONG(ttl), RData(w, fields))

(* The header of a reply: QR and RA set, AA and TC as given.               *)
Replying(packet, aa, tc, rcode, an, ar) ==
  LET Flag(b, m, on) == IF on THEN SetBit(b, m) ELSE ClearBit(b, m)
      hb == [packet EXCEPT ![3] = SetBit(Flag(Flag(@, 4, aa), 2, tc), 128), ![4] = SetBit(@, 128)]
  IN Write(SET_RCODE(hb, rcode), 6, PUTSHORT(an) \o PUTSHORT(0) \o PUTSHORT(ar))

(* setup_reply answers a query that is not forwarded.  Whatever follows    *)
(* the question, a pseudoheader included, is cut off.                      *)
Fresh(packet, p) == [packet |-> SubSeq(packet, 1, p), offset |-> 0, trunc |-> FALSE, added |-> FALSE]

SetUp(packet, p, addr, flags, ttl) ==
  CASE p # 0 /\ flags = {"IPV4"} ->
         Replying(add_resource_record(Fresh(packet, p), 0, Header, ttl, T_A, C_IN,
                                      <<[as |-> "4", v |-> addr]>>).packet, TRUE, FALSE, NOERROR, 1, 0)
    [] p # 0 /\ flags = {"IPV6"} ->
         Replying(add_resource_record(Fresh(packet, p), 0, Header, ttl, T_AAAA, C_IN,
                                      <<[as |-> "6", v |-> addr]>>).packet, TRUE, FALSE, NOERROR, 1, 0)
    [] OTHER ->
         Replying(SubSeq(packet, 1, p), FALSE, FALSE,
                  CASE flags = {"NEG"} -> SERVFAIL [] flags = {"NOERR"} -> NOERROR
                    [] flags = {"NXDOMAIN"} -> NXDOMAIN [] OTHER -> REFUSED, 0, 0)

setup_reply(packet, addr, flags, ttl) == SetUp(packet, skip_questions(packet), addr, flags, ttl)

(* How answer_request writes the records it found, behind the question:    *)
(* those that do not fit are left out and not counted, and the header says *)
(* so.  A record is named by the question, or by the name last written as  *)
(* data when it continues an alias.                                        *)
CountedIn(a, w, more) ==
  [w |-> w, an |-> IF w.added /\ ~more THEN a.an + 1 ELSE a.an,
            ar |-> IF w.added /\ more THEN a.ar + 1 ELSE a.ar]

WriteRecords(packet, limit, recs) ==
  FoldLeft(LAMBDA a, r : CountedIn(a, add_resource_record(a.w, limit,
                                      IF r.chained THEN a.w.offset ELSE Header,
                                      r.ttl, r.type, C_IN, r.fields), r.more),
           [w |-> Fresh(packet, skip_questions(packet)), an |-> 0, ar |-> 0], recs)

WriteAnswer(packet, limit, recs, auth, nxdomain) ==
  LET Finish(a) == Replying(a.w.packet, auth, a.w.trunc,
                            IF a.an = 0 /\ nxdomain THEN NXDOMAIN ELSE NOERROR, a.an, a.ar)
  IN Finish(WriteRecords(packet, limit, recs))

-----------------------------------------------------------------------------
private_net(addr, ban_localhost) ==
  \/ addr[1] = 127 /\ ban_localhost
  \/ addr[1] = 192 /\ addr[2] = 168
  \/ addr[1] = 10
  \/ addr[1] = 172 /\ addr[2] \in 16 .. 31
  \/ addr[1] = 169 /\ addr[2] = 254

(* The addresses of the answer section, all taken to be about the question.*)
Collect(packet, a, p) ==
  [p |-> EndOfRecord(packet, p),
   set |-> IF IsAddress(packet, p) THEN a.set \cup {SubSeq(packet, p + 11, p + 14)} ELSE a.set]

Addresses(packet) ==
  FoldLeft(LAMBDA a, k : Collect(packet, a, skip_name(packet, a.p, 10)),
           [p |-> skip_questions(packet), set |-> {}], Upto(ancount(packet))).set

(* process_reply on a packet whose sections are all readable, step by step.*)
(* Options o: edns_pktsz, DNSSEC, the aliases, the bogus addresses, the    *)
(* names known here, whether addresses of private networks are refused.    *)
Trimmed(packet, h, o) ==
  IF h.start # 0 /\ ~h.is_sign /\ GETSHORT(packet, h.size) > o.edns_pktsz
  THEN Write(packet, h.size, PUTSHORT(o.edns_pktsz)) ELSE packet

NotAuthentic(packet, h, o) ==
  IF h.is_sign \/ o.dnssec THEN packet ELSE [packet EXCEPT ![4] = ClearBit(@, 32)]

Emptied(packet) == Write(packet, 6, PUTSHORT(0) \o PUTSHORT(0) \o PUTSHORT(0))

Rebinds(packet, o) ==
  /\ o.check_rebind /\ RCODE(packet) # NXDOMAIN
  /\ extract_request(packet).type = T_A
  /\ \E a \in Addresses(packet) : private_net(a, TRUE)

Extracted(packet, o, munged) ==
  IF munged \/ Rebinds(packet, o) THEN Emptied(packet) ELSE packet

KnownHere(packet, o, r) == r.flags # {} /\ LowerName(r.name) \in o.known

Munged(packet, o) ==
  CASE RCODE(packet) # NXDOMAIN /\ Addresses(packet) \cap o.bogus # {} ->
         Emptied([SET_RCODE(packet, NXDOMAIN) EXCEPT ![3] = ClearBit(@, 4)])
    [] RCODE(packet) = NXDOMAIN /\ KnownHere(packet, o, extract_request(packet)) ->
         Extracted(Doctored([SET_RCODE(packet, NOERROR) EXCEPT ![3] = SetBit(@, 4)], o.doctors), o, TRUE)
    [] OTHER -> Extracted(Doctored(packet, o.doctors), o, FALSE)

Processed(packet, h, o) ==
  IF OPCODE(packet) # 0 \/ RCODE(packet) \notin {NOERROR, NXDOMAIN} THEN packet
  ELSE resize_packet(Munged(packet, o), h)

process_reply(packet, o) ==
  LET With(h) == Processed(NotAuthentic(Trimmed(packet, h, o), h, o), h, o)
  IN With(find_pseudoheader(packet, TRUE))
=============================================================================
