-------------------------------- MODULE Dnsc --------------------------------
(* dnsc, the small client CrossBreeder checks its resolver with: it asks   *)
(* for one address, once, and its exit status says whether there was an    *)
(* answer.                                                                 *)
EXTENDS DnsBytes

(* ChangetoDnsNameFormat: host gets a dot at its end; each dot ends a      *)
(* label, an empty one too.                                                *)
ChangetoDnsNameFormat(host) ==
  FoldLeft(LAMBDA a, l : a \o <<Len(l)>> \o l, <<>>, LabelsOf(host \o <<Dot>>)) \o <<0>>

(* The query ngethostbyname sends: recursion wanted, one question.         *)
Question(id, host) ==
  PUTSHORT(id) \o <<1, 0>> \o PUTSHORT(1) \o PUTSHORT(0) \o PUTSHORT(0) \o PUTSHORT(0)
  \o ChangetoDnsNameFormat(host) \o PUTSHORT(1) \o PUTSHORT(1)

(* ReadName: the bytes of the labels up to the zero byte, pointers         *)
(* followed, and how far the reader moves on (count).                      *)
RECURSIVE RawName(_, _, _)
RawName(buf, reader, s) ==
  LET c == Byte(buf, reader)
      jump == c >= 192
      jumped == s.jumped \/ jump
      t == [raw |-> IF jump THEN s.raw ELSE Append(s.raw, c), jumped |-> jumped,
            count |-> IF jumped THEN s.count ELSE s.count + 1]
  IN IF c = 0 THEN [s EXCEPT !.count = IF s.jumped THEN @ + 1 ELSE @]
     ELSE RawName(buf, IF jump THEN GETSHORT(buf, reader) - 49152 ELSE reader + 1, t)

(* 3www6google3com to www.google.com                                       *)
RECURSIVE WithDots(_)
WithDots(raw) ==
  IF raw = <<>> THEN <<>>
  ELSE SubSeq(raw, 2, Head(raw) + 1) \o <<Dot>> \o WithDots(SubSeq(raw, Head(raw) + 2, Len(raw)))

ReadName(buf, reader) ==
  LET Dots(s) == [name |-> IF s.raw = <<>> THEN <<>> ELSE Front(WithDots(s.raw)), count |-> s.count]
  IN Dots(RawName(buf, reader, [raw |-> <<>>, jumped |-> FALSE, count |-> 1]))

(* One record of the answer: an address is taken as it is; anything else   *)
(* is read as a name, and the reader moves behind that name.               *)
TakeRecord(a, name, at, asName) ==
  LET Address(len) ==
        [a EXCEPT !.reader = at + 10 + len,
                  !.rrs = Append(@, [name |-> name, type |-> 1,
                                     data |-> SubSeq(a.buf, at + 11, at + 10 + len)])]
      Name(rd) ==
        [a EXCEPT !.reader = at + 10 + rd.count,
                  !.rrs = Append(@, [name |-> name, type |-> GETSHORT(a.buf, at), data |-> rd.name])]
  IN IF GETSHORT(a.buf, at) = 1 /\ ~asName THEN Address(GETSHORT(a.buf, at + 8))
     ELSE Name(ReadName(a.buf, at + 10))

ReadRecord(a, asName) ==
  LET Named(n) == TakeRecord(a, n.name, a.reader + n.count, asName)
  IN Named(ReadName(a.buf, a.reader))

(* The rest of ngethostbyname.  The reply, <<>> if none came in time, was  *)
(* written over the query in the buffer, and the reader starts behind the  *)
(* question that is now there.  Nothing compares the two.  The additional  *)
(* records are only shown.                                                 *)
ReadAll(buf, start) ==
  LET Repeat(a, n, asName) == FoldLeft(LAMBDA b, k : ReadRecord(b, asName), a, [k \in 1 .. n |-> k])
  IN Repeat(Repeat([buf |-> buf, reader |-> start, rrs |-> <<>>], ancount(buf), FALSE),
            nscount(buf), TRUE)

Resolved(buf) ==
  [rrs |-> ReadAll(buf, Header + ReadName(buf, Header).count + 4).rrs,
   status |-> IF ancount(buf) > 0 THEN 0 ELSE 1]

ngethostbyname(query, reply) == Resolved(reply \o SubSeq(query, Len(reply) + 1, Len(query)))
=============================================================================
