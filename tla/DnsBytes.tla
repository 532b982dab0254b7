------------------------------ MODULE DnsBytes ------------------------------
(* DNS packets as the sequence of their bytes, shared by the models of the *)
(* programs that read and write them.  An offset is counted from 0, as in  *)
(* the code: the header takes the bytes 0 to 11.  A name is the sequence   *)
(* of its characters.                                                      *)
EXTENDS Integers, Sequences, SequencesExt

Header == 12
Dot == 46

Byte(packet, o) == packet[o + 1]

GETSHORT(packet, o) == 256 * Byte(packet, o) + Byte(packet, o + 1)
PUTSHORT(n) == <<(n \div 256) % 256, n % 256>>
PUTLONG(n) == <<(n \div 16777216) % 256, (n \div 65536) % 256>> \o PUTSHORT(n)

(* The bytes s written from offset o on, over what is there.               *)
Write(packet, o, s) ==
  SubSeq(packet, 1, o) \o s \o SubSeq(packet, o + Len(s) + 1, Len(packet))

(* The bits of the flag bytes hb3 and hb4.                                 *)
HasBit(b, m) == (b \div m) % 2 = 1
SetBit(b, m) == IF HasBit(b, m) THEN b ELSE b + m
ClearBit(b, m) == IF HasBit(b, m) THEN b - m ELSE b
OPCODE(packet) == (Byte(packet, 2) \div 8) % 16
RCODE(packet) == Byte(packet, 3) % 16
SET_RCODE(packet, code) == [packet EXCEPT ![4] = (@ \div 16) * 16 + code]
qdcount(packet) == GETSHORT(packet, 4)
ancount(packet) == GETSHORT(packet, 6)
nscount(packet) == GETSHORT(packet, 8)
arcount(packet) == GETSHORT(packet, 10)

Lower(c) == IF c \in 65 .. 90 THEN c + 32 ELSE c
LowerName(name) == [k \in DOMAIN name |-> Lower(name[k])] \o <<>>

(* A name as its labels, and a number in decimal.                          *)
RECURSIVE LabelsOf(_)
LabelsOf(name) ==
  LET k == SelectInSeq(name, LAMBDA c : c = Dot)
  IN IF name = <<>> THEN <<>>
     ELSE IF k = 0 THEN <<name>>
     ELSE <<SubSeq(name, 1, k - 1)>> \o LabelsOf(SubSeq(name, k + 1, Len(name)))

RECURSIVE Decimal(_)
Decimal(n) == (IF n < 10 THEN <<>> ELSE Decimal(n \div 10)) \o <<48 + (n % 10)>>

Dotted(labels) ==
  FoldLeft(LAMBDA a, l : IF a = <<>> THEN l ELSE a \o <<Dot>> \o l, <<>>, labels)

Suffix(name, k) == SubSeq(name, k + 1, Len(name))
=============================================================================
