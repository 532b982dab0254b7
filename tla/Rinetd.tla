------------------------------- MODULE Rinetd --------------------------------
(***************************************************************************)
(* rinetd: one process that accepts TCP connections on its configured      *)
(* servers and copies bytes between each client ("re", remote) and the     *)
(* server it redirects to ("lo", local), with two fixed buffers for each   *)
(* connection and one select() loop.                                       *)
(*                                                                         *)
(* selectPass takes one snapshot of the ready descriptors and then calls   *)
(* the handlers.  Each handler is an action here: its guard is the         *)
(* condition under which selectPass puts the descriptor in the set, and    *)
(* the flags that selectPass tests again before each call make a handler   *)
(* run in a later pass indistinguishable from one run in the same pass.    *)
(* The end of a slot's turn (both sides closed frees the slot) is part of  *)
(* every handler.  All signals are blocked for the life of the process, so *)
(* neither the SIGHUP nor the SIGTERM handler ever runs.                   *)
(***************************************************************************)
EXTENDS Integers, Sequences, FiniteSets

CONSTANTS Conns,          \* connections that may be made
          RinetdConfs,    \* [lines, load]: a configuration file and the
                          \* connections made, [client, re, lo] each: who
                          \* connects, and how much each side may send
          bufferSpace,    \* size of a connection's buffer
          coFirst         \* slots allocated by initArrays (64)

RuleKinds == {"allow", "deny"}
ConfLine == [kind : RuleKinds \cup {"server"}, who : SUBSET Nat, ok : BOOLEAN]

ASSUME RinetdAssumption ==
  /\ Conns \subseteq Nat \ {0}
  /\ coFirst \in Nat \ {0} /\ bufferSpace \in Nat
  /\ \A conf \in RinetdConfs : conf.lines \in Seq(ConfLine)

Sides == {"re", "lo"}
Other(s) == IF s = "re" THEN "lo" ELSE "re"

VARIABLES rin,   \* the process: its rules, its servers and their rules, its slots
          wire   \* wire[c]: what the two peers of c have done and seen

rvars == <<rin, wire>>

(* A line is [kind, who, ok]: an allow or deny pattern, given as the set   *)
(* of clients it matches, or a forwarding rule that could be set up or     *)
(* not.                                                                    *)
Rules == [allow |-> <<>>, deny |-> <<>>]

Free == [conn |-> 0, closed |-> TRUE, closing |-> FALSE,
         shut |-> [s \in Sides |-> TRUE],
         buf |-> [s \in Sides |-> [data |-> <<>>, w |-> 0]]]

Wire == [st |-> "none", se |-> 0, reset |-> {},
         way |-> [s \in Sides |-> [sent |-> <<>>, queue |-> <<>>,
                                   fin |-> FALSE, got |-> <<>>, eof |-> FALSE]]]

RinetdInit == /\ rin = [run |-> "off", conf |-> [lines |-> <<>>, load |-> <<>>],
                        read |-> 0, global |-> Rules, se |-> <<>>, co |-> <<>>]
              /\ wire = [c \in Conns |-> Wire]

-----------------------------------------------------------------------------
(* Rules that come before the first forwarding rule that works are global; *)
(* the others belong to the last one that works.  patternBad looks at one  *)
(* character and never finds a pattern bad.                                *)
RuleLine(r, l) ==
  IF r.se = <<>> THEN [r EXCEPT !.global[l.kind] = Append(@, l.who)]
  ELSE [r EXCEPT !.se[Len(r.se)][l.kind] = Append(@, l.who)]

ServerLine(r, l) == IF l.ok THEN [r EXCEPT !.se = Append(@, Rules)] ELSE r

(* readConfiguration: one round of the loop of its second pass. *)
readConfiguration ==
  /\ rin.run = "conf" /\ rin.read < Len(rin.conf.lines)
  /\ LET l == rin.conf.lines[rin.read + 1]
         r == [rin EXCEPT !.read = @ + 1]
     IN rin' = IF l.kind = "server" THEN ServerLine(r, l) ELSE RuleLine(r, l)
  /\ UNCHANGED wire

(* "ok", "out" (refused and done with) or "kicked": refused by a deny rule, *)
(* after which handleAccept goes on.                                        *)
Verdict(global, own, client) ==
  LET hit(rules) == \E k \in DOMAIN rules : client \in rules[k]
      fails(r) == r.allow # <<>> /\ ~hit(r.allow)
  IN CASE fails(global) \/ fails(own) -> "out"
       [] ~(fails(global) \/ fails(own)) /\ (hit(global.deny) \/ hit(own.deny))
            -> "kicked"
       [] OTHER -> "ok"

(* initArrays, before the configuration is read. *)
RinetdStart ==
  /\ rin.run = "off"
  /\ \E conf \in RinetdConfs :
       rin' = [rin EXCEPT !.run = "conf", !.conf = conf, !.co = [k \in 1..coFirst |-> Free]]
  /\ UNCHANGED wire

(* RegisterPID: the process leaves when another one holds the lock on the   *)
(* pid file.  A start that fails for want of memory or of the file ends     *)
(* like that.                                                               *)
RegisterPID ==
  /\ rin.run = "conf" /\ rin.read = Len(rin.conf.lines)
  /\ \E locked \in BOOLEAN : rin' = [rin EXCEPT !.run = IF locked THEN "exit" ELSE "run"]
  /\ UNCHANGED wire
-----------------------------------------------------------------------------
(* Closing side s of a connection tells the peer on that side. *)
Hangup(c, s) == [wire EXCEPT ![c].way[Other(s)].eof = TRUE]

(* handleCloseFromRemote and handleCloseFromLocal. *)
CloseFrom(k, s) == [k EXCEPT !.closing = TRUE, !.shut[s] = TRUE]

(* The last lines of a slot's turn in selectPass. *)
EndTurn(k) == [k EXCEPT !.closed = @ \/ \A s \in Sides : k.shut[s]]

(* handleRemoteRead and handleLocalRead: recv returns bytes, the end of    *)
(* the stream, or an error.                                                *)
handleRead(i, s) ==
  LET k == rin.co[i]
      way == wire[k.conn].way[s]
      room == bufferSpace - Len(k.buf[s].data)
      n == IF room < Len(way.queue) THEN room ELSE Len(way.queue)
  IN /\ ~k.closed /\ ~k.shut[s] /\ room > 0
     /\ \/ /\ s \notin wire[k.conn].reset /\ n > 0
           /\ rin' = [rin EXCEPT !.co[i].buf[s].data =
                        @ \o SubSeq(way.queue, 1, n)]
           /\ wire' = [wire EXCEPT ![k.conn].way[s].queue =
                         SubSeq(@, n + 1, Len(@))]
        \/ /\ s \in wire[k.conn].reset \/ (way.queue = <<>> /\ way.fin)
           /\ rin' = [rin EXCEPT !.co[i] = EndTurn(CloseFrom(k, s))]
           /\ wire' = Hangup(k.conn, s)

FaultySent(b, n) == [data |-> <<>>, w |-> 0]

(* The buffer after n more bytes of it were sent. *)
Sent(b, n) == IF b.w + n = Len(b.data)
                THEN [data |-> <<>>, w |-> 0]
                ELSE [b EXCEPT !.w = @ + n]

(* handleRemoteWrite and handleLocalWrite: with nothing left to send and   *)
(* the other side gone, the connection is over; send takes some of the     *)
(* bytes, or fails.                                                        *)
handleWrite(i, s) ==
  LET k == rin.co[i]
      b == k.buf[Other(s)]
      left == Len(b.data) - b.w
  IN /\ ~k.closed /\ ~k.shut[s]
     /\ \/ /\ k.closing /\ left = 0
           /\ rin' = [rin EXCEPT !.co[i] =
                        [@ EXCEPT !.shut[s] = TRUE, !.closed = TRUE]]
           /\ wire' = Hangup(k.conn, s)
        \/ /\ left > 0 /\ s \in wire[k.conn].reset
           /\ rin' = [rin EXCEPT !.co[i] = EndTurn(CloseFrom(k, s))]
           /\ wire' = Hangup(k.conn, s)
        \/ /\ left > 0 /\ s \notin wire[k.conn].reset
           /\ \E n \in 1..left :
                /\ rin' = [rin EXCEPT !.co[i].buf[Other(s)] = Sent(b, n)]
                /\ wire' = [wire EXCEPT ![k.conn].way[Other(s)].got =
                              @ \o SubSeq(b.data, b.w + 1, b.w + n)]
-----------------------------------------------------------------------------
(* The first free slot; when there is none the table is doubled. *)
Slotted(co) == IF \E k \in DOMAIN co : co[k].closed
                 THEN co ELSE co \o [k \in 1..Len(co) |-> Free]

FirstFree(co) == CHOOSE k \in DOMAIN co : /\ co[k].closed
                                          /\ \A j \in DOMAIN co : co[j].closed => k <= j

Taken(c) == [Free EXCEPT !.conn = c, !.closed = FALSE,
                         !.shut = [s \in Sides |-> FALSE]]

(* openLocalFd: the local side is connected, or the client is told. *)
openLocalFd(c, co, i) ==
  \/ /\ rin' = [rin EXCEPT !.co = [co EXCEPT ![i] = Taken(c)]]
     /\ wire' = [wire EXCEPT ![c].st = "open"]
  \/ /\ rin' = [rin EXCEPT !.co = [co EXCEPT ![i] = Free]]
     /\ wire' = [Hangup(c, "re") EXCEPT ![c].st = "refused"]

(* refuse: the slot is free again, in some of the states named. *)
refuse(c, co, i, sts) ==
  /\ rin' = [rin EXCEPT !.co = [co EXCEPT ![i] = Free]]
  /\ \E st \in sts : wire' = [Hangup(c, "re") EXCEPT ![c].st = st]

(* handleAccept.  Out of memory the new socket is neither kept nor closed. *)
(* After a deny rule the slot is free again, yet the local side is opened: *)
(* that socket belongs to no slot any more.                                *)
handleAccept(c) ==
  LET w == wire[c]
      full == \A k \in DOMAIN rin.co : ~rin.co[k].closed
      co == Slotted(rin.co)
      i == FirstFree(co)
      v == Verdict(rin.global, rin.se[w.se], rin.conf.load[c].client)
  IN /\ rin.run = "run" /\ w.st = "pending"
     /\ \/ /\ full
           /\ wire' = [wire EXCEPT ![c].st = "stranded"]
           /\ UNCHANGED rin
        \/ v = "ok" /\ openLocalFd(c, co, i)
        \/ v = "out" /\ refuse(c, co, i, {"refused"})
        \/ v = "kicked" /\ refuse(c, co, i, {"refused", "leaked"})
-----------------------------------------------------------------------------
(* The peers.  Clients connect in order, each to some server; a peer       *)
(* sends, finishes, or resets the connection.                              *)
Connect(c) ==
  /\ rin.run = "run" /\ c \in DOMAIN rin.conf.load /\ wire[c].st = "none"
  /\ \A d \in Conns : d < c => wire[d].st # "none"
  /\ \E se \in DOMAIN rin.se :
       wire' = [wire EXCEPT ![c].st = "pending", ![c].se = se]
  /\ UNCHANGED rin

(* Peer s of c is connected and has not been told that it is over. *)
Talking(c, s) == /\ wire[c].st \in (IF s = "re" THEN {"pending", "open"} ELSE {"open"})
                 /\ ~wire[c].way[s].fin /\ ~wire[c].way[Other(s)].eof

More(way, b) == [way EXCEPT !.sent = Append(@, b), !.queue = Append(@, b)]

PeerSend(c, s) ==
  /\ Talking(c, s)
  /\ LET n == Len(wire[c].way[s].sent) IN
       /\ n < rin.conf.load[c][s]
       /\ wire' = [wire EXCEPT ![c].way[s] = More(@, n + 1)]
  /\ UNCHANGED rin

PeerFinish(c, s) == /\ Talking(c, s)
                    /\ wire' = [wire EXCEPT ![c].way[s].fin = TRUE]
                    /\ UNCHANGED rin

PeerReset(c, s) == /\ Talking(c, s) /\ wire[c].st = "open"
                   /\ wire' = [wire EXCEPT ![c].way[s] = [@ EXCEPT !.fin = TRUE, !.queue = <<>>],
                                           ![c].reset = @ \cup {s}]
                   /\ UNCHANGED rin

handleRemoteRead(i) == handleRead(i, "re")
handleRemoteWrite(i) == handleWrite(i, "re")
handleLocalRead(i) == handleRead(i, "lo")
handleLocalWrite(i) == handleWrite(i, "lo")

Handle == \E i \in DOMAIN rin.co : \/ handleRemoteRead(i) \/ handleRemoteWrite(i)
                                   \/ handleLocalRead(i) \/ handleLocalWrite(i)
Peers == \E c \in Conns, s \in Sides :
           PeerSend(c, s) \/ PeerFinish(c, s) \/ PeerReset(c, s)

RinetdNext == \/ RinetdStart \/ readConfiguration \/ RegisterPID
              \/ Handle
              \/ \E c \in Conns : handleAccept(c)
              \/ \E c \in Conns : Connect(c)
              \/ Peers

(* The loop serves every ready descriptor in every pass. *)
RinetdFair == \A i \in 1..(2 * coFirst), s \in Sides :
                /\ WF_rvars(i \in DOMAIN rin.co /\ handleRead(i, s))
                /\ WF_rvars(i \in DOMAIN rin.co /\ handleWrite(i, s))
-----------------------------------------------------------------------------
(* Who is admitted, read off the configuration file: a rule belongs to the *)
(* forwarding rule it follows, or to all of them when it precedes them.    *)
(* Of a file with a forwarding rule that failed nothing is said.           *)
Admitted(lines, se, client) ==
  LET servers == {j \in DOMAIN lines : lines[j].kind = "server"}
      owner(j) == Cardinality({k \in servers : k < j})
      rules(kind, o) == {lines[j].who : j \in {k \in DOMAIN lines :
                           lines[k].kind = kind /\ owner(k) = o}}
      passes(o) == /\ rules("allow", o) = {} \/ \E w \in rules("allow", o) : client \in w
                   /\ \A w \in rules("deny", o) : client \notin w
  IN (\A j \in servers : lines[j].ok) => passes(0) /\ passes(se)

(* What rinetd is for, as the abstract specification of two byte streams   *)
(* for each connection.                                                    *)
Streams == INSTANCE ByteStreams WITH
  Ends <- Sides,
  stream <- [c \in Conns |-> [s \in Sides |->
     [sent |-> wire[c].way[s].sent, got |-> wire[c].way[s].got,
      fin |-> wire[c].way[s].fin, eof |-> wire[c].way[s].eof]]],
  admitted <- [c \in Conns |-> wire[c].st # "none" /\
                Admitted(rin.conf.lines, wire[c].se, rin.conf.load[c].client)],
  served <- [c \in Conns |-> wire[c].st = "open"],
  cut <- [c \in Conns |-> wire[c].reset # {}]

(* rinetd implements the two streams of every connection it redirects, and *)
(* redirects only those its allow and deny rules admit (handleAccept):     *)
(* whatever the sizes of reads, writes and buffers, bytes arrive once and  *)
(* in order, "polite closing" (handleCloseFromRemote and                   *)
(* handleCloseFromLocal) tells a peer that the connection is over only     *)
(* after everything the other peer sent has been delivered, and every byte *)
(* and every end of stream does arrive.                                    *)
StreamsImplemented == Streams!StreamSpec
=============================================================================
