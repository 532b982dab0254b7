------------------------------ MODULE MasqTftp -------------------------------
(***************************************************************************)
(* dnsmasq's TFTP server (tftp.c): a list of transfers, each with a socket *)
(* of its own, fed by requests, acknowledgements and timeouts from the     *)
(* main loop.  Each file is opened once however many transfers read it.    *)
(* Time is abstract: the timer of a transfer may run out at any moment, so *)
(* the intervals (1 + 2^backoff seconds, added to the last one) are left   *)
(* out and only the count of attempts is kept.                             *)
(*                                                                         *)
(* The network loses and repeats datagrams and delivers those of one       *)
(* direction in order.  Clients follow RFC 1350 and 2347 (external).       *)
(***************************************************************************)
EXTENDS Naturals, Sequences, FiniteSets, SequencesExt

CONSTANTS TftpClients,    \* clients, small numbers
          TftpLoads,      \* the loads to run: what each client asks for, as
                          \*  [op, file, mode, blk, tsize, at, leaves], blk = 0
                          \*  for no blksize option, at a listener, leaves if
                          \*  the client is gone once it has asked; or NoAsk
          DiskFile(_),    \* contents of a file, a sequence of characters
          DefaultBlock,   \* 512
          MaxBlock,       \* what fits the packet buffer and the MTU
          BlockMod,       \* 2^16: block numbers are sent in 16 bits
          tftp_max,       \* --tftp-max
          TftpListeners,  \* the listeners with a tftpfd, numbered in their order
          PathMax         \* datagrams under way in one direction

LF == "n"
CR == "r"

VARIABLES tftp,   \* the server: transfers, newest first, those waiting for
                  \* the script, the open files with their users, and the
                  \* listeners this round of the main loop has yet to serve
          tpeer   \* tpeer[c]: a client, and the datagrams to and from it

tftpvars == <<tftp, tpeer>>

NoFile == 0
NoAsk == [op |-> "RRQ", file |-> NoFile, mode |-> "octet", blk |-> 0, tsize |-> FALSE,
          at |-> 1, leaves |-> FALSE]
Error == [op |-> "error", blk |-> 0, data |-> <<>>]
MaxBackoff == 5

TftpInit ==
  /\ tftp = [trans |-> <<>>, done |-> <<>>, opens |-> <<>>, ready |-> {}]
  /\ tpeer = [c \in TftpClients |->
       [st |-> "absent", ask |-> NoAsk, got |-> <<>>, blk |-> 0,
        size |-> DefaultBlock, again |-> FALSE, down |-> <<>>, up |-> <<>>]]

Least(a, b) == IF a < b THEN a ELSE b
Size(f) == Len(DiskFile(f))

(* A datagram is dropped when the path is full, or by the network, or when *)
(* the client is gone.                                                     *)
Queue(q, m, kept) == IF kept /\ Len(q) < PathMax THEN Append(q, m) ELSE q
Delivered(c) == {kept \in BOOLEAN : kept => ~tpeer[c].ask.leaves}
-----------------------------------------------------------------------------
(* get_block: an option acknowledgement for block 0, nothing when all has  *)
(* been acknowledged, else the block at offset.  In netascii mode LF is    *)
(* expanded to CR LF in place; what is pushed out of the block comes again *)
(* in the next one, and carrylf says that the CR of its first LF has been  *)
(* sent.  The result is the transfer and the datagram, NoBlock at the end. *)
NoBlock == [op |-> "none", blk |-> 0, data |-> <<>>]

Expand(raw, blocksize, carrylf) ==
  FoldLeft(LAMBDA x, k :
             IF x.i >= x.size THEN x
             ELSE IF x.d[x.i + 1] # LF \/ (x.i = 0 /\ carrylf)
               THEN [x EXCEPT !.i = @ + 1]
             ELSE LET grows == x.size # blocksize
                      size == IF grows THEN x.size + 1 ELSE x.size
                  IN [d |-> SubSeq(x.d, 1, x.i) \o <<CR>>
                              \o SubSeq(x.d, x.i + 1, size - 1),
                      i |-> x.i + 2, size |-> size, exp |-> x.exp + 1,
                      carry |-> x.carry \/ (~grows /\ x.i = x.size - 1)],
           [d |-> raw, i |-> 0, size |-> Len(raw), exp |-> 0, carry |-> FALSE],
           [k \in 1..(blocksize + 1) |-> k])

get_block(opens, t) ==
  LET f == opens[t.open].file IN
  IF t.block = 0
    THEN [t |-> t, m |-> [op |-> "oack", blk |-> t.blocksize, data |-> <<>>]]
  ELSE IF t.offset > Size(f) THEN [t |-> t, m |-> NoBlock]
  ELSE LET raw == SubSeq(DiskFile(f), t.offset + 1,
                         t.offset + Least(Size(f) - t.offset, t.blocksize))
           x == IF t.netascii THEN Expand(raw, t.blocksize, t.carrylf)
                ELSE [d |-> raw, exp |-> 0, carry |-> t.carrylf]
       IN [t |-> [t EXCEPT !.expansion = x.exp, !.carrylf = x.carry],
           m |-> [op |-> "data", blk |-> t.block % BlockMod, data |-> x.d]]
-----------------------------------------------------------------------------
(* check_tftp_fileperm: a file that a transfer of the list reads is shared *)
(* (the transfers waiting for the script are not looked at), else it is    *)
(* opened anew.  The result is the open files and the one to read; 0 when  *)
(* it cannot be opened or may not be read.                                 *)
check_tftp_fileperm(f) ==
  LET shared == {t.open : t \in {u \in ToSet(tftp.trans) : tftp.opens[u.open].file = f}}
      free == {k \in DOMAIN tftp.opens : tftp.opens[k].refs = 0}
  IN IF f = NoFile THEN [opens |-> tftp.opens, open |-> 0]
     ELSE IF shared # {}
       THEN LET k == CHOOSE k \in shared : TRUE
            IN [opens |-> [tftp.opens EXCEPT ![k].refs = @ + 1], open |-> k]
     ELSE IF free # {}
       THEN LET k == CHOOSE k \in free : \A l \in free : k <= l
            IN [opens |-> [tftp.opens EXCEPT ![k] = [file |-> f, refs |-> 1]], open |-> k]
     ELSE [opens |-> Append(tftp.opens, [file |-> f, refs |-> 1]),
           open |-> Len(tftp.opens) + 1]

(* free_transfer: the last user of a file closes it. *)
free_transfer(opens, t) == [opens EXCEPT ![t.open].refs = @ - 1]

(* The transfer a request sets up: options are acknowledged as block 0. *)
NewTransfer(c, ask, k) ==
  LET blksize == ask.blk # 0
      transize == ask.tsize /\ ask.mode # "netascii"
  IN [peer |-> c, open |-> k, backoff |-> 1, offset |-> 0,
      block |-> IF blksize \/ transize THEN 0 ELSE 1,
      blocksize |-> IF blksize THEN Least(ask.blk, MaxBlock) ELSE DefaultBlock,
      netascii |-> ask.mode = "netascii", carrylf |-> FALSE, expansion |-> 0]

(* The returns of tftp_request before it looks at the request (an          *)
(* interface not served, no memory, no socket, no free port): the request  *)
(* is gone and the client hears nothing.                                   *)
RequestDropped(l, c) ==
  /\ tpeer' = [tpeer EXCEPT ![c].st = "asked"]
  /\ tftp' = [tftp EXCEPT !.ready = @ \ {l}]

(* A round of the main loop.  set_dns_listeners counts the transfers once  *)
(* and has select look at all listeners or at none; check_dns_listeners    *)
(* then serves each one that was ready, in their order, before             *)
(* check_tftp_listeners turns to the transfers.                            *)
Waiting(l) == {c \in TftpClients : tpeer[c].st = "asking" /\ tpeer[c].ask.at = l}

set_tftp_listeners ==
  /\ tftp.ready = {}
  /\ Len(tftp.trans) <= tftp_max
  /\ \E ready \in {{l \in TftpListeners : Waiting(l) # {}}} :
       ready # {} /\ tftp' = [tftp EXCEPT !.ready = ready]
  /\ UNCHANGED tpeer

(* tftp_request: one datagram of listener l, which is not tested against   *)
(* tftp_max again.  What cannot be served, an unreadable file included     *)
(* (bad), is answered with an error and leaves nothing.                    *)
tftp_request(l, c) ==
  /\ l \in tftp.ready /\ \A k \in tftp.ready : l <= k
  /\ c \in Waiting(l)
  /\ \/ RequestDropped(l, c)
     \/ \E kept \in Delivered(c), bad \in BOOLEAN :
        LET ask == tpeer[c].ask
            served == ask.op = "RRQ" /\ ask.mode \in {"octet", "netascii"}
            found == check_tftp_fileperm(IF served THEN ask.file ELSE NoFile)
            new == NewTransfer(c, ask, found.open)
            fails == bad /\ new.block # 0
        IN IF found.open = 0 \/ fails
           THEN /\ tftp' = [tftp EXCEPT !.ready = @ \ {l},
                              !.opens = IF found.open = 0 THEN @ ELSE free_transfer(found.opens, new)]
                /\ tpeer' = [tpeer EXCEPT ![c].st = "asked",
                                          ![c].down = Queue(@, Error, kept)]
           ELSE \E b \in {get_block(found.opens, new)} :
                /\ tftp' = [tftp EXCEPT !.ready = @ \ {l}, !.opens = found.opens, !.trans = <<b.t>> \o @]
                /\ tpeer' = [tpeer EXCEPT ![c].st = "asked",
                                          ![c].down = Queue(@, b.m, kept)]
-----------------------------------------------------------------------------
(* The end of check_tftp_listeners' turn for a transfer that timed out or  *)
(* was answered: send the next block or the last one again, give up after  *)
(* five attempts or when the file cannot be read, and when everything has  *)
(* been acknowledged queue the transfer for the script.                    *)
Transmit(i, t, up) ==
  \E kept \in Delivered(t.peer), bad \in BOOLEAN : \E b \in {get_block(tftp.opens, t)} :
    LET fails == bad /\ b.m.op = "data"
        done == ~fails /\ b.m = NoBlock
        tired == ~fails /\ ~done /\ t.backoff + 1 > MaxBackoff
        sent == IF fails THEN <<Error>> ELSE IF done \/ tired THEN <<>> ELSE <<b.m>>
        again == t.block = tftp.trans[i].block
    IN /\ tftp' =
            IF done THEN [tftp EXCEPT !.trans = RemoveAt(@, i), !.done = <<b.t>> \o @]
            ELSE IF fails \/ tired
              THEN [tftp EXCEPT !.trans = RemoveAt(@, i), !.opens = free_transfer(@, t)]
            ELSE [tftp EXCEPT !.trans[i] = [b.t EXCEPT !.backoff = @ + 1]]
       /\ tpeer' = [tpeer EXCEPT ![t.peer].up = up,
                                 ![t.peer].again = @ \/ again,
                                 ![t.peer].down = IF sent = <<>> THEN @
                                                  ELSE Queue(@, sent[1], kept)]

FaultyAdvance(t) ==
  [t EXCEPT !.backoff = 0, !.block = @ + 1, !.offset = @ + t.blocksize - t.expansion]

(* What the acknowledgement of the block under way does to a transfer. *)
Advance(t) ==
  [t EXCEPT !.backoff = 0, !.block = @ + 1,
            !.offset = IF t.block = 0 THEN @ ELSE @ + t.blocksize - t.expansion]

(* check_tftp_listeners, a datagram on the socket of transfer i: the       *)
(* acknowledgement awaited moves the transfer on, an error ends it, the    *)
(* rest is ignored.                                                        *)
TftpReceive(i) ==
  /\ tftp.ready = {}
  /\ \E t \in {tftp.trans[i]} :
     /\ tpeer[t.peer].up # <<>>
     /\ \E m \in {Head(tpeer[t.peer].up)}, up \in {Tail(tpeer[t.peer].up)} :
        IF m.op = "ack" /\ m.blk = t.block % BlockMod
        THEN Transmit(i, Advance(t), up)
        ELSE IF m.op = "error"
        THEN Transmit(i, [t EXCEPT !.backoff = 100], up)
        ELSE /\ tpeer' = [tpeer EXCEPT ![t.peer].up = up]
             /\ UNCHANGED tftp

(* check_tftp_listeners, the timer of transfer i. *)
TftpTimeout(i) ==
  /\ tftp.ready = {}
  /\ Transmit(i, tftp.trans[i], tpeer[tftp.trans[i].peer].up)

(* do_tftp_script_run, before the select of a round: the newest finished   *)
(* transfer is reported and freed.                                         *)
do_tftp_script_run ==
  /\ tftp.ready = {} /\ tftp.done # <<>>
  /\ tftp' = [tftp EXCEPT !.done = Tail(@), !.opens = free_transfer(@, Head(tftp.done))]
  /\ UNCHANGED tpeer
-----------------------------------------------------------------------------
(* Clients.  A client asks once, acknowledges the block it expects and the *)
(* last one when it comes again, and stops at a short block.               *)
TftpStart ==
  /\ \A c \in TftpClients : tpeer[c].st = "absent"
  /\ \E load \in TftpLoads : tpeer' = [c \in TftpClients |->
       IF load[c] = NoAsk THEN tpeer[c] ELSE [tpeer[c] EXCEPT !.st = "idle", !.ask = load[c]]]
  /\ UNCHANGED tftp

ClientAsk(c) ==
  /\ tpeer[c].st = "idle"
  /\ tpeer' = [tpeer EXCEPT ![c].st = "asking"]
  /\ UNCHANGED tftp

ClientReceive(c) ==
  /\ tpeer[c].down # <<>>
  /\ \E kept \in BOOLEAN, p \in {tpeer[c]}, m \in {Head(tpeer[c].down)} :
     LET next == (p.blk + 1) % BlockMod
         waits == p.st \in {"asked", "reading"}
         Reply(q, k) == [q EXCEPT !.up = Queue(@, [op |-> "ack", blk |-> k], kept)]
         q == [p EXCEPT !.down = Tail(@)]
     IN tpeer' = [tpeer EXCEPT ![c] =
          IF m.op = "error" /\ waits THEN [q EXCEPT !.st = "failed"]
          ELSE IF m.op = "oack" /\ p.st = "asked"
            THEN Reply([q EXCEPT !.st = "reading", !.size = m.blk], 0)
          ELSE IF m.op = "oack" /\ p.st = "reading" /\ p.blk = 0 THEN Reply(q, 0)
          ELSE IF m.op = "data" /\ waits /\ m.blk = next
            THEN Reply([q EXCEPT !.got = @ \o m.data, !.blk = next,
                          !.st = IF Len(m.data) < p.size THEN "finished" ELSE "reading"], next)
          ELSE IF m.op = "data" /\ p.st \in {"reading", "finished"} /\ m.blk = p.blk
            THEN Reply(q, p.blk)
          ELSE q]
  /\ UNCHANGED tftp

(* A client gives up with an error datagram. *)
ClientAbort(c) ==
  /\ tpeer[c].st = "reading"
  /\ \E kept \in BOOLEAN : tpeer' = [tpeer EXCEPT ![c].st = "failed",
       ![c].up = Queue(@, [op |-> "error", blk |-> 0], kept)]
  /\ UNCHANGED tftp

(* The network delivers a datagram of either direction twice. *)
Repeat(c) ==
  /\ \/ /\ tpeer[c].up # <<>> /\ Len(tpeer[c].up) < PathMax
        /\ tpeer' = [tpeer EXCEPT ![c].up = <<Head(@)>> \o @]
     \/ /\ tpeer[c].down # <<>> /\ Len(tpeer[c].down) < PathMax
        /\ tpeer' = [tpeer EXCEPT ![c].down = <<Head(@)>> \o @]
  /\ UNCHANGED tftp

TftpServer == \/ set_tftp_listeners
              \/ \E l \in TftpListeners, c \in TftpClients : tftp_request(l, c)
              \/ \E i \in DOMAIN tftp.trans : TftpReceive(i) \/ TftpTimeout(i)
              \/ do_tftp_script_run
TftpWorld == \E c \in TftpClients :
               ClientAsk(c) \/ ClientReceive(c) \/ ClientAbort(c) \/ Repeat(c)
-----------------------------------------------------------------------------
(* What the client should end up with: the file, every LF as CR LF in      *)
(* netascii mode.                                                          *)
Encoded(f, mode) ==
  IF mode = "octet" THEN DiskFile(f)
  ELSE FlattenSeq([k \in DOMAIN DiskFile(f) |->
         IF DiskFile(f)[k] = LF THEN <<CR, LF>> ELSE <<DiskFile(f)[k]>>])

(* Loss, repetition and the wrap of block numbers never corrupt a file: a  *)
(* client holds a prefix of it, all of it once it has seen a short block   *)
(* or the server has reported the transfer as sent; a file stays open      *)
(* exactly as long as a transfer reads it.  No more transfers run at once  *)
(* than tftp_max and one for each listener: set_dns_listeners counts once  *)
(* for all listeners, and listens with tftp_max transfers already running. *)
(* (The manual has tftp_max itself as "the maximum number of concurrent    *)
(* TFTP connections allowed", dnsmasq.8:1422.)  A netascii transfer in     *)
(* which a block was sent again is left out: get_block takes carrylf from  *)
(* the sending before, and a block that begins with the LF of a split pair *)
(* then differs.                                                           *)
TransfersSound ==
  /\ Len(tftp.trans) <= tftp_max + Cardinality(TftpListeners)
  /\ \A k \in DOMAIN tftp.opens :
       tftp.opens[k].refs =
         Cardinality({i \in DOMAIN tftp.trans : tftp.trans[i].open = k})
         + Cardinality({i \in DOMAIN tftp.done : tftp.done[i].open = k})
  /\ \A c \in TftpClients :
       LET p == tpeer[c] whole == Encoded(p.ask.file, p.ask.mode)
       IN p.ask.mode = "octet" \/ ~p.again =>
            /\ IsPrefix(p.got, whole)
            /\ p.st = "finished" \/ (\E i \in DOMAIN tftp.done : tftp.done[i].peer = c)
                 => p.got = whole
=============================================================================
