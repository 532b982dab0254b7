------------------------------- MODULE MasqLog -------------------------------
(***************************************************************************)
(* dnsmasq's logging (log.c): a bounded queue of lines in front of a       *)
(* syslog socket or a file that may be slow, full or gone.  my_syslog and  *)
(* log_write call each other (an overflow is reported from inside          *)
(* log_write), so a process has a stack of calls in progress; one step is  *)
(* one write() and what follows it up to the next.                         *)
(*                                                                         *)
(* Process 1 is the server, process 2 a child forked for a TCP connection: *)
(* it starts with a copy of the queue and shares the socket.  The delay    *)
(* that slows down a fast writer only shows as a second attempt to write.  *)
(***************************************************************************)
EXTENDS Naturals, Sequences, FiniteSets, SequencesExt

CONSTANT LogSetups   \* set of [dest, max, lines]: "file", "android" (lines
                     \*  go straight to the system), or the kind of socket
                     \*  syslogd has, "dgram" or "stream"; max_logs; and how
                     \*  many lines each process logs

VARIABLES lset,   \* the setup in use
          lproc,  \* lproc[p]: the variables of log.c in process p
          lsink   \* pieces of lines written, in order

logvars == <<lset, lproc, lsink>>
LogProcs == {1, 2}

NoProc == [alive |-> FALSE, ending |-> FALSE, said |-> 0, base |-> 0,
           entries |-> <<>>, free |-> 0, alloced |-> 0, lost |-> 0,
           good |-> TRUE, fd |-> FALSE, type |-> "dgram", frames |-> <<>>]
Gone == [NoProc EXCEPT !.ending = TRUE]

LogInit ==
  /\ lset = [dest |-> "none", max |-> 0, lines |-> <<0, 0>>]
  /\ lproc = [p \in LogProcs |-> NoProc]
  /\ lsink = <<>>

(* log_start: with a file queueing is off (max_logs 0), and then the one   *)
(* entry needed is allocated at once.  On Android log_fd stays -1.         *)
log_start ==
  /\ lset.dest = "none"
  /\ \E s \in LogSetups :
       LET max == IF s.dest = "file" THEN 0 ELSE s.max
           one == IF max = 0 THEN 1 ELSE 0
       IN /\ lset' = [s EXCEPT !.max = max]
          /\ lproc' = [lproc EXCEPT ![1] = [NoProc EXCEPT !.alive = TRUE,
               !.free = one, !.alloced = one, !.fd = s.dest # "android"]]
  /\ UNCHANGED lsink
-----------------------------------------------------------------------------
(* A line: who logged it, its number (0 for an overflow report), how many  *)
(* lines it reports lost, and how much of it is still to be written.       *)
Line(p, n, e) == [pid |-> p, n |-> n, lost |-> e, part |-> "all"]

(* my_syslog up to its call of log_write, log_fd # -1. *)
Enqueue(l, e) ==
  IF l.free > 0 THEN [l EXCEPT !.free = @ - 1, !.entries = Append(@, e)]
  ELSE IF l.alloced < lset.max
    THEN [l EXCEPT !.alloced = @ + 1, !.entries = Append(@, e)]
  ELSE [l EXCEPT !.lost = @ + 1]

(* free_entry. *)
free_entry(l) == [l EXCEPT !.entries = Tail(@), !.free = @ + 1]

FaultyLoop(p, l) == IF l.entries = <<>> THEN [l EXCEPT !.frames = <<>>] ELSE l

(* The top of log_write's loop: entries queued by another process (before  *)
(* the fork) are dropped; when none is left every call in progress ends.   *)
Loop(p, l) ==
  LET mine == SelectSeq(l.entries, LAMBDA e : e.pid = p)
      k == [l EXCEPT !.entries = mine, !.free = @ + Len(l.entries) - Len(mine)]
  IN IF mine = <<>> THEN [k EXCEPT !.frames = <<>>] ELSE k

(* my_syslog calls log_write a second time after a delay, unless the queue *)
(* is empty or full (or, with more than 8 entries, far from full).         *)
Delays(n) ==
  /\ lset.max # 0 /\ n # lset.max
  /\ IF lset.max > 8 THEN n > lset.max - 8 ELSE n > 0

(* log_write returns: to my_syslog, and from there to the log_write that   *)
(* called it, whose loop goes on, or to the main loop.                     *)
Return(p, l) ==
  IF Last(l.frames) = "first" /\ Delays(Len(l.entries))
    THEN Loop(p, [l EXCEPT !.frames = Append(Front(@), "second")])
  ELSE [l EXCEPT !.frames = Front(@)]

Call(p, l, f) == Loop(p, [l EXCEPT !.frames = Append(@, f)])

(* my_syslog: straight to the system when there is no log_fd. *)
my_syslog(p) ==
  /\ lproc[p].alive /\ ~lproc[p].ending /\ lproc[p].frames = <<>>
  /\ lproc[p].said < lset.lines[p]
  /\ \E l \in {[lproc[p] EXCEPT !.said = @ + 1]} :
     IF l.fd
     THEN /\ lproc' = [lproc EXCEPT ![p] = Call(p, Enqueue(l, Line(p, l.said, 0)), "first")]
          /\ UNCHANGED lsink
     ELSE /\ lproc' = [lproc EXCEPT ![p] = l]
          /\ lsink' = Append(lsink, [Line(p, l.said, 0) EXCEPT !.part = "direct"])
  /\ UNCHANGED lset
-----------------------------------------------------------------------------
Writing(p) == lproc[p].frames # <<>>
Syslog == lset.dest \in {"dgram", "stream"}

(* write() takes the line: it is freed, and lines lost in between are      *)
(* reported; entries_lost is reset first "to avoid wild recursion".        *)
WriteAll(p) ==
  /\ Writing(p) /\ lproc[p].fd
  /\ Syslog => lproc[p].type = lset.dest
  /\ lsink' = Append(lsink, Head(lproc[p].entries))
  /\ LET l == free_entry([lproc[p] EXCEPT !.good = TRUE])
     IN lproc' = [lproc EXCEPT ![p] =
          IF l.lost = 0 THEN Loop(p, l)
          ELSE Call(p, Enqueue([l EXCEPT !.lost = 0], Line(p, 0, l.lost)), "first")]
  /\ UNCHANGED lset

(* A stream socket takes the beginning of the line. *)
WritePart(p) ==
  /\ Writing(p) /\ lproc[p].fd /\ lset.dest = "stream"
  /\ lproc[p].type = "stream" /\ Head(lproc[p].entries).part = "all"
  /\ lsink' = Append(lsink, [Head(lproc[p].entries) EXCEPT !.part = "head"])
  /\ lproc' = [lproc EXCEPT ![p].good = TRUE, ![p].entries[1].part = "tail"]
  /\ UNCHANGED lset

(* EAGAIN, on a socket that does not block: try when select says so.       *)
(* ENOBUFS, or a lost connection that connect() cannot restore for now:    *)
(* wait for the next my_syslog.                                            *)
WriteLater(p) ==
  /\ Writing(p) /\ lproc[p].fd /\ Syslog
  /\ \E good \in IF lset.max = 0 THEN {FALSE} ELSE BOOLEAN :
       lproc' = [lproc EXCEPT ![p] = Return(p, [@ EXCEPT !.good = good])]
  /\ UNCHANGED <<lset, lsink>>

(* EPIPE on a stream, or EPROTOTYPE from connect() when syslogd has the    *)
(* other kind of socket: a new one, and on with the loop.                  *)
Reopen(p) ==
  /\ Writing(p) /\ lproc[p].fd /\ Syslog
  /\ lproc[p].type = "stream" \/ lset.dest = "stream"
  /\ lproc' = [lproc EXCEPT ![p].good = TRUE, ![p].type = "stream"]
  /\ UNCHANGED <<lset, lsink>>

(* Any other failure: log_fd is given up, "log failed" goes straight to    *)
(* the system (left out of lsink) and the queue stays as it is.            *)
GiveUp(p) ==
  /\ Writing(p)
  /\ lproc' = [lproc EXCEPT ![p] = Return(p, [@ EXCEPT !.fd = FALSE, !.good = TRUE])]
  /\ UNCHANGED <<lset, lsink>>

log_write(p) == WriteAll(p) \/ WritePart(p) \/ WriteLater(p) \/ Reopen(p) \/ GiveUp(p)
-----------------------------------------------------------------------------
(* check_log_writer: when the socket is writable, if set_log_writer asked  *)
(* for it; a child calls it without select.                                *)
check_log_writer(p) ==
  /\ lproc[p].alive /\ ~lproc[p].ending /\ ~Writing(p)
  /\ lproc[p].fd /\ lproc[p].entries # <<>>
  /\ p = 1 => lproc[p].good
  /\ lproc' = [lproc EXCEPT ![p] = Call(p, @, "second")]
  /\ UNCHANGED <<lset, lsink>>

(* log_reopen on SIGUSR2, log file only: it may fail. *)
log_reopen ==
  /\ lproc[1].alive /\ ~lproc[1].ending /\ ~Writing(1) /\ lset.dest = "file"
  /\ \E ok \in BOOLEAN : lproc' = [lproc EXCEPT ![1].fd = ok]
  /\ UNCHANGED <<lset, lsink>>

(* The fork of check_dns_listeners: the child has all of log.c's state. *)
LogFork ==
  /\ lproc[1].alive /\ ~lproc[1].ending /\ ~Writing(1)
  /\ lproc[2] = NoProc
  /\ lproc' = [lproc EXCEPT ![2] = [lproc[1] EXCEPT !.said = 0, !.base = lproc[1].lost]]
  /\ UNCHANGED <<lset, lsink>>

(* flush_log at the end of a process: write until the queue is empty or    *)
(* nobody listens.                                                         *)
LogExit(p) ==
  /\ lproc[p].alive /\ ~lproc[p].ending /\ ~Writing(p)
  /\ lproc' = [lproc EXCEPT ![p] =
       IF @.fd THEN Call(p, [@ EXCEPT !.ending = TRUE], "second")
       ELSE Gone]
  /\ UNCHANGED <<lset, lsink>>

flush_log(p) ==
  /\ lproc[p].alive /\ lproc[p].ending /\ ~Writing(p)
  /\ lproc' = [lproc EXCEPT ![p] =
       IF ~@.fd \/ @.entries = <<>> \/ ~@.good THEN Gone
       ELSE Call(p, @, "second")]
  /\ UNCHANGED <<lset, lsink>>

LogNext ==
  \/ log_start \/ log_reopen \/ LogFork
  \/ \E p \in LogProcs :
       \/ my_syslog(p) \/ log_write(p) \/ check_log_writer(p) \/ LogExit(p) \/ flush_log(p)
-----------------------------------------------------------------------------
Lost(s) == FoldLeft(LAMBDA n, e : n + (IF e.part = "head" THEN 0 ELSE e.lost), 0, s)
Mine(s, p) == SelectSeq(s, LAMBDA e : e.pid = p /\ e.part # "head")
Lines(s, direct) == SelectSeq(s, LAMBDA e : e.n # 0 /\ (e.part = "direct") = direct)
Rising(s) == \A i, j \in DOMAIN s : i < j => s[i].n < s[j].n

(* However writes fail, calls nest and a fork copies the queue: the lines  *)
(* of a process reach the log, and the system when the log is given up, in *)
(* the order they were logged and at most once; every line it logged has   *)
(* been written, is queued, or is counted once, in entries_lost or in an   *)
(* overflow report.  (A child starts with its parent's entries_lost: what  *)
(* was lost before a fork is reported by both.)  The entries allocated     *)
(* stay within the limit.                                                  *)
LinesAccounted ==
  \A p \in LogProcs :
    LET l == lproc[p] out == Mine(lsink, p) wait == Mine(l.entries, p)
        all == out \o wait
    IN /\ Rising(Lines(all, FALSE)) /\ Rising(Lines(all, TRUE))
       /\ l.alive => l.said + l.base =
            l.lost + Lost(all) + Len(Lines(all, FALSE)) + Len(Lines(all, TRUE))
       /\ Len(l.entries) + l.free = l.alloced
       /\ l.alloced <= IF lset.max = 0 THEN 1 ELSE lset.max
=============================================================================
