------------------------------ MODULE Watchdogs ------------------------------
(***************************************************************************)
(* The watchdog programs that start and check the daemons: CB_WakeWait and *)
(* CB_Check_Net_DNS (the one-shot program of lock/ and the signal-driven   *)
(* one of popen_noshell/), CB_RunHaveged, CB_RunDNSMasq, and popen_noshell *)
(* that the last three use.  They share nothing but lock files and signals:*)
(* CB_RunHaveged sends SIGUSR1 and dnsmasq, when the network changes,      *)
(* SIGUSR2 to every process called CB_Check_Net_DNS.                       *)
(***************************************************************************)
EXTENDS Naturals, Sequences, FiniteSets, SequencesExt

CONSTANTS Watchers,     \* places for processes
          WatchLoads,   \* which program each place runs: a set of functions
          Commands,     \* command lines given to popen_noshell_compat
          MaxTries,     \* 16, the starts CB_RunDNSMasq makes
          MaxStarts,    \* bound on the starts of each program
          MaxSignals    \* bound on the signals dnsmasq sends

VARIABLES wload,   \* the program at each place
          wproc,   \* the process there
          orphans  \* checks whose parent is gone

watchvars == <<wload, wproc, orphans>>

Signals == {"USR1", "USR2"}

(* A process: where it is, whether it holds its lock file, how often it was *)
(* started, its counters, pending signals, the handlers it is in, innermost *)
(* last (each with the child it started), and whether a child of the main   *)
(* program runs.  owed is set by a signal and cleared by the check after it.*)
NotRunning == [st |-> "off", lock |-> FALSE, starts |-> 0, n |-> 0, startup |-> 0, pend |-> {},
               frames |-> <<>>, child |-> FALSE, owed |-> FALSE]

WatchInit == /\ wload = [i \in Watchers |-> "none"]
             /\ wproc = [i \in Watchers |-> NotRunning]
             /\ orphans = 0

WatchStart == /\ \A i \in Watchers : wload[i] = "none"
              /\ \E l \in WatchLoads : wload' = l
              /\ UNCHANGED <<wproc, orphans>>

LockFile(prog) == IF prog \in {"check", "wake", "once"} THEN "CHECK_NET_DNS" ELSE prog
Locked(i) == \E j \in Watchers \ {i} : wproc[j].lock /\ LockFile(wload[j]) = LockFile(wload[i])

Set(i, p) == wproc' = [wproc EXCEPT ![i] = p]
Only(i, p) == Set(i, p) /\ UNCHANGED <<wload, orphans>>

Running(p) == Cardinality({k \in DOMAIN p.frames : p.frames[k].child = "run"})
                + (IF p.child THEN 1 ELSE 0)
IsCheck(i) == wload[i] \in {"check", "wake", "once"}

(* The process ends, by itself or killed; what it started runs on. *)
Exit(i) ==
  /\ Set(i, [NotRunning EXCEPT !.starts = wproc[i].starts])
  /\ orphans' = orphans + (IF IsCheck(i) THEN Running(wproc[i]) ELSE 0)
  /\ UNCHANGED wload

WatchExec(i) ==
  /\ wload[i] \notin {"none", "netlink"} /\ wproc[i].st = "off" /\ wproc[i].starts < MaxStarts
  /\ Only(i, [wproc[i] EXCEPT !.st = IF wload[i] = "check" THEN "new" ELSE "ready", !.starts = @ + 1])

WatchKill(i) == wproc[i].st # "off" /\ Exit(i)

(* sigaction: from here on CB_Check_Net_DNS runs a check for each signal,  *)
(* also before it has its lock.                                            *)
InstallHandlers(i) == wproc[i].st = "new" /\ Only(i, [wproc[i] EXCEPT !.st = "ready"])

(* fcntl F_SETLK on the lock file, which ends the program if another       *)
(* process has it.                                                         *)
SetLock(i) ==
  /\ wproc[i].st = "ready" /\ wproc[i].frames = <<>>
  /\ IF Locked(i) THEN Exit(i) ELSE Only(i, [wproc[i] EXCEPT !.st = "loop", !.lock = TRUE])
-----------------------------------------------------------------------------
(* killall: a signal to every CB_Check_Net_DNS.  The one-shot program, and *)
(* one that has not come to install its handlers, are ended by it; the     *)
(* others have it pending.                                                 *)
Blocked(p) == {p.frames[k].sig : k \in DOMAIN p.frames}

FaultyPending(p, sig) == IF sig \in Blocked(p) THEN p.pend ELSE p.pend \cup {sig}

Pending(p, sig) == p.pend \cup {sig}

Ended(i) == wproc[i].st = "new" \/ (wload[i] = "once" /\ wproc[i].st # "off")

Signalled(j, sig) ==
  CASE wload[j] \in {"check", "once"} /\ Ended(j) -> [NotRunning EXCEPT !.starts = wproc[j].starts]
    [] wload[j] = "check" /\ wproc[j].st \in {"ready", "loop"} ->
         [wproc[j] EXCEPT !.pend = Pending(wproc[j], sig), !.owed = TRUE]
    [] OTHER -> wproc[j]

killall(i, p, sig) ==
  /\ wproc' = [j \in Watchers |-> IF j = i THEN p ELSE Signalled(j, sig)]
  /\ orphans' = orphans + Cardinality({j \in Watchers : Ended(j) /\ wproc[j].child})
  /\ UNCHANGED wload

(* nl_async of dnsmasq. *)
nl_async(i) ==
  /\ wload[i] = "netlink" /\ wproc[i].n < MaxSignals
  /\ killall(i, [wproc[i] EXCEPT !.n = @ + 1], "USR2")

(* The kernel runs the handler of a pending signal unless it is running    *)
(* already.  A read or waitpid of the interrupted handler, if its child    *)
(* still runs, will fail with EINTR (sa_flags is 0).                       *)
Top(p) == Last(p.frames)
WithTop(p, f) == [p EXCEPT !.frames = Append(Front(@), f)]
Interrupt(p) ==
  IF p.frames = <<>> \/ Top(p).st = "fork" \/ Top(p).child = "done" THEN p
  ELSE WithTop(p, [Top(p) EXCEPT !.intr = TRUE])

sig_handler(i) ==
  \E sig \in wproc[i].pend \ Blocked(wproc[i]) :
    Only(i, [Interrupt(wproc[i]) EXCEPT
               !.pend = @ \ {sig},
               !.frames = Append(@, [sig |-> sig, st |-> "fork", child |-> "none", intr |-> FALSE])])

InHandler(i, st) == wproc[i].frames # <<>> /\ Top(wproc[i]).st = st /\ ~Top(wproc[i]).intr

(* popen_noshell: a child that runs, or none when the pipe, the memory or  *)
(* the clone fails.                                                        *)
popen_noshell == {"none", "run"}

(* example_reading: popen_noshell starts the check, or fails and ends the  *)
(* program.                                                                *)
PopenCheck(i) ==
  /\ InHandler(i, "fork")
  /\ \E child \in popen_noshell :
       IF child = "none" THEN Exit(i)
       ELSE Only(i, [WithTop(wproc[i], [Top(wproc[i]) EXCEPT !.st = "read", !.child = child])
                       EXCEPT !.owed = FALSE])

(* fgets: until the check has ended, or the read is interrupted. *)
ReadCheck(i) ==
  /\ wproc[i].frames # <<>> /\ Top(wproc[i]).st = "read"
  /\ Top(wproc[i]).intr \/ Top(wproc[i]).child = "done"
  /\ Only(i, WithTop(wproc[i], [Top(wproc[i]) EXCEPT !.st = "wait", !.intr = FALSE]))

(* pclose_noshell: an interrupted waitpid ends the program through err. *)
pclose_noshell(i) ==
  /\ wproc[i].frames # <<>> /\ Top(wproc[i]).st = "wait"
  /\ IF Top(wproc[i]).intr THEN Exit(i)
     ELSE /\ Top(wproc[i]).child = "done"
          /\ Only(i, [wproc[i] EXCEPT !.frames = Front(@)])

(* The child becomes the check, or fails to; either way it ends, at the    *)
(* latest when it is killed by the timeout it runs under.                  *)
CheckEnds(i) ==
  \/ \E k \in DOMAIN wproc[i].frames :
       /\ wproc[i].frames[k].child = "run"
       /\ Only(i, [wproc[i] EXCEPT !.frames[k].child = "done"])
  \/ /\ IsCheck(i) /\ wproc[i].child
     /\ Only(i, [wproc[i] EXCEPT !.child = FALSE])

OrphanEnds == orphans > 0 /\ orphans' = orphans - 1 /\ UNCHANGED <<wload, wproc>>
-----------------------------------------------------------------------------
(* The one-shot CB_Check_Net_DNS: a check, if system can start it, and the *)
(* end.                                                                    *)
OnceStep(i) ==
  /\ wload[i] = "once" /\ ~wproc[i].child
  /\ \/ /\ wproc[i].st = "loop"
        /\ \E forked \in BOOLEAN : Only(i, [wproc[i] EXCEPT !.st = "checked", !.child = forked])
     \/ wproc[i].st = "checked" /\ Exit(i)

(* CB_WakeWait: a check in each round unless net.dns1 is 0.0.0.0, then a   *)
(* sleep that counts.  The counter is in units of five minutes, rounded    *)
(* up: after two the start script runs, once a day, here after DayUnits.   *)
DayUnits == 4

NextDay(p) == IF p.n > DayUnits THEN [p EXCEPT !.n = 3, !.startup = 0] ELSE p

WakeLook(i) ==
  /\ wload[i] = "wake" /\ wproc[i].st = "loop"
  /\ \E zero \in BOOLEAN : Only(i, [wproc[i] EXCEPT !.st = "sleep", !.child = ~zero])

WakeSleep(i) ==
  /\ wload[i] = "wake" /\ wproc[i].st = "sleep" /\ ~wproc[i].child
  /\ \E booted \in BOOLEAN : \E n \in {wproc[i].n, wproc[i].n + 1} :
       LET startup == IF wproc[i].startup # 1 /\ booted /\ n > 2 THEN 1 ELSE wproc[i].startup
       IN Only(i, NextDay([wproc[i] EXCEPT !.st = "loop", !.n = n, !.startup = startup]))

(* CB_RunHaveged: haveged is started once, and whether that worked is only *)
(* printed.                                                                *)
HavegedChild(p) == IF p.n = 0 THEN {c = "run" : c \in popen_noshell} ELSE {p.child}

(* Each step of the loop is one that has counted more than 310 seconds; at *)
(* the second of them at the latest 600 have gone by (late) and the start  *)
(* script runs.  The earlier run tests net.dns1 for the boot flag, so it   *)
(* depends on whether that address begins with 1.                          *)
HavegedLoop(i) ==
  /\ wload[i] = "haveged" /\ wproc[i].st = "loop" /\ wproc[i].n < MaxSignals
  /\ \E child \in HavegedChild(wproc[i]), late, zero, one \in BOOLEAN :
       LET n == wproc[i].n + 1
           early == IF wproc[i].startup < 1 /\ one /\ ~zero THEN 1 ELSE wproc[i].startup
           p == [wproc[i] EXCEPT !.n = n, !.child = child,
                   !.startup = IF @ < 2 /\ (n > 1 \/ late) THEN 2 ELSE early]
       IN IF zero THEN Only(i, p) ELSE killall(i, p, "USR1")
-----------------------------------------------------------------------------
(* popen_noshell_split_command_to_argv: words separated by blanks, quotes  *)
(* of either kind around blanks; a shell's special characters and an open  *)
(* quote are errors, and an empty word is left out.  A character is one of *)
(* a letter, " ", "sq", "dq" and "meta".                                   *)
add_token(a) == IF a.word = <<>> THEN a ELSE [a EXCEPT !.argv = Append(@, a.word), !.word = <<>>]

split_command_to_argv(command) ==
  LET Step(a, c) ==
        CASE c = "meta" -> [a EXCEPT !.bad = TRUE]
          [] c = " " /\ ~(a.in_sq \/ a.in_dq) -> add_token(a)
          [] c = "sq" /\ ~a.in_dq -> [a EXCEPT !.in_sq = ~@]
          [] c = "dq" /\ ~a.in_sq -> [a EXCEPT !.in_dq = ~@]
          [] OTHER -> [a EXCEPT !.word = Append(@, c)]
      all == FoldLeft(Step, [argv |-> <<>>, word |-> <<>>, in_sq |-> FALSE, in_dq |-> FALSE,
                             bad |-> FALSE], command)
  IN IF all.bad \/ all.in_sq \/ all.in_dq THEN <<>> ELSE add_token(all).argv

popen_noshell_compat(command) ==
  IF split_command_to_argv(command) = <<>> THEN {"none"} ELSE popen_noshell

(* CB_RunDNSMasq: dnsmasq is started again when it ends, after a pause that *)
(* grows with the starts, and no more after the last of them.               *)
DnsmasqRun(i) ==
  /\ wload[i] = "dnsmasq" /\ wproc[i].st = "loop" /\ ~wproc[i].child
  /\ IF wproc[i].n >= MaxTries THEN Exit(i)
     ELSE \E command \in Commands : \E child \in popen_noshell_compat(command) :
            IF child = "run" THEN Only(i, [wproc[i] EXCEPT !.n = @ + 1, !.child = TRUE])
            ELSE Exit(i)

DnsmasqEnds(i) ==
  /\ wload[i] = "dnsmasq" /\ wproc[i].child
  /\ Only(i, [wproc[i] EXCEPT !.child = FALSE])

WatchStep(i) ==
  \/ WatchExec(i) \/ WatchKill(i) \/ InstallHandlers(i) \/ SetLock(i) \/ nl_async(i)
  \/ sig_handler(i) \/ PopenCheck(i) \/ ReadCheck(i) \/ pclose_noshell(i) \/ CheckEnds(i)
  \/ OnceStep(i) \/ WakeLook(i) \/ WakeSleep(i) \/ HavegedLoop(i) \/ DnsmasqRun(i) \/ DnsmasqEnds(i)

WatchNext == WatchStart \/ OrphanEnds \/ \E i \in Watchers : WatchStep(i)
-----------------------------------------------------------------------------
(* Checks and notifications are accounted for: a signal to a              *)
(* CB_Check_Net_DNS with handlers is pending, or its handler has not yet   *)
(* started its check, until a check begins after it, so no change of the   *)
(* network goes unnoticed while the program lives; two processes that live *)
(* run checks (or dnsmasq) at the same time only if one has not come to    *)
(* its lock (CB_Check_Net_DNS.c installs the handlers before); and one     *)
(* process runs more than one check only in handlers of different signals. *)
ChecksAccounted ==
  /\ \A i \in Watchers :
       /\ wproc[i].owed => wproc[i].pend # {} \/ InHandler(i, "fork")
       /\ Running(wproc[i]) > 1 => Blocked(wproc[i]) = Signals /\ Len(wproc[i].frames) = 2
  /\ \A i, j \in Watchers :
       i # j /\ Running(wproc[i]) > 0 /\ Running(wproc[j]) > 0 /\ LockFile(wload[i]) = LockFile(wload[j])
         => \E k \in {i, j} : wload[k] = "check" /\ ~wproc[k].lock
=============================================================================
