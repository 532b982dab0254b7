----------------------------- MODULE MasqEvents -----------------------------
(* dnsmasq's processes (dnsmasq.c, create_helper): the process that starts *)
(* it and waits for its errors, the daemon, the helper for scripts and the *)
(* children that serve TCP connections; signals, which go through a pipe   *)
(* to the main loop; and the start-up with all its ways to fail.  What the *)
(* events do to leases, cache and log is modelled with those.              *)
EXTENDS Naturals, Sequences, FiniteSets, SequencesExt

CONSTANTS EventLoads  \* a set of [mode, faults, helper, scriptuser, slots, listeners,
                      \*           room, pids, conns, signals, jobs]:
                      \*  mode       "daemon", "keep" (no-fork) or "debug"
                      \*  faults     the steps of the start-up that may fail
                      \*  helper     there is a script; scriptuser: with a user of its own
                      \*  slots      MAX_PROCS
                      \*  listeners  the number of TCP listeners
                      \*  room       how many events the pipe holds
                      \*  pids       process ids that children and others use
                      \*  conns, jobs  bounds: connections, lease changes
                      \*  signals    bounds: how often each signal is sent

VARIABLES eload, ev
eventvars == <<eload, ev>>

EC_GOOD == 0
EC_FILE == 3
EC_MISC == 5
NoExit == 99   \* no exit status yet

(* The status with which fatal_event ends the process.                     *)
fatal_event(e) ==
  CASE e = "DIE" -> EC_GOOD
    [] e \in {"PIDFILE", "LOG_ERR", "TFTP_ERR"} -> EC_FILE
    [] e \in {"FORK_ERR", "PIPE_ERR", "CAP_ERR", "USER_ERR", "GROUP_ERR"} -> EC_MISC
    [] e \in {"chdir", "locked"} -> EC_MISC   \* die, without an event

Forks == eload.mode = "daemon"

(* The order of the start-up, and the errors of each step.                 *)
StartUp == <<"pipe", "chdir", "fork", "fork again", "pidfile", "log", "helper", "drop root", "tftp", "ready">>
Errors == [s \in ToSet(StartUp) |->
  CASE s = "chdir" -> {"chdir"}
    [] s = "fork" -> {"FORK_ERR"}
    [] s = "fork again" -> {"FORK_ERR"}
    [] s = "pidfile" -> IF eload.mode = "debug" THEN {"locked"} ELSE {"PIDFILE"}
    [] s = "log" -> {"LOG_ERR"}
    [] s = "helper" -> IF eload.helper THEN {"PIPE_ERR"} ELSE {}
    [] s = "drop root" -> IF eload.mode = "debug" THEN {} ELSE {"GROUP_ERR", "CAP_ERR", "USER_ERR"}
    [] s = "tftp" -> {"TFTP_ERR"}
    [] OTHER -> {}]

Starting == ev.at \in ToSet(StartUp)
InLoop == ~Starting /\ ev.exit = NoExit

(* The step after this one: only a daemon forks, and in debug mode it      *)
(* stays in its directory and only locks its pid file.                     *)
NextStep(s) ==
  LET k == SelectInSeq(StartUp, LAMBDA x : x = s)
  IN CASE s = "pipe" /\ eload.mode = "debug" -> "pidfile"
       [] s = "chdir" /\ eload.mode = "keep" -> "pidfile"
       [] OTHER -> StartUp[k + 1]

EventsInit ==
  /\ eload \in EventLoads
  /\ ev = [at |-> "pipe", exit |-> NoExit, launcher |-> NoExit,
           err |-> <<>>, pipe |-> <<>>, lost |-> {}, signals |-> {}, sent |-> [s \in DOMAIN eload.signals |-> 0],
           helper |-> "none", jobs |-> 0, changes |-> 0, ended |-> "", failed |-> {}, edited |-> FALSE,
           kids |-> <<>>, others |-> {}, tcp_pids |-> [i \in 1 .. eload.slots |-> 0],
           waiting |-> [l \in 1 .. eload.listeners |-> 0], opened |-> 0, todo |-> <<>>, forked |-> 0, ping |-> FALSE]

(* The pipe does not block: it takes an event whole or not at all.         *)
send_event(v, e) ==
  IF Len(v.pipe) < eload.room THEN [v EXCEPT !.pipe = Append(@, e)] ELSE [v EXCEPT !.lost = @ \cup {e}]

(* An error of the start-up: to the process that waits, or, where there is *)
(* none, as the end of this one.                                           *)
StartError(v, e) ==
  IF Forks /\ v.at \notin {"chdir", "fork"}
  THEN [v EXCEPT !.err = Append(@, e), !.exit = EC_GOOD, !.failed = @ \cup {e}]
  ELSE [v EXCEPT !.exit = fatal_event(e), !.failed = @ \cup {e}]

-----------------------------------------------------------------------------
(* main, up to the loop.  The pipe is primed with a reload; each fork      *)
(* leaves the old process behind; the helper starts before root is         *)
(* dropped; closing the error pipe releases the process that waits.        *)
Start ==
  /\ Starting /\ ev.exit = NoExit
  /\ LET on == [ev EXCEPT !.at = IF ev.at = "ready" THEN "select" ELSE NextStep(ev.at)]
     IN ev' = CASE ev.at = "pipe" -> send_event(on, "RELOAD")
                [] ev.at = "helper" /\ eload.helper -> [on EXCEPT !.helper = "init"]
                [] OTHER -> on
  /\ UNCHANGED eload

StartFails ==
  /\ Starting /\ ev.exit = NoExit
  /\ ev.at \in eload.faults
  /\ \E e \in Errors[ev.at] : ev' = StartError(ev, e)
  /\ UNCHANGED eload

(* create_helper, in the new process: if it cannot become the script's     *)
(* user, it ends the daemon and tells the process that waits; else it      *)
(* closes its copy of the error pipe, and reads jobs.                      *)
HelperFails(v) ==
  IF Forks THEN send_event([v EXCEPT !.err = Append(@, "USER_ERR"), !.failed = @ \cup {"USER_ERR"}], "DIE")
  ELSE send_event([v EXCEPT !.failed = @ \cup {"USER_ERR"}], "USER_ERR")

(* A process ends: the daemon gets SIGCHLD.                                *)
WithSigchld(v) == IF v.exit = NoExit THEN [v EXCEPT !.signals = @ \cup {"CHLD"}] ELSE v

HelperStarts ==
  /\ ev.helper = "init"
  /\ \/ ev' = [ev EXCEPT !.helper = "loop"]
     \/ /\ "user" \in eload.faults /\ eload.mode # "debug" /\ eload.scriptuser
        /\ ev' = WithSigchld(HelperFails([ev EXCEPT !.helper = "dead"]))
  /\ UNCHANGED eload

(* The process that started the daemon reads an error, or the end of the   *)
(* pipe once every process that writes there has closed it.                *)
Writers == (Starting /\ ev.exit = NoExit) \/ ev.helper = "init"

LauncherReads ==
  /\ Forks /\ ev.launcher = NoExit /\ ev.at \notin {"pipe", "chdir", "fork"}
  /\ ev.err # <<>> \/ ~Writers
  /\ ev' = [ev EXCEPT !.launcher = IF ev.err # <<>> THEN fatal_event(ev.err[1]) ELSE EC_GOOD]
  /\ UNCHANGED eload

-----------------------------------------------------------------------------
(* Signals.  A signal that waits is not counted twice.                     *)
EventOf == [HUP |-> "RELOAD", CHLD |-> "CHILD", ALRM |-> "ALARM", TERM |-> "TERM",
            USR1 |-> "DUMP", USR2 |-> "REOPEN"]

Kill ==
  /\ ev.exit = NoExit
  /\ \E s \in DOMAIN eload.signals :
       /\ ev.sent[s] < eload.signals[s]
       /\ ev' = [ev EXCEPT !.signals = @ \cup {s}, !.sent[s] = @ + 1, !.edited = @ \/ s = "HUP"]
  /\ UNCHANGED eload

(* Until pid is set, all but TERM are ignored.                             *)
DaemonSignal ==
  /\ ev.exit = NoExit
  /\ \E s \in ev.signals :
       LET v == [ev EXCEPT !.signals = @ \ {s}]
       IN ev' = IF ~Starting THEN send_event(v, EventOf[s])
                ELSE IF s = "TERM" THEN [v EXCEPT !.exit = EC_MISC, !.ended = "TERM"]
                ELSE v
  /\ UNCHANGED eload

(* Clients connect, and may go away before they are served.                *)
Dial ==
  /\ ev.exit = NoExit /\ ev.opened < eload.conns
  /\ \E l \in 1 .. eload.listeners : ev' = [ev EXCEPT !.waiting[l] = @ + 1, !.opened = @ + 1]
  /\ UNCHANGED eload

(* A child ends: its client is done, or SIGALRM came, by its own alarm or  *)
(* from the daemon.                                                        *)
KidEnds ==
  /\ \E k \in DOMAIN ev.kids :
       /\ ev.kids[k].runs
       /\ ev' = WithSigchld([ev EXCEPT !.kids[k].runs = FALSE])
  /\ UNCHANGED eload

(* Another program takes a process id that is free.                        *)
OtherStarts ==
  /\ \E p \in 1 .. eload.pids :
       /\ p \notin ev.others \cup {ev.kids[k].pid : k \in DOMAIN ev.kids}
       /\ ev' = [ev EXCEPT !.others = @ \cup {p}]
  /\ UNCHANGED eload

-----------------------------------------------------------------------------
(* The main loop.  TCP connections are accepted while a slot is free; a    *)
(* ping waits in a loop of its own, deaf to the event pipe.                *)
Listens == \E i \in DOMAIN ev.tcp_pids : ev.tcp_pids[i] = 0

Select ==
  /\ InLoop /\ ev.at = "select"
  /\ \E fails \in BOOLEAN :
       \E ready \in {IF fails \/ ~Listens THEN <<>>
                     ELSE SelectSeq([l \in 1 .. eload.listeners |-> l], LAMBDA l : ev.waiting[l] > 0)} :
         ev' = [ev EXCEPT !.at = IF fails \/ ev.pipe = <<>> \/ ev.ping THEN "listen" ELSE "event",
                          !.todo = ready]
  /\ UNCHANGED eload

(* icmp_ping: the wait begins while a DHCP packet is handled, and ends.    *)
icmp_ping ==
  /\ InLoop /\ ev.at = "select"
  /\ ev' = [ev EXCEPT !.ping = ~@]
  /\ UNCHANGED eload

(* EVENT_CHILD: every child that has ended is waited for, and its slot is  *)
(* freed.                                                                  *)
Waited(v, gone) ==
  [v EXCEPT !.kids = SelectSeq(@, LAMBDA k : k.pid \notin gone),
            !.tcp_pids = [i \in DOMAIN @ |-> IF @[i] \in gone THEN 0 ELSE @[i]],
            !.helper = IF @ = "dead" THEN "gone" ELSE @]

Dead(v) == {v.kids[k].pid : k \in {j \in DOMAIN v.kids : ~v.kids[j].runs}}

FaultyReap(v) == IF Dead(v) = {} THEN Waited(v, {}) ELSE Waited(v, {CHOOSE p \in Dead(v) : TRUE})

Reap(v) == Waited(v, Dead(v))

(* EVENT_TERM: the children are told to end, the lease changes that wait   *)
(* are handed to the helper, and the daemon ends.                          *)
Terminate(v) ==
  [v EXCEPT !.jobs = 0, !.ended = "TERM", !.exit = EC_GOOD,
            !.others = @ \ ToSet(v.tcp_pids)]

async_event ==
  /\ InLoop /\ ev.at = "event"
  /\ LET e == Head(ev.pipe)
         v == [ev EXCEPT !.pipe = Tail(@), !.at = "listen"]
     IN ev' = CASE e = "RELOAD" -> [v EXCEPT !.edited = FALSE]
                [] e = "CHILD" -> Reap(v)
                [] e = "TERM" -> Terminate(v)
                [] e \in {"USER_ERR", "DIE"} -> [v EXCEPT !.exit = fatal_event(e), !.ended = e]
                [] OTHER -> v
  /\ UNCHANGED eload

(* check_dns_listeners, for the next listener with a connection.  In debug *)
(* mode the daemon serves it itself.  A child starts with the lowest id    *)
(* that is free.                                                           *)
FreePid == CHOOSE p \in 1 .. eload.pids + eload.conns :
             /\ p \notin ev.others \cup {ev.kids[k].pid : k \in DOMAIN ev.kids}
             /\ \A r \in 1 .. p - 1 : r \in ev.others \cup {ev.kids[k].pid : k \in DOMAIN ev.kids}

Accept ==
  /\ InLoop /\ ev.at = "listen" /\ ev.todo # <<>> /\ ev.forked = 0
  /\ LET taken == [ev EXCEPT !.waiting[Head(ev.todo)] = @ - 1, !.todo = Tail(@)]
     IN \/ ev' = taken                                    \* it is gone, or fork fails
        \/ /\ eload.mode # "debug"
           /\ ev' = [taken EXCEPT !.kids = Append(@, [pid |-> FreePid, runs |-> TRUE]), !.forked = FreePid]
        \/ /\ eload.mode = "debug"
           /\ ev' = [taken EXCEPT !.at = "serve"]
  /\ UNCHANGED eload

(* The parent notes the child in the first free slot, if there is one.     *)
RecordPid ==
  /\ InLoop /\ ev.forked # 0
  /\ LET i == SelectInSeq(ev.tcp_pids, LAMBDA p : p = 0)
     IN ev' = [ev EXCEPT !.tcp_pids = IF i = 0 THEN @ ELSE [@ EXCEPT ![i] = ev.forked], !.forked = 0]
  /\ UNCHANGED eload

ServedHere ==
  /\ InLoop /\ ev.at = "serve"
  /\ ev' = [ev EXCEPT !.at = "listen"]
  /\ UNCHANGED eload

(* A DHCP packet, the last of the turn, may change a lease; a job goes to  *)
(* the helper just before select.                                          *)
TurnEnds ==
  /\ InLoop /\ ev.at = "listen" /\ ev.todo = <<>> /\ ev.forked = 0
  /\ \/ ev' = [ev EXCEPT !.at = "select"]
     \/ /\ eload.helper /\ ~ev.ping /\ ev.changes < eload.jobs
        /\ ev' = [ev EXCEPT !.at = "select", !.jobs = @ + 1, !.changes = @ + 1]
     \/ /\ ev.jobs > 0 /\ ~ev.ping
        /\ ev' = [ev EXCEPT !.at = "select", !.jobs = @ - 1]
  /\ UNCHANGED eload

EventsNext ==
  \/ Start \/ StartFails \/ HelperStarts \/ LauncherReads \/ Kill \/ DaemonSignal \/ Dial \/ KidEnds
  \/ OtherStarts \/ Select \/ icmp_ping \/ async_event \/ Accept \/ RecordPid \/ ServedHere \/ TurnEnds

-----------------------------------------------------------------------------
(* An event that the handler has seen, or will see.                        *)
Comes(sig) == EventOf[sig] \in ToSet(ev.pipe) \cup ev.lost \/ sig \in ev.signals

(* The slots hold different children that have not been waited for, so     *)
(* SIGTERM's kill hits no other process that has got the id; while a child *)
(* in a slot has ended, or one that is about to get one, an event that     *)
(* frees it is on its way, unless the pipe was full (waitpid in            *)
(* async_event, signals that fall together, fork before the slot is set).  *)
(* A reload asked for by SIGHUP at any time, the start-up included, where  *)
(* the signal is ignored, comes.  The process that started the daemon      *)
(* ends well only if no step of the start-up failed, that of the helper    *)
(* included, or SIGTERM ended it, and if one failed the daemon has ended   *)
(* or will when it reads its pipe.  No lease change is left at the end.    *)
EventsSound ==
  LET held == {i \in DOMAIN ev.tcp_pids : ev.tcp_pids[i] # 0}
      alive == {ev.kids[k].pid : k \in DOMAIN ev.kids}
      bad == {"DIE", "USER_ERR"} \cap (ToSet(ev.pipe) \cup ev.lost) # {}
  IN /\ \A i, j \in held : ev.tcp_pids[i] \in alive \ ev.others /\ (ev.tcp_pids[i] = ev.tcp_pids[j] => i = j)
     /\ InLoop /\ (\E i \in held : ev.tcp_pids[i] \in Dead(ev)) => Comes("CHLD")
     /\ InLoop /\ ev.forked \in Dead(ev) => Comes("CHLD")
     /\ InLoop /\ ev.edited => Comes("HUP")
     /\ ev.failed # {} => ev.exit # NoExit \/ bad
     /\ ev.launcher = EC_GOOD => ev.failed = {}
     /\ ev.launcher \notin {EC_GOOD, NoExit} => ev.failed # {}
     /\ ev.ended = "TERM" /\ ev.exit = EC_GOOD => ev.jobs = 0
=============================================================================
