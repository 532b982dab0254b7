------------------------------- MODULE Haveged -------------------------------
(***************************************************************************)
(* haveged: a collector fills a buffer with entropy, on-line tests check   *)
(* it ("tot" tests when the collector is created, continuous tests in      *)
(* production), and the daemon credits the words it reads to the kernel's  *)
(* pool, or, as an application, writes them to a file or device.  One      *)
(* process (NUMBER_CORES is 1 in this build); one step is one statistical  *)
(* test, one word read or one system call that can fail.                   *)
(*                                                                         *)
(* Data is counted in units; how much the sequence tests need, which       *)
(* depends on the data, is fixed.  What a test finds is up to the          *)
(* hardware: any number of failed results a test can produce.  Output      *)
(* limited with -n and more than one core are left out.                    *)
(***************************************************************************)
EXTENDS Naturals, Sequences, FiniteSets, SequencesExt

CONSTANTS HavegedSetups,  \* set of [spec, mode]: the -o option as a sequence
                          \*  of [c, cycle, warn], c in "t", "c", "a", "b"
                          \*  or another letter; mode "daemon" or "app"
          TestUnits,      \* TestUnits[t]: data a test uses, by test
          AisReps,        \* AIS_A_REPS, repetitions in procedure A
          FillTot,        \* havege_szFill, units tested, during tot tests
          FillRun,        \* havege_szFill in production
          poolSize,       \* words of the kernel's pool
          MaxRounds       \* rounds of the main loop, a bound of the model

VARIABLE hv
-----------------------------------------------------------------------------
(* testsConfigure: a letter t or c opens a section and empties it; the     *)
(* tests named then go to that section.  Anything else is an error.        *)
(* (A section that names procedure A twice, whose cycles the code combines *)
(* bit by bit, is left out.)                                               *)
NoProcs == [a |-> FALSE, b |-> FALSE, cycle |-> 0, wa |-> FALSE, wb |-> FALSE]

testsConfigure(spec) ==
  FoldLeft(LAMBDA s, o :
             IF s.bad THEN s
             ELSE IF o.c \in {"t", "c"} THEN [s EXCEPT !.section = o.c, ![o.c] = NoProcs]
             ELSE IF o.c \notin {"a", "b"} \/ s.section = "none" THEN [s EXCEPT !.bad = TRUE]
             ELSE [s EXCEPT ![s.section] =
                    IF o.c = "a" THEN [@ EXCEPT !.a = TRUE, !.cycle = o.cycle, !.wa = @ \/ o.warn]
                    ELSE [@ EXCEPT !.b = TRUE, !.wb = @ \/ o.warn]],
           [t |-> NoProcs, c |-> NoProcs, section |-> "none", bad |-> FALSE], spec)

(* havege_test: the procedures of a section in slots, B before A. *)
Slot(act, warn, cycle) == [act |-> act, warn |-> warn, cycle |-> cycle]
NoSlot == Slot("none", FALSE, 0)

havege_test(s) ==
  LET used == (IF s.b THEN <<Slot("B", s.wb, 0)>> ELSE <<>>)
              \o (IF s.a THEN <<Slot("A", s.wa, s.cycle)>> ELSE <<>>)
  IN [k \in {1, 2} |-> IF k <= Len(used) THEN used[k] ELSE NoSlot]
-----------------------------------------------------------------------------
(* The tests: the data each uses and how many failed results it can leave. *)
Test(units, fails) == [units |-> units, fails |-> fails, coron |-> FALSE]

(* test0 stores the number of equal pairs; its lowest bit is what counts.  *)
test0 == Test(TestUnits.test0, {0, 1})

(* Four results on the same sample; the last, the longest run, is always   *)
(* good, because maxRun stays 0.                                           *)
fips140 == Test(TestUnits.fips, 0..3)

(* Uses the sample of fips140 again; skipped in most repetitions if asked. *)
test5(rep, cycle) == Test(0, IF cycle # 0 /\ rep % cycle # 0 THEN {0} ELSE {0, 1})

test6a == Test(TestUnits.bits, {0, 1})
aisSeq(seq) == Test(TestUnits.seq, 0..(seq \div 2))
test8 == [Test(TestUnits.coron, {0, 1}) EXCEPT !.coron = TRUE]

aisProcedureA(cycle) ==
  <<test0>> \o FlattenSeq([r \in 1..AisReps |-> <<fips140, test5(r - 1, cycle)>>])
aisProcedureB == <<test6a, aisSeq(2), aisSeq(4), aisSeq(8), test8>>

Tests(slot) == IF slot.act = "B" THEN aisProcedureB ELSE aisProcedureA(slot.cycle)

(* What n more units used by a test add to bytesUsed or bitsUsed, in       *)
(* eighths of a unit: test8 counts bytes where the others count bits, and  *)
(* again those it kept (bridge) from the buffers before.                   *)
Counted(t, bridge, n) == IF t.coron THEN bridge + n ELSE 8 * n
-----------------------------------------------------------------------------
(* State of a test procedure.  Failed results are counted up to two, which *)
(* is all that is asked of them.  It comes from malloc and only its state  *)
(* is set, so the rest is arbitrary (what is read of it: retry and bad).   *)
Proc(retry, bad) ==
  [state |-> "init", retry |-> retry, id |-> 1, bridge |-> 0, bad |-> bad, used |-> 0]

NoCollector == [procs |-> [A |-> Proc(FALSE, 0), B |-> Proc(FALSE, 0)],
                stage |-> "tot", tot |-> 1, run |-> 1, result |-> FALSE,
                sz |-> FillTot, rest |-> FillTot, nptr |-> FillRun,
                doubt |-> FALSE, passed |-> {}]

HavegedInit ==
  hv = [pc |-> "off", mode |-> "daemon", tot |-> <<NoSlot, NoSlot>>,
        run |-> <<NoSlot, NoSlot>>, col |-> NoCollector, want |-> 0, rounds |-> 0]

(* main: the options, then havege_create, which rejects a bad test spec. *)
HavegedStart ==
  /\ hv.pc = "off"
  /\ \E s \in HavegedSetups : \E t \in {testsConfigure(s.spec)} :
     \E memory \in BOOLEAN :
       hv' = IF t.bad \/ ~memory THEN [hv EXCEPT !.pc = "exit"]
             ELSE [hv EXCEPT !.pc = IF s.mode = "daemon" THEN "lock" ELSE "stat",
                             !.mode = s.mode, !.tot = havege_test(t.t),
                             !.run = havege_test(t.c)]

(* run_app writes without end only to a character device. *)
AppStat ==
  /\ hv.pc = "stat"
  /\ \E ok \in BOOLEAN : hv' = [hv EXCEPT !.pc = IF ok THEN "lock" ELSE "exit"]

(* lock_file, daemonize: the pid file is locked by one instance at a time. *)
lock_file ==
  /\ hv.pc = "lock"
  /\ \E free \in BOOLEAN : hv' = [hv EXCEPT !.pc = IF free THEN "create" ELSE "exit"]

(* havege_run, havege_ndcreate: a new collector, warmed up, whose first    *)
(* buffer is then tested.                                                  *)
havege_ndcreate ==
  /\ hv.pc = "create"
  /\ \/ hv' = [hv EXCEPT !.pc = "exit"]          \* out of memory
     \/ \E ra, rb \in BOOLEAN, ba, bb \in {0, 1} :
          hv' = [hv EXCEPT !.pc = "test",
                   !.col = [NoCollector EXCEPT !.procs = [A |-> Proc(ra, ba), B |-> Proc(rb, bb)]]]
-----------------------------------------------------------------------------
FaultyDiscard(c) ==
  LET act == hv.run[c.run].act
  IN /\ ~c.result
     /\ act # "none"
     /\ c.procs[act].bad > 0

(* testsDiscard: a buffer is thrown away while the procedure that is next  *)
(* has a retry or a failed result on record.  After a failed procedure it  *)
(* answers -1, and only a positive answer makes the caller try again.      *)
testsDiscard(c) ==
  LET act == hv.run[c.run].act
  IN /\ ~c.result
     /\ act # "none"
     /\ c.procs[act].retry \/ c.procs[act].bad > 0

(* The test run over a buffer is over; more says whether aisTest asked for *)
(* input.  Tot tests go on until it does not, and then fail the collector  *)
(* or not (havege_ndcreate); in production havege_ndread releases the      *)
(* buffer or fills it again.                                               *)
Tested(c, more) ==
  LET Gather(n) == [c EXCEPT !.sz = n, !.rest = n]
  IN IF c.stage = "tot"
     THEN IF more THEN [hv EXCEPT !.col = Gather(FillTot)]
          ELSE IF c.result THEN [hv EXCEPT !.pc = "exit"]
          ELSE [hv EXCEPT !.pc = "open", !.col = [c EXCEPT !.stage = "run"]]
     ELSE IF testsDiscard(c) THEN [hv EXCEPT !.col = Gather(FillRun)]
          ELSE [hv EXCEPT !.pc = "read", !.col = [c EXCEPT !.nptr = 0]]

(* aisProcedureA, aisProcedureB, before their first test. *)
Enter(p) ==
  IF p.state = "init" THEN [Proc(FALSE, 0) EXCEPT !.state = "input"]
  ELSE IF p.state = "retry"
    THEN [p EXCEPT !.state = "input", !.id = 1, !.bad = 0, !.bridge = 0]
  ELSE p

(* aisTest, a procedure is complete: on to the next slot, with what it has *)
(* not used of the buffer, if it used less than there was.                 *)
NextSlot(c, used) ==
  LET slots == IF c.stage = "tot" THEN hv.tot ELSE hv.run
      last == IF c.stage = "tot" THEN c.tot >= 2 ELSE hv.run[1].act = "none"
      d == IF c.stage = "tot" THEN [c EXCEPT !.tot = @ + 1]
           ELSE IF hv.run[2].act # "none" THEN [c EXCEPT !.run = 3 - @] ELSE c
      act == slots[IF c.stage = "tot" THEN d.tot ELSE d.run].act
      e == IF act = "none" THEN d ELSE [d EXCEPT !.procs[act].state = "init"]
  IN IF last THEN Tested(c, FALSE)
     ELSE IF used < c.sz THEN [hv EXCEPT !.col = [e EXCEPT !.sz = @ - used, !.rest = c.sz - used]]
     ELSE Tested(e, TRUE)

(* aisFail keeps a failure for ever unless the procedure only warns. *)
aisFail(c, slot, p) == c.result \/ (p.bad > 0 /\ ~slot.warn)

(* The end of a procedure: one failed result the first time means a retry, *)
(* anything else is the verdict.                                           *)
Evaluate(c, slot, p) ==
  IF p.bad = 1 /\ ~p.retry
    THEN Tested([c EXCEPT !.procs[slot.act] = [p EXCEPT !.retry = TRUE, !.state = "retry"]], TRUE)
  ELSE NextSlot([c EXCEPT !.procs[slot.act] = [p EXCEPT !.state = "done"],
                          !.result = aisFail(c, slot, p),
                          !.doubt = @ /\ p.bad > 0,
                          !.passed = IF p.bad = 0 THEN @ \cup {slot.act} ELSE @], p.used \div 8)

(* One test of aisTest, on the data left in the buffer.  Nothing restarts  *)
(* a procedure between tot tests and production: one that is still "done"  *)
(* counts as complete at once, and passes without looking at any data.     *)
aisTest ==
  /\ hv.pc = "test"
  /\ \E c \in {hv.col} :
     \E slot \in {IF c.stage = "tot" THEN hv.tot[c.tot] ELSE hv.run[c.run]} :
       IF c.result THEN hv' = Tested(c, FALSE)
       ELSE IF slot.act = "none" THEN hv' = NextSlot(c, 0)
       ELSE IF c.procs[slot.act].state = "done"
         THEN hv' = NextSlot(c, c.procs[slot.act].used \div 8)
       ELSE \E p \in {Enter(c.procs[slot.act])} : \E t \in {Tests(slot)[p.id]} :
            LET needed == t.units - p.bridge
            IN IF c.rest < needed
               THEN hv' = Tested([c EXCEPT !.procs[slot.act] =
                      [p EXCEPT !.bridge = @ + c.rest, !.used = @ + Counted(t, p.bridge, c.rest)]], TRUE)
               ELSE \E f \in t.fails :
                    LET q == [p EXCEPT !.id = @ + 1, !.bridge = 0,
                                       !.used = @ + Counted(t, p.bridge, needed),
                                       !.bad = IF @ + f > 2 THEN 2 ELSE @ + f]
                        d == [c EXCEPT !.rest = @ - needed, !.doubt = @ \/ f > 0]
                    IN hv' = IF p.id = Len(Tests(slot)) THEN Evaluate(d, slot, q)
                             ELSE [hv EXCEPT !.col = [d EXCEPT !.procs[slot.act] = q]]
-----------------------------------------------------------------------------
(* The random device, or the output file of run_app. *)
OpenOutput ==
  /\ hv.pc = "open"
  /\ \E ok \in BOOLEAN : hv' = [hv EXCEPT !.pc = IF ok THEN "loop" ELSE "exit"]

(* One round of run_daemon: it asks for what the pool lacks, and leaves    *)
(* when select or RNDGETENTCNT fails.                                      *)
DaemonRound ==
  /\ hv.pc = "loop" /\ hv.mode = "daemon" /\ hv.rounds < MaxRounds
  /\ \/ hv' = [hv EXCEPT !.pc = "exit"]
     \/ \E n \in 0..poolSize :
          hv' = [hv EXCEPT !.rounds = @ + 1, !.want = n,
                           !.pc = IF n = 0 THEN "loop" ELSE "read"]

(* One round of run_app: a random number of words; when it is 0 the write  *)
(* of nothing counts as a failure.                                         *)
AppRound ==
  /\ hv.pc = "loop" /\ hv.mode = "app" /\ hv.rounds < MaxRounds
  /\ \E n \in 0..poolSize :
       hv' = [hv EXCEPT !.rounds = @ + 1, !.want = n,
                        !.pc = IF n = 0 THEN "exit" ELSE "read"]

(* havege_rng, havege_ndread: words from the buffer, which is filled and   *)
(* tested again when it is used up.                                        *)
havege_ndread ==
  /\ hv.pc = "read" /\ hv.want > 0
  /\ hv' = IF hv.col.nptr >= FillRun
             THEN [hv EXCEPT !.pc = "test", !.col.sz = FillRun, !.col.rest = FillRun]
           ELSE [hv EXCEPT !.want = @ - 1, !.col.nptr = @ + 1]

(* The words are credited, also when havege_rng reported an error (there   *)
(* is only a pause).  When the kernel does not take them the daemon        *)
(* becomes an application, with a new collector.                           *)
Credit ==
  /\ hv.pc = "read" /\ hv.want = 0 /\ hv.mode = "daemon"
  /\ \/ hv' = [hv EXCEPT !.pc = "loop"]
     \/ hv' = [hv EXCEPT !.pc = "stat", !.mode = "app"]

(* The words are written; when the output does not take them haveged ends. *)
AppWrite ==
  /\ hv.pc = "read" /\ hv.want = 0 /\ hv.mode = "app"
  /\ \E ok \in BOOLEAN : hv' = [hv EXCEPT !.pc = IF ok THEN "loop" ELSE "exit"]

HavegedNext ==
  \/ HavegedStart \/ AppStat \/ lock_file \/ havege_ndcreate \/ aisTest
  \/ OpenOutput \/ DaemonRound \/ AppRound \/ havege_ndread \/ Credit \/ AppWrite
-----------------------------------------------------------------------------
Warns == \E k \in {1, 2} : hv.tot[k].warn \/ hv.run[k].warn
Acts(slots) == {slots[k].act : k \in {1, 2}} \ {"none"}

(* No word is read before the collector has passed every tot test asked    *)
(* for, and as long as no continuous procedure has failed the buffer read  *)
(* from holds no data in doubt: no test has failed since the last          *)
(* procedure that passed, so no retry is under way.  Procedures that only  *)
(* warn are excepted.  (After a continuous procedure fails nothing is      *)
(* tested any more and every word is still credited.)                      *)
TestedBeforeUse ==
  hv.pc \in {"loop", "read"} /\ ~Warns =>
    /\ Acts(hv.tot) \subseteq hv.col.passed
    /\ hv.col.nptr < FillRun /\ ~hv.col.result => ~hv.col.doubt
=============================================================================
