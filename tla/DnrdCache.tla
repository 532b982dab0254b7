----------------------------- MODULE DnrdCache -----------------------------
(***************************************************************************)
(* dnrd: the cache of answers (cache.c).                                   *)
(*                                                                         *)
(* cachelist is the doubly linked list in order; an entry keeps the        *)
(* seconds since it was created and since it was last used.  run() calls   *)
(* cache_expire once per iteration; Gap bounds the time between two calls  *)
(* (pselect waits at most select_timeout seconds, and an interrupted one   *)
(* skips the call).                                                        *)
(***************************************************************************)
EXTENDS Integers, Sequences, FiniteSets

CONSTANTS
  Keys,                \* questions: name, type and class
  Params,              \* the -c options the daemon may be started with
  CACHE_TIME, CACHE_MAXTIME, CACHE_MINCYCLE,
  CACHE_HIGHWATER, CACHE_LOWWATER,
  Gap,                 \* longest time between two calls of cache_expire
  MaxEntries           \* bound on the list, which the code does not have

(* An option is `off', one water mark, `low:high', something else, or not  *)
(* given.  Only a high-water mark after a colon can be negative.           *)
Param ==
  [form : {"none", "off", "bad"}] \cup [form : {"high"}, high : Nat]
    \cup [form : {"both"}, low : Nat, high : Int]

ASSUME ParamsAssumption == Params \subseteq Param

ASSUME CacheAssumption ==
  /\ CACHE_TIME \in Nat /\ CACHE_MAXTIME \in Nat /\ CACHE_MINCYCLE \in Nat \ {0}
  /\ CACHE_HIGHWATER \in Nat /\ CACHE_LOWWATER \in 0 .. CACHE_HIGHWATER
  /\ Gap \in Nat /\ Gap <= CACHE_TIME /\ CACHE_TIME <= CACHE_MAXTIME
  /\ MaxEntries \in Nat

VARIABLES
  cachelist,           \* the entries, oldest first
  cache_onoff, cache_highwater, cache_lowwater,
  since_expire,        \* seconds since lastexpire, Unset if lastexpire is 0
  since_call           \* seconds since cache_expire was last called

marks == <<cache_onoff, cache_highwater, cache_lowwater>>
vars == <<cachelist, marks, since_expire, since_call>>

Unset == -1

(* The longest an entry can last, and one second more.                     *)
AgeCap == CACHE_MAXTIME + CACHE_MINCYCLE + Gap

Entry == [key : Keys, created : 0 .. AgeCap, lastused : 0 .. AgeCap]

TypeOK ==
  /\ cachelist \in Seq(Entry)
  /\ cache_onoff \in BOOLEAN
  /\ cache_highwater \in Int
  /\ cache_lowwater \in Int
  /\ since_expire \in Unset .. CACHE_MINCYCLE + Gap
  /\ since_call \in 0 .. Gap

-----------------------------------------------------------------------------
(* cache_init reads the option ...                                         *)
GivenHigh(p) ==
  IF p.form \in {"high", "both"} THEN p.high ELSE CACHE_HIGHWATER

GivenLow(p) ==
  CASE p.form = "both" -> p.low
    [] p.form = "high" -> (p.high * 75) \div 100
    [] OTHER           -> CACHE_LOWWATER

(* ... and corrects marks that make no sense.                              *)
cache_init(p) ==
  LET high == GivenHigh(p)
      low == GivenLow(p)
  IN /\ cache_onoff = (p.form # "off")
     /\ cache_highwater = IF high < 0 THEN CACHE_HIGHWATER ELSE high
     /\ cache_lowwater = IF high < 0 THEN CACHE_LOWWATER
                         ELSE IF low > high THEN (high * 75) \div 100 ELSE low

Init ==
  /\ \E p \in Params : cache_init(p)
  /\ cachelist = <<>>
  /\ since_expire = Unset
  /\ since_call = 0

(* A second passes.                                                        *)
Plus1(n, cap) == IF n < cap THEN n + 1 ELSE n

Older(e) == [e EXCEPT !.created = Plus1(@, AgeCap),
                      !.lastused = Plus1(@, AgeCap)]

Tick ==
  /\ since_call < Gap
  /\ since_call' = since_call + 1
  /\ since_expire' = IF since_expire = Unset THEN Unset ELSE since_expire + 1
  /\ cachelist' = [k \in 1 .. Len(cachelist) |-> Older(cachelist[k])]
  /\ UNCHANGED marks

(* An answer with records in it is appended; another one is parsed and     *)
(* kept nowhere.  Nothing looks for an entry with the same question.       *)
cache_dnspacket(key, ancount) ==
  /\ cache_onoff
  /\ cachelist' = IF ancount > 0
                  THEN Append(cachelist,
                              [key |-> key, created |-> 0, lastused |-> 0])
                  ELSE cachelist
  /\ UNCHANGED <<marks, since_expire, since_call>>

(* The first entry for the question is used, whether or not it expired.    *)
Matches(key) == {k \in 1 .. Len(cachelist) : cachelist[k].key = key}

cache_lookup(key) ==
  /\ cache_onoff
  /\ \E k \in Matches(key) :
       /\ \A j \in Matches(key) : k <= j
       /\ cachelist' = [cachelist EXCEPT ![k].lastused = 0]
  /\ UNCHANGED <<marks, since_expire, since_call>>

(* The entries at the positions in K are left, in order.                   *)
Keep(K) ==
  \E f \in [1 .. Cardinality(K) -> K] :
    /\ \A i, j \in 1 .. Cardinality(K) : i < j => f[i] < f[j]
    /\ cachelist' = [i \in 1 .. Cardinality(K) |-> cachelist[f[i]]]

(* Fault: an entry in use never expires.                                   *)
FaultyExpired(e) == e.lastused > CACHE_TIME

(* cx->expires is CACHE_TIME after the last use.                           *)
Expired(e) == e.lastused > CACHE_TIME \/ e.created > CACHE_MAXTIME

Live == {k \in 1 .. Len(cachelist) : ~Expired(cachelist[k])}

(* Fault: one entry too many is left.                                      *)
FaultyOldest(K) ==
  /\ Cardinality(K) = cache_lowwater + 1
  /\ \A r \in Live \ K, k \in K : cachelist[r].lastused <= cachelist[k].lastused

(* expire_oldest sorts with cmp_cachemru, which puts the most recently     *)
(* used first (equal ones in either order), and removes the first ones.    *)
expire_oldest(K) ==
  /\ Cardinality(K) = cache_lowwater
  /\ \A r \in Live \ K, k \in K : cachelist[r].lastused <= cachelist[k].lastused

cache_expire ==
  /\ cache_onoff
  /\ since_call' = 0
  /\ UNCHANGED marks
  /\ IF since_expire < CACHE_MINCYCLE
     THEN /\ since_expire' = IF since_expire = Unset THEN 0 ELSE since_expire
          /\ UNCHANGED cachelist
     ELSE /\ since_expire' = 0
          /\ IF Cardinality(Live) > cache_highwater
             THEN \E K \in SUBSET Live : expire_oldest(K) /\ Keep(K)
             ELSE Keep(Live)

(* Turned off, none of the three does anything.                            *)
CacheOff ==
  /\ ~cache_onoff
  /\ since_call' = 0
  /\ UNCHANGED <<cachelist, marks, since_expire>>

Next ==
  \/ Tick
  \/ cache_expire
  \/ CacheOff
  \/ \E key \in Keys :
       \/ cache_lookup(key)
       \/ \E ancount \in 0 .. 1 :
            Len(cachelist) < MaxEntries /\ cache_dnspacket(key, ancount)

Spec == Init /\ [][Next]_vars

-----------------------------------------------------------------------------
(* cache.c:44-48: "Reusing a positive answer resets the entry's expire     *)
(* time.  After CACHE_MAXTIME the item is removed anyway."  cache_lookup   *)
(* does not look at the times, so what it can serve is only as fresh as    *)
(* cache_expire, which does nothing for CACHE_MINCYCLE after a pass, keeps *)
(* the list: no entry outlives its times by more than the longest distance *)
(* of two passes, however it is refreshed.                                 *)
Staleness == CACHE_MINCYCLE + Gap - 1

StalenessBounded ==
  \A k \in 1 .. Len(cachelist) :
    /\ cachelist[k].created <= CACHE_MAXTIME + Staleness
    /\ cachelist[k].lastused <= CACHE_TIME + Staleness

(* cache.c:66-70: "If after an expire the cache holds more than            *)
(* CACHE_HIGHWATER items the oldest items are removed until there are only *)
(* CACHE_LOWWATER left", for whatever marks -c gives: a pass leaves at     *)
(* most the high mark, and shortens the list to the low mark exactly when  *)
(* the unexpired entries alone exceed the high one.                        *)
PassBoundsList ==
  [][since_expire' = 0 /\ since_expire >= CACHE_MINCYCLE =>
       /\ Len(cachelist') <= cache_highwater
       /\ Len(cachelist') = IF Cardinality(Live) > cache_highwater
                            THEN cache_lowwater ELSE Cardinality(Live)]_vars

(* cache.c:315-316: "Sorts all the entries in order of age, oldest first.  *)
(* Then removes the first": when entries that have not expired are         *)
(* removed, the ones used least recently go.                               *)
Uses(list) == {list[k].lastused : k \in 1 .. Len(list)}

PurgesOldestFirst ==
  [][Cardinality(Live) > cache_highwater /\ Len(cachelist') < Len(cachelist) =>
       \A r \in {cachelist[k].lastused : k \in Live} \ Uses(cachelist') :
         \A u \in Uses(cachelist') : u <= r]_vars
=============================================================================
