-------------------------- MODULE DnrdCacheProofs --------------------------
(***************************************************************************)
(* How stale a cached answer of dnrd can be, and how long the list is      *)
(* after an expiry pass, for every setting of the times, the water marks   *)
(* and the -c option.                                                      *)
(***************************************************************************)
EXTENDS DnrdCache, FiniteSetTheorems, SequenceTheorems, TLAPS

(* The marks cache_init leaves are in order.                               *)
MarksOrdered == 0 <= cache_lowwater /\ cache_lowwater <= cache_highwater

(* What an entry's time, limited to n by a pass, can have grown to.        *)
Bound(n) == IF since_expire = Unset THEN since_call ELSE n + since_expire

(* StalenessBounded is not inductive: how far an entry has aged beyond its *)
(* limit depends on the time since the last pass, and that one on the time *)
(* since cache_expire was called and found less than CACHE_MINCYCLE.       *)
CInv ==
  /\ TypeOK
  /\ MarksOrdered
  /\ ~cache_onoff => cachelist = <<>> /\ since_expire = Unset
  /\ since_expire <= CACHE_MINCYCLE - 1 + since_call
  /\ \A k \in 1 .. Len(cachelist) :
       /\ cachelist[k].created <= Bound(CACHE_MAXTIME)
       /\ cachelist[k].lastused <= Bound(CACHE_TIME)

-----------------------------------------------------------------------------
(* Whatever -c says, cache_init ends with 0 <= low <= high.                *)
LEMMA InitOrdersMarks ==
  ASSUME NEW p \in Param, cache_init(p)
  PROVE  MarksOrdered /\ cache_highwater \in Int /\ cache_lowwater \in Int
<1>1. CASE p \in [form : {"none", "off", "bad"}]
  BY <1>1, CacheAssumption
     DEF cache_init, GivenHigh, GivenLow, MarksOrdered
<1>2. CASE p \in [form : {"high"}, high : Nat]
  <2>1. /\ p.form = "high" /\ p.high \in Nat
    BY <1>2
  <2>2. GivenHigh(p) = p.high /\ GivenLow(p) = (p.high * 75) \div 100
    BY <2>1 DEF GivenHigh, GivenLow
  <2> QED
    BY <2>1, <2>2, CacheAssumption DEF cache_init, MarksOrdered
<1>3. CASE p \in [form : {"both"}, low : Nat, high : Int]
  <2>1. /\ p.form = "both" /\ p.low \in Nat /\ p.high \in Int
    BY <1>3
  <2>2. GivenHigh(p) = p.high /\ GivenLow(p) = p.low
    BY <2>1 DEF GivenHigh, GivenLow
  <2> QED
    BY <2>1, <2>2, CacheAssumption DEF cache_init, MarksOrdered
<1> QED
  BY <1>1, <1>2, <1>3 DEF Param

(* The daemon starts with an empty list.                                   *)
LEMMA InitCInv == Init => CInv
<1> SUFFICES ASSUME Init PROVE CInv
  OBVIOUS
<1>1. PICK p \in Params : cache_init(p)
  BY DEF Init
<1>2. MarksOrdered /\ cache_highwater \in Int /\ cache_lowwater \in Int
  BY <1>1, InitOrdersMarks, ParamsAssumption
<1>3. cache_onoff \in BOOLEAN
  BY <1>1 DEF cache_init
<1>4. TypeOK
  BY <1>2, <1>3, CacheAssumption DEF Init, TypeOK, Unset
<1> QED
  BY <1>2, <1>4, CacheAssumption DEF Init, CInv, Unset

(* Positions of the list are finitely many.                                *)
LEMMA PositionsFinite ==
  ASSUME TypeOK, NEW K \in SUBSET (1 .. Len(cachelist))
  PROVE  IsFiniteSet(K) /\ Cardinality(K) \in Nat
<1>1. Len(cachelist) \in Nat
  BY DEF TypeOK
<1>2. IsFiniteSet(1 .. Len(cachelist))
  BY <1>1, FS_Interval
<1> QED
  BY <1>2, FS_Subset, FS_CardinalityType

(* Removing entries from the list leaves entries that were there.          *)
LEMMA KeepFacts ==
  ASSUME TypeOK, NEW K \in SUBSET (1 .. Len(cachelist)), Keep(K)
  PROVE  /\ cachelist' \in Seq(Entry)
         /\ Len(cachelist') = Cardinality(K)
         /\ \A i \in 1 .. Len(cachelist') :
              \E k \in K : cachelist'[i] = cachelist[k]
<1> DEFINE n == Cardinality(K)
<1>1. n \in Nat
  BY PositionsFinite
<1>2. PICK f \in [1 .. n -> K] :
        cachelist' = [i \in 1 .. n |-> cachelist[f[i]]]
  BY DEF Keep
<1>3. \A i \in 1 .. n : f[i] \in K /\ cachelist[f[i]] \in Entry
  <2>1. \A k \in K : cachelist[k] \in Entry
    BY DEF TypeOK
  <2> HIDE DEF n
  <2> QED
    BY <1>2, <2>1
<1> HIDE DEF n
<1>4. cachelist' \in [1 .. n -> Entry]
  BY <1>2, <1>3
<1>5. cachelist' \in Seq(Entry) /\ Len(cachelist') = n
  BY <1>1, <1>4
<1> QED
  BY <1>2, <1>3, <1>5 DEF n

(* The three steps of the list; each preserves the invariant.              *)
LEMMA TickCInv == CInv /\ Tick => CInv'
<1> SUFFICES ASSUME CInv, Tick PROVE CInv'
  OBVIOUS
<1>1. /\ cachelist \in Seq(Entry) /\ Len(cachelist) \in Nat
      /\ \A k \in 1 .. Len(cachelist) : cachelist[k] \in Entry
  BY DEF CInv, TypeOK
<1>2. AgeCap \in Nat
  BY CacheAssumption DEF AgeCap
<1>3. \A e \in Entry : /\ Older(e) \in Entry
                       /\ Older(e).created <= e.created + 1
                       /\ Older(e).lastused <= e.lastused + 1
  <2> SUFFICES ASSUME NEW e \in Entry
               PROVE  /\ Older(e) \in Entry
                      /\ Older(e).created <= e.created + 1
                      /\ Older(e).lastused <= e.lastused + 1
    OBVIOUS
  <2> DEFINE c == Plus1(e.created, AgeCap)
             u == Plus1(e.lastused, AgeCap)
  <2>1. e.created \in 0 .. AgeCap /\ e.lastused \in 0 .. AgeCap
    BY DEF Entry
  <2>2. /\ c \in 0 .. AgeCap /\ c <= e.created + 1
        /\ u \in 0 .. AgeCap /\ u <= e.lastused + 1
    BY <1>2, <2>1 DEF Plus1
  <2>3. Older(e) = [[e EXCEPT !.created = c] EXCEPT !.lastused = u]
    BY DEF Older, Entry
  <2> HIDE DEF c, u
  <2>4. [e EXCEPT !.created = c] \in Entry
    BY <2>2 DEF Entry
  <2>5. Older(e) \in Entry
    BY <2>2, <2>3, <2>4 DEF Entry
  <2>6. Older(e).created = c /\ Older(e).lastused = u
    BY <2>3 DEF Entry
  <2> QED
    BY <2>2, <2>5, <2>6
<1>4. /\ cachelist' \in [1 .. Len(cachelist) -> Entry]
      /\ \A k \in 1 .. Len(cachelist) : cachelist'[k] = Older(cachelist[k])
  BY <1>1, <1>3 DEF Tick
<1>5. cachelist' \in Seq(Entry) /\ Len(cachelist') = Len(cachelist)
  BY <1>1, <1>4
<1>6. /\ since_call' = since_call + 1 /\ since_call < Gap
      /\ since_expire' = IF since_expire = Unset THEN Unset
                         ELSE since_expire + 1
      /\ UNCHANGED marks
  BY DEF Tick
<1>7. since_expire' <= CACHE_MINCYCLE - 1 + since_call'
  BY <1>6, CacheAssumption DEF CInv, TypeOK, Unset
<1>8. TypeOK'
  BY <1>5, <1>6, <1>7, CacheAssumption DEF CInv, TypeOK, Unset, marks
<1>9. ASSUME NEW k \in 1 .. Len(cachelist')
      PROVE  /\ cachelist'[k].created <= Bound(CACHE_MAXTIME)'
             /\ cachelist'[k].lastused <= Bound(CACHE_TIME)'
  <2>1. /\ cachelist[k].created <= Bound(CACHE_MAXTIME)
        /\ cachelist[k].lastused <= Bound(CACHE_TIME)
        /\ cachelist[k] \in Entry
    BY <1>1, <1>5 DEF CInv
  <2>2. /\ cachelist'[k].created <= cachelist[k].created + 1
        /\ cachelist'[k].lastused <= cachelist[k].lastused + 1
        /\ cachelist'[k] \in Entry
    BY <1>3, <1>4, <1>5, <2>1
  <2>3. /\ Bound(CACHE_MAXTIME)' = Bound(CACHE_MAXTIME) + 1
        /\ Bound(CACHE_TIME)' = Bound(CACHE_TIME) + 1
        /\ Bound(CACHE_MAXTIME) \in Int /\ Bound(CACHE_TIME) \in Int
    BY <1>6, CacheAssumption DEF Bound, CInv, TypeOK, Unset
  <2> QED
    BY <2>1, <2>2, <2>3 DEF Entry, AgeCap
<1>10. (~cache_onoff => cachelist = <<>> /\ since_expire = Unset)'
  <2>1. CASE cache_onoff
    BY <1>6, <2>1 DEF marks
  <2>2. CASE ~cache_onoff
    <3>1. cachelist = <<>> /\ since_expire = Unset
      BY <2>2 DEF CInv
    <3>2. Len(cachelist') = 0
      BY <1>5, <3>1
    <3>3. cachelist' = <<>>
      BY <1>5, <3>2, EmptySeq
    <3> QED
      BY <1>6, <3>1, <3>3
  <2> QED
    BY <2>1, <2>2
<1> QED
  BY <1>6, <1>7, <1>8, <1>9, <1>10 DEF CInv, MarksOrdered, marks

(* cache_dnspacket adds an entry that is new.                              *)
LEMMA PacketCInv ==
  ASSUME CInv, NEW key \in Keys, NEW n, cache_dnspacket(key, n)
  PROVE  CInv'
<1> DEFINE new == [key |-> key, created |-> 0, lastused |-> 0]
<1>1. UNCHANGED <<marks, since_expire, since_call>> /\ cache_onoff
  BY DEF cache_dnspacket
<1>2. CASE cachelist' = cachelist
  BY <1>1, <1>2 DEF CInv, TypeOK, MarksOrdered, Bound, marks
<1>3. CASE cachelist' = Append(cachelist, new)
  <2>1. new \in Entry
    BY CacheAssumption DEF Entry, AgeCap
  <2>2. /\ cachelist' \in Seq(Entry) /\ Len(cachelist') = Len(cachelist) + 1
        /\ Len(cachelist) \in Nat
        /\ \A k \in 1 .. Len(cachelist) : cachelist'[k] = cachelist[k]
        /\ cachelist'[Len(cachelist) + 1] = new
    BY <1>3, <2>1 DEF CInv, TypeOK
  <2>3. 0 <= Bound(CACHE_MAXTIME) /\ 0 <= Bound(CACHE_TIME)
    BY CacheAssumption DEF Bound, CInv, TypeOK, Unset
  <2>4. TypeOK'
    BY <1>1, <2>2 DEF CInv, TypeOK, marks
  <2>5. ASSUME NEW k \in 1 .. Len(cachelist')
        PROVE  /\ cachelist'[k].created <= Bound(CACHE_MAXTIME)
               /\ cachelist'[k].lastused <= Bound(CACHE_TIME)
    <3>1. CASE k \in 1 .. Len(cachelist)
      BY <2>2, <3>1 DEF CInv
    <3>2. CASE k = Len(cachelist) + 1
      BY <2>2, <2>3, <3>2
    <3> QED
      BY <2>2, <3>1, <3>2
  <2> QED
    BY <1>1, <2>4, <2>5 DEF CInv, MarksOrdered, Bound, marks
<1> QED
  BY <1>2, <1>3 DEF cache_dnspacket

(* A lookup sets the entry it finds back to just used, nothing else.       *)
LEMMA LookupCInv ==
  ASSUME CInv, NEW key \in Keys, cache_lookup(key)
  PROVE  CInv'
<1>1. UNCHANGED <<marks, since_expire, since_call>> /\ cache_onoff
  BY DEF cache_lookup
<1>2. PICK k \in 1 .. Len(cachelist) :
        cachelist' = [cachelist EXCEPT ![k].lastused = 0]
  BY DEF cache_lookup, Matches
<1>3. /\ cachelist \in Seq(Entry) /\ Len(cachelist) \in Nat
      /\ \A j \in 1 .. Len(cachelist) : cachelist[j] \in Entry
  BY DEF CInv, TypeOK
<1>4. [cachelist[k] EXCEPT !.lastused = 0] \in Entry
  <2>1. 0 \in 0 .. AgeCap
    BY CacheAssumption DEF AgeCap
  <2> QED
    BY <1>3, <2>1 DEF Entry
<1>5. /\ cachelist' \in Seq(Entry) /\ Len(cachelist') = Len(cachelist)
  BY <1>2, <1>3, <1>4
<1>6. \A j \in 1 .. Len(cachelist) :
        cachelist'[j] = IF j = k THEN [cachelist[k] EXCEPT !.lastused = 0]
                        ELSE cachelist[j]
  BY <1>2, <1>3
<1>7. 0 <= Bound(CACHE_TIME)
  BY CacheAssumption DEF Bound, CInv, TypeOK, Unset
<1>8. ASSUME NEW j \in 1 .. Len(cachelist')
      PROVE  /\ cachelist'[j].created <= Bound(CACHE_MAXTIME)
             /\ cachelist'[j].lastused <= Bound(CACHE_TIME)
  BY <1>3, <1>5, <1>6, <1>7 DEF CInv, Entry
<1>9. TypeOK'
  BY <1>1, <1>5 DEF CInv, TypeOK, marks
<1> QED
  BY <1>1, <1>8, <1>9 DEF CInv, MarksOrdered, Bound, marks

(* A pass leaves unexpired entries; a call before its time only resets the *)
(* clock of calls.                                                         *)
LEMMA ExpireCInv == CInv /\ cache_expire => CInv'
<1> SUFFICES ASSUME CInv, cache_expire PROVE CInv'
  OBVIOUS
<1>1. UNCHANGED marks /\ since_call' = 0 /\ cache_onoff
  BY DEF cache_expire
<1>2. CASE since_expire < CACHE_MINCYCLE
  <2>1. /\ since_expire' = IF since_expire = Unset THEN 0 ELSE since_expire
        /\ UNCHANGED cachelist
    BY <1>2 DEF cache_expire
  <2>2. /\ Bound(CACHE_MAXTIME) <= Bound(CACHE_MAXTIME)'
        /\ Bound(CACHE_TIME) <= Bound(CACHE_TIME)'
        /\ Bound(CACHE_MAXTIME) \in Int /\ Bound(CACHE_MAXTIME)' \in Int
        /\ Bound(CACHE_TIME) \in Int /\ Bound(CACHE_TIME)' \in Int
    BY <2>1, CacheAssumption DEF Bound, CInv, TypeOK, Unset
  <2>3. TypeOK' /\ since_expire' <= CACHE_MINCYCLE - 1 + since_call'
    BY <1>1, <1>2, <2>1, CacheAssumption DEF CInv, TypeOK, Unset, marks
  <2>4. ASSUME NEW k \in 1 .. Len(cachelist)
        PROVE  /\ cachelist[k].created <= Bound(CACHE_MAXTIME)'
               /\ cachelist[k].lastused <= Bound(CACHE_TIME)'
    <3>1. cachelist[k] \in Entry
      BY DEF CInv, TypeOK
    <3>2. cachelist[k].created \in Int /\ cachelist[k].lastused \in Int
      BY <3>1 DEF Entry
    <3> QED
      BY <2>2, <3>2 DEF CInv
  <2> QED
    BY <1>1, <2>1, <2>3, <2>4 DEF CInv, MarksOrdered, marks
<1>3. CASE ~(since_expire < CACHE_MINCYCLE)
  <2>1. PICK K \in SUBSET Live : Keep(K) /\ since_expire' = 0
    BY <1>3 DEF cache_expire
  <2>2. K \in SUBSET (1 .. Len(cachelist))
    BY DEF Live
  <2>3. /\ cachelist' \in Seq(Entry)
        /\ \A i \in 1 .. Len(cachelist') :
              \E k \in K : cachelist'[i] = cachelist[k]
    BY <2>1, <2>2, KeepFacts DEF CInv
  <2>4. \A k \in K : /\ cachelist[k].created <= CACHE_MAXTIME
                     /\ cachelist[k].lastused <= CACHE_TIME
    <3> SUFFICES ASSUME NEW k \in K
                 PROVE  /\ cachelist[k].created <= CACHE_MAXTIME
                        /\ cachelist[k].lastused <= CACHE_TIME
      OBVIOUS
    <3>1. cachelist[k] \in Entry
      BY <2>2 DEF CInv, TypeOK
    <3>2. cachelist[k].created \in Int /\ cachelist[k].lastused \in Int
      BY <3>1 DEF Entry
    <3>3. ~Expired(cachelist[k])
      BY DEF Live
    <3> QED
      BY <3>2, <3>3, CacheAssumption DEF Expired
  <2>5. /\ Bound(CACHE_MAXTIME)' = CACHE_MAXTIME
        /\ Bound(CACHE_TIME)' = CACHE_TIME
    BY <2>1, CacheAssumption DEF Bound, Unset
  <2>6. TypeOK' /\ since_expire' <= CACHE_MINCYCLE - 1 + since_call'
    BY <1>1, <2>1, <2>3, CacheAssumption DEF CInv, TypeOK, Unset, marks
  <2>7. \A i \in 1 .. Len(cachelist') :
          /\ cachelist'[i].created <= Bound(CACHE_MAXTIME)'
          /\ cachelist'[i].lastused <= Bound(CACHE_TIME)'
    BY <2>3, <2>4, <2>5
  <2> QED
    BY <1>1, <2>6, <2>7 DEF CInv, MarksOrdered, marks
<1> QED
  BY <1>2, <1>3

(* The invariant is inductive.                                             *)
LEMMA StepCInv == CInv /\ [Next]_vars => CInv'
<1> SUFFICES ASSUME CInv, [Next]_vars PROVE CInv'
  OBVIOUS
<1>1. CASE Tick
  BY <1>1, TickCInv
<1>2. CASE cache_expire
  BY <1>2, ExpireCInv
<1>3. CASE CacheOff
  <2>1. /\ cachelist' = <<>> /\ since_expire' = Unset
        /\ UNCHANGED marks /\ since_call' = 0 /\ cachelist' = cachelist
    BY <1>3 DEF CacheOff, CInv
  <2> QED
    BY <1>3, <2>1, CacheAssumption
       DEF CInv, TypeOK, MarksOrdered, Bound, marks, Unset
<1>4. ASSUME NEW key \in Keys, cache_lookup(key)
      PROVE  CInv'
  BY <1>4, LookupCInv
<1>5. ASSUME NEW key \in Keys, NEW n \in 0 .. 1, cache_dnspacket(key, n)
      PROVE  CInv'
  BY <1>5, PacketCInv
<1>6. CASE UNCHANGED vars
  BY <1>6 DEF CInv, TypeOK, MarksOrdered, Bound, vars, marks
<1> QED
  BY <1>1, <1>2, <1>3, <1>4, <1>5, <1>6 DEF Next

-----------------------------------------------------------------------------
(* Hence it holds in every behaviour of cache.c.                           *)
THEOREM CacheInvariant == Spec => []CInv
BY InitCInv, StepCInv, PTL DEF Spec

(* However often an entry is refreshed, it is gone Staleness seconds after *)
(* CACHE_MAXTIME, and Staleness seconds after CACHE_TIME without a use.    *)
THEOREM StalenessStaysBounded == Spec => []StalenessBounded
<1>1. CInv => StalenessBounded
  <2> SUFFICES ASSUME CInv, NEW k \in 1 .. Len(cachelist)
               PROVE  /\ cachelist[k].created <= CACHE_MAXTIME + Staleness
                      /\ cachelist[k].lastused <= CACHE_TIME + Staleness
    BY DEF StalenessBounded
  <2>1. cachelist[k] \in Entry
    BY DEF CInv, TypeOK
  <2>2. cachelist[k].created \in Int /\ cachelist[k].lastused \in Int
    BY <2>1 DEF Entry
  <2>3. /\ cachelist[k].created <= Bound(CACHE_MAXTIME)
        /\ cachelist[k].lastused <= Bound(CACHE_TIME)
    BY DEF CInv
  <2>4. /\ Bound(CACHE_MAXTIME) \in Int
        /\ Bound(CACHE_MAXTIME) <= CACHE_MAXTIME + Staleness
        /\ Bound(CACHE_TIME) \in Int
        /\ Bound(CACHE_TIME) <= CACHE_TIME + Staleness
        /\ Staleness \in Int
    BY CacheAssumption DEF Bound, CInv, TypeOK, Unset, Staleness
  <2> QED
    BY <2>2, <2>3, <2>4, CacheAssumption
<1> QED
  BY <1>1, CacheInvariant, PTL

(* A pass respects the water marks, whatever -c they come from.            *)
THEOREM PassKeepsMarks == Spec => PassBoundsList
<1> DEFINE Pass == since_expire' = 0 /\ since_expire >= CACHE_MINCYCLE
           Marks == /\ Len(cachelist') <= cache_highwater
                    /\ Len(cachelist') =
                         IF Cardinality(Live) > cache_highwater
                         THEN cache_lowwater ELSE Cardinality(Live)
<1>1. CInv /\ [Next]_vars => [Pass => Marks]_vars
  <2> SUFFICES ASSUME CInv, Next, Pass PROVE Marks
    OBVIOUS
  <2>1. cache_expire
    <3>1. ~Tick
      BY CacheAssumption DEF Tick, CInv, TypeOK, Unset
    <3>2. since_expire' # since_expire
      BY CacheAssumption
    <3> QED
      BY <3>1, <3>2 DEF Next, CacheOff, cache_lookup, cache_dnspacket
  <2>2. /\ ~(since_expire < CACHE_MINCYCLE)
        /\ Live \in SUBSET (1 .. Len(cachelist))
        /\ TypeOK /\ MarksOrdered
    BY CacheAssumption DEF Live, CInv, TypeOK, Unset
  <2>3. Cardinality(Live) \in Nat
    BY <2>2, PositionsFinite
  <2>4. CASE Cardinality(Live) > cache_highwater
    <3>1. PICK K \in SUBSET Live : expire_oldest(K) /\ Keep(K)
      BY <2>1, <2>2, <2>4 DEF cache_expire
    <3>2. Len(cachelist') = Cardinality(K)
      BY <2>2, <3>1, KeepFacts
    <3> QED
      BY <2>2, <2>4, <3>1, <3>2 DEF expire_oldest, MarksOrdered, TypeOK
  <2>5. CASE ~(Cardinality(Live) > cache_highwater)
    <3>1. Keep(Live)
      BY <2>1, <2>2, <2>5 DEF cache_expire
    <3>2. Len(cachelist') = Cardinality(Live)
      BY <2>2, <3>1, KeepFacts
    <3> QED
      BY <2>2, <2>3, <2>5, <3>2 DEF TypeOK
  <2> QED
    BY <2>4, <2>5
<1> QED
  BY <1>1, CacheInvariant, PTL DEF Spec, PassBoundsList

(* The cache's types hold throughout, entries and marks included.          *)
THEOREM CacheTypeCorrect == Spec => []TypeOK
<1>1. CInv => TypeOK
  BY DEF CInv
<1> QED
  BY <1>1, CacheInvariant, PTL
=============================================================================
