-------------------------- MODULE DnrdQueryProofs --------------------------
(***************************************************************************)
(* The query list and the identifier pool of dnrd, for every pool size,    *)
(* socket limit, set of clients, servers and domains.                      *)
(***************************************************************************)
EXTENDS DnrdQuery, SequenceTheorems, TLAPS

(* The inductive invariant: the three safety properties support each other *)
(* (a returned identifier is stored inside the pool only because nothing   *)
(* leaked, a new one is fresh only because the free part holds none of the *)
(* listed ones).                                                           *)
QInv == QTypeOK /\ QidsUnused /\ NothingLeaks /\ ClientQidsDistinct

-----------------------------------------------------------------------------
(* Removing the node at k from a list.                                     *)
LEMMA RemoveAtFacts ==
  ASSUME NEW S, NEW seq \in Seq(S), NEW k \in 1 .. Len(seq)
  PROVE  /\ RemoveAt(seq, k) \in Seq(S)
         /\ Len(RemoveAt(seq, k)) = Len(seq) - 1
         /\ \A j \in 1 .. Len(seq) - 1 :
              RemoveAt(seq, k)[j] = IF j < k THEN seq[j] ELSE seq[j + 1]
<1> DEFINE s1 == SubSeq(seq, 1, k - 1)
           s2 == SubSeq(seq, k + 1, Len(seq))
<1>0. Len(seq) \in Nat /\ \A i \in 1 .. Len(seq) : seq[i] \in S
  BY ElementOfSeq, LenProperties
<1>1. /\ s1 \in Seq(S) /\ Len(s1) = k - 1
      /\ \A i \in 1 .. k - 1 : s1[i] = seq[i]
  <2>1. \A i \in 1 .. k - 1 : seq[i] \in S
    BY <1>0
  <2>2. /\ SubSeq(seq, 1, k - 1) \in Seq(S)
        /\ Len(SubSeq(seq, 1, k - 1)) = IF 1 <= k - 1 THEN k - 1 - 1 + 1 ELSE 0
        /\ \A i \in 1 .. k - 1 - 1 + 1 : SubSeq(seq, 1, k - 1)[i] = seq[1 + i - 1]
    BY <1>0, <2>1, SubSeqProperties
  <2> QED
    BY <1>0, <2>2
<1>2. /\ s2 \in Seq(S) /\ Len(s2) = Len(seq) - k
      /\ \A i \in 1 .. Len(seq) - k : s2[i] = seq[k + i]
  <2>1. \A i \in k + 1 .. Len(seq) : seq[i] \in S
    BY <1>0
  <2>2. /\ SubSeq(seq, k + 1, Len(seq)) \in Seq(S)
        /\ Len(SubSeq(seq, k + 1, Len(seq)))
             = IF k + 1 <= Len(seq) THEN Len(seq) - (k + 1) + 1 ELSE 0
        /\ \A i \in 1 .. Len(seq) - (k + 1) + 1 :
             SubSeq(seq, k + 1, Len(seq))[i] = seq[k + 1 + i - 1]
    BY <1>0, <2>1, SubSeqProperties
  <2> QED
    BY <1>0, <2>2
<1>3. /\ s1 \o s2 \in Seq(S)
      /\ Len(s1 \o s2) = Len(s1) + Len(s2)
      /\ \A i \in 1 .. Len(s1) + Len(s2) :
           (s1 \o s2)[i] = IF i <= Len(s1) THEN s1[i] ELSE s2[i - Len(s1)]
  <2> HIDE DEF s1, s2
  <2> QED
    BY <1>1, <1>2, ConcatProperties
<1> HIDE DEF s1, s2
<1>4. ASSUME NEW j \in 1 .. Len(seq) - 1
      PROVE  (s1 \o s2)[j] = IF j < k THEN seq[j] ELSE seq[j + 1]
  <2>1. CASE j < k
    BY <1>0, <1>1, <1>2, <1>3, <2>1
  <2>2. CASE ~(j < k)
    <3>1. j - Len(s1) \in 1 .. Len(seq) - k /\ ~(j <= Len(s1))
      BY <1>0, <1>1, <2>2
    <3>2. (s1 \o s2)[j] = s2[j - Len(s1)]
      BY <1>0, <1>1, <1>2, <1>3, <3>1
    <3>3. k + (j - Len(s1)) = j + 1
      BY <1>0, <1>1
    <3> QED
      BY <1>2, <2>2, <3>1, <3>2, <3>3
  <2> QED
    BY <2>1, <2>2
<1>5. RemoveAt(seq, k) = s1 \o s2
  BY DEF RemoveAt, s1, s2
<1> QED
  BY <1>0, <1>1, <1>2, <1>3, <1>4, <1>5

(* A list of queries and its nodes.                                        *)
LEMMA NodeFacts ==
  ASSUME QTypeOK
  PROVE  /\ Len(qlist) \in Nat
         /\ DOMAIN qlist = 1 .. Len(qlist)
         /\ \A k \in 1 .. Len(qlist) : qlist[k] \in Query
BY LenProperties, ElementOfSeq DEF QTypeOK

-----------------------------------------------------------------------------
(* The empty list and the pool filled by qid_init_pool.                    *)
LEMMA InitEstablishes == QInit => QInv
<1> SUFFICES ASSUME QInit PROVE QInv
  OBVIOUS
<1>1. qlist \in Seq(Query) /\ Len(qlist) = 0
  BY DEF QInit
<1>2. QTypeOK
  BY <1>1, SizesAssumption DEF QInit, QTypeOK, Slots
<1>3. QidsUnused
  BY <1>1, SizesAssumption DEF QInit, QidsUnused, Slots, myrand
<1>4. NothingLeaks /\ ClientQidsDistinct
  BY <1>1, SizesAssumption DEF QInit, NothingLeaks, ClientQidsDistinct
<1> QED
  BY <1>2, <1>3, <1>4 DEF QInv

(* query_add with query_create: the identifier taken from slot i of the    *)
(* free part is unused, and the last free one moves into the hole.         *)
LEMMA AddPreserves ==
  ASSUME QInv,
         NEW d \in Domains \cup {NULL}, NEW s \in Servers,
         NEW c \in Clients \cup {NULL}, NEW id \in Ids, NEW i \in myrand,
         NEW ttl \in {ForwardTimeout, ReactivateInterval},
         NEW out \in SUBSET Servers,
         query_add(d, s, c, id, i, ttl, out)
  PROVE  QInv'
<1> DEFINE new == [ srv |-> s, dom |-> d, client |-> c, client_qid |-> id,
                    my_qid |-> qid_pool[i], age |-> 0, ttl |-> ttl,
                    out |-> out ]
           n == Len(qlist)
<1>0. /\ n \in Nat
      /\ \A k \in 1 .. n : qlist[k] \in Query
      /\ pool_ptr \in Int /\ PoolSize \in Nat \ {0} /\ MaxSockets \in Nat
      /\ qid_pool \in [Slots -> Slots]
      /\ i \in 0 .. pool_ptr /\ pool_ptr < PoolSize
      /\ i \in Slots /\ pool_ptr \in Slots
  <2>1. QTypeOK
    BY DEF QInv
  <2>2. n \in Nat /\ \A k \in 1 .. n : qlist[k] \in Query
    BY <2>1, NodeFacts
  <2>3. /\ pool_ptr \in -1 .. PoolSize - 1 /\ PoolSize \in Nat \ {0}
        /\ MaxSockets \in Nat
    BY <2>1, SizesAssumption DEF QTypeOK
  <2>4. qid_pool \in [Slots -> Slots]
    BY <2>1 DEF QTypeOK
  <2>5. i \in 0 .. pool_ptr
    BY DEF myrand
  <2>6. pool_ptr \in Int /\ pool_ptr < PoolSize /\ 0 <= pool_ptr
    BY <2>3, <2>5
  <2>7. i \in Slots /\ pool_ptr \in Slots
    BY <2>3, <2>5, <2>6 DEF Slots
  <2> QED
    BY <2>2, <2>3, <2>4, <2>5, <2>6, <2>7
<1>1. new \in Query
  <2>1. AgeCap \in Nat
    BY TimesAssumption DEF AgeCap
  <2>2. qid_pool[i] \in Slots
    BY <1>0
  <2> QED
    BY <2>1, <2>2 DEF Query
<1>2. /\ qlist' \in Seq(Query)
      /\ Len(qlist') = n + 1
      /\ \A k \in 1 .. n : qlist'[k] = qlist[k]
      /\ qlist'[n + 1] = new
  <2>1. qlist' = Append(qlist, new) /\ qlist \in Seq(Query)
    BY DEF query_add, QInv, QTypeOK
  <2> HIDE DEF new
  <2> QED
    BY <1>0, <1>1, <2>1
<1>3. /\ qid_pool' = [qid_pool EXCEPT ![i] = qid_pool[pool_ptr]]
      /\ pool_ptr' = pool_ptr - 1
      /\ upstream_sockets' = upstream_sockets + 1
      /\ upstream_sockets < MaxSockets
  BY DEF query_add, query_create, qid_get
<1>4. new.my_qid = qid_pool[i] /\ new.client_qid = id
  OBVIOUS
<1>5. \A k \in 1 .. n : qlist[k].client_qid # id
  BY DEF query_add, InList
<1> HIDE DEF new
<1>6. QTypeOK'
  <2>1. qid_pool' \in [Slots -> Slots]
    BY <1>0, <1>3
  <2>2. pool_ptr' \in -1 .. PoolSize - 1
    BY <1>0, <1>3
  <2>3. upstream_sockets' \in 0 .. MaxSockets
    BY <1>0, <1>3 DEF QInv, QTypeOK
  <2> QED
    BY <1>2, <2>1, <2>2, <2>3 DEF QTypeOK
<1>7. QidsUnused'
  <2>0. 0 .. pool_ptr - 1 \subseteq Slots
    BY <1>0 DEF Slots
  <2>1. \A j \in 0 .. pool_ptr - 1 :
          qid_pool'[j] = IF j = i THEN qid_pool[pool_ptr] ELSE qid_pool[j]
    BY <1>0, <1>3, <2>0
  <2>2. \A j, k \in 1 .. n + 1 : j # k => qlist'[j].my_qid # qlist'[k].my_qid
    BY <1>0, <1>2, <1>4 DEF QInv, QidsUnused, myrand
  <2>3. \A k \in 1 .. n + 1, j \in 0 .. pool_ptr - 1 :
          qlist'[k].my_qid # qid_pool'[j]
    BY <1>0, <1>2, <1>4, <2>1 DEF QInv, QidsUnused, myrand
  <2>4. \A j, k \in 0 .. pool_ptr - 1 : j # k => qid_pool'[j] # qid_pool'[k]
    BY <1>0, <2>1 DEF QInv, QidsUnused, myrand
  <2> QED
    BY <1>2, <1>3, <2>2, <2>3, <2>4 DEF QidsUnused, myrand
<1>8. NothingLeaks'
  <2>1. upstream_sockets = n /\ pool_ptr + 1 + n = PoolSize
    BY DEF QInv, NothingLeaks
  <2>2. /\ upstream_sockets' = Len(qlist')
        /\ pool_ptr' + 1 + Len(qlist') = PoolSize
    BY <1>0, <1>2, <1>3, <2>1
  <2> QED
    BY <2>2 DEF NothingLeaks
<1>9. ClientQidsDistinct'
  <2>1. \A j, k \in 1 .. n : j # k => qlist[j].client_qid # qlist[k].client_qid
    BY DEF QInv, ClientQidsDistinct
  <2>2. \A j, k \in 1 .. n + 1 :
          j # k => qlist'[j].client_qid # qlist'[k].client_qid
    BY <1>0, <1>2, <1>4, <1>5, <2>1
  <2> QED
    BY <1>2, <2>2 DEF ClientQidsDistinct
<1> QED
  BY <1>6, <1>7, <1>8, <1>9 DEF QInv

(* query_add finding the identifier: only a node's clock, ttl and          *)
(* destinations change.                                                    *)
LEMMA FoundPreserves ==
  ASSUME QInv,
         NEW k \in 1 .. Len(qlist),
         NEW ttl \in {ForwardTimeout, ReactivateInterval},
         NEW out \in SUBSET Servers,
         query_found(k, ttl, out)
  PROVE  QInv'
<1> DEFINE q == [qlist[k] EXCEPT !.age = 0, !.ttl = ttl, !.out = @ \cup out]
           n == Len(qlist)
<1>0. n \in Nat /\ qlist \in Seq(Query) /\ \A j \in 1 .. n : qlist[j] \in Query
  BY NodeFacts DEF QInv, QTypeOK
<1>1. /\ q \in Query
      /\ q.my_qid = qlist[k].my_qid /\ q.client_qid = qlist[k].client_qid
  <2>1. AgeCap \in Nat /\ qlist[k] \in Query
    BY <1>0, TimesAssumption DEF AgeCap
  <2>2. qlist[k].out \cup out \in SUBSET Servers
    BY <2>1 DEF Query
  <2>3. ASSUME NEW r \in Query, NEW x \in SUBSET Servers
        PROVE  [r EXCEPT !.age = 0, !.ttl = ttl, !.out = x] \in Query
    <3>1. [r EXCEPT !.age = 0] \in Query
      BY <2>1 DEF Query
    <3>2. \A y \in Query : [y EXCEPT !.ttl = ttl] \in Query
      BY DEF Query
    <3>3. \A y \in Query : [y EXCEPT !.out = x] \in Query
      BY DEF Query
    <3> QED
      BY <3>1, <3>2, <3>3
  <2>4. q = [qlist[k] EXCEPT !.age = 0, !.ttl = ttl, !.out = qlist[k].out \cup out]
    BY <2>1 DEF Query
  <2>5. q.my_qid = qlist[k].my_qid /\ q.client_qid = qlist[k].client_qid
    BY <2>1 DEF Query
  <2> QED
    BY <2>1, <2>2, <2>3, <2>4, <2>5
<1>2. qlist' = [qlist EXCEPT ![k] = q]
  BY <1>0 DEF query_found, Query
<1> HIDE DEF q
<1>3. /\ qlist' \in Seq(Query) /\ Len(qlist') = n
      /\ \A j \in 1 .. n : qlist'[j] = IF j = k THEN q ELSE qlist[j]
  BY <1>0, <1>1, <1>2, ExceptSeq
<1>4. \A j \in 1 .. n : /\ qlist'[j].my_qid = qlist[j].my_qid
                        /\ qlist'[j].client_qid = qlist[j].client_qid
  BY <1>1, <1>3
<1>5. UNCHANGED <<qid_pool, pool_ptr, upstream_sockets>>
  BY DEF query_found
<1>6. QTypeOK'
  BY <1>3, <1>5 DEF QInv, QTypeOK
<1>7. QidsUnused'
  BY <1>3, <1>4, <1>5 DEF QInv, QidsUnused, myrand
<1>8. NothingLeaks' /\ ClientQidsDistinct'
  BY <1>3, <1>4, <1>5 DEF QInv, NothingLeaks, ClientQidsDistinct
<1> QED
  BY <1>6, <1>7, <1>8 DEF QInv

(* query_delete_next with query_destroy: the identifier goes to the first  *)
(* slot beyond the free part, which lies inside the pool since a node is   *)
(* listed.                                                                 *)
LEMMA DeletePreserves ==
  ASSUME QInv, NEW k \in 1 .. Len(qlist), query_delete(k)
  PROVE  QInv'
<1> DEFINE n == Len(qlist)
           top == pool_ptr + 1
<1>0. /\ n \in Nat /\ n > 0
      /\ qlist \in Seq(Query)
      /\ \A j \in 1 .. n : qlist[j] \in Query
      /\ PoolSize \in Nat \ {0} /\ MaxSockets \in Nat
      /\ pool_ptr \in Int /\ pool_ptr >= -1
      /\ upstream_sockets = n /\ top + n = PoolSize /\ n <= MaxSockets
      /\ qid_pool \in [Slots -> Slots]
  BY NodeFacts, SizesAssumption DEF QInv, QTypeOK, NothingLeaks
<1>1. top \in 0 .. PoolSize - 1 /\ top % PoolSize = top
  BY <1>0
<1>2. /\ qlist' \in Seq(Query) /\ Len(qlist') = n - 1
      /\ \A j \in 1 .. n - 1 : qlist'[j] = IF j < k THEN qlist[j] ELSE qlist[j + 1]
  BY <1>0, RemoveAtFacts DEF query_delete
<1>3. /\ qid_pool' = [qid_pool EXCEPT ![top] = qlist[k].my_qid]
      /\ pool_ptr' = top
      /\ upstream_sockets' = upstream_sockets - 1
  BY <1>1 DEF query_delete, qid_return
<1>4. qlist[k].my_qid \in Slots
  BY <1>0 DEF Query
<1>5. QTypeOK'
  <2>1. qid_pool' \in [Slots -> Slots]
    BY <1>0, <1>1, <1>3, <1>4 DEF Slots
  <2>2. pool_ptr' \in -1 .. PoolSize - 1
    BY <1>0, <1>1, <1>3
  <2>3. upstream_sockets' \in 0 .. MaxSockets
    BY <1>0, <1>3
  <2> QED
    BY <1>2, <2>1, <2>2, <2>3 DEF QTypeOK
<1>6. QidsUnused'
  <2>0. /\ \A j \in 0 .. top : j \in Slots
        /\ \A j \in 0 .. top : j # top => j \in 0 .. pool_ptr
    <3>1. pool_ptr \in Int /\ PoolSize \in Nat
      BY <1>0
    <3>2. \A j \in 0 .. top : j \in 0 .. PoolSize - 1
      BY <1>1, <3>1
    <3>3. \A j \in 0 .. top : j # top => j \in 0 .. pool_ptr
      BY <3>1
    <3> QED
      BY <3>2, <3>3 DEF Slots
  <2>1. \A j \in 0 .. top :
          qid_pool'[j] = IF j = top THEN qlist[k].my_qid ELSE qid_pool[j]
    <3>1. qid_pool \in [Slots -> Slots]
      BY <1>0
    <3> QED
      BY <1>3, <2>0, <3>1
  <2>2. \A j, m \in 1 .. n - 1 : j # m => qlist'[j].my_qid # qlist'[m].my_qid
    <3> SUFFICES ASSUME NEW j \in 1 .. n - 1, NEW m \in 1 .. n - 1, j # m
                 PROVE  qlist'[j].my_qid # qlist'[m].my_qid
      OBVIOUS
    <3> DEFINE at(x) == IF x < k THEN x ELSE x + 1
    <3>1. at(j) \in 1 .. n /\ at(m) \in 1 .. n /\ at(j) # at(m)
      BY <1>0
    <3>2. qlist'[j] = qlist[at(j)] /\ qlist'[m] = qlist[at(m)]
      BY <1>2
    <3> HIDE DEF at
    <3> QED
      BY <3>1, <3>2 DEF QInv, QidsUnused
  <2>3. \A m \in 1 .. n - 1, j \in 0 .. top : qlist'[m].my_qid # qid_pool'[j]
    <3>1. \A m \in 1 .. n - 1 : qlist'[m].my_qid # qlist[k].my_qid
      BY <1>0, <1>2 DEF QInv, QidsUnused
    <3>2. \A m \in 1 .. n - 1, j \in 0 .. pool_ptr : qlist'[m].my_qid # qid_pool[j]
      BY <1>0, <1>2 DEF QInv, QidsUnused, myrand
    <3> QED
      BY <2>0, <2>1, <3>1, <3>2
  <2>4. \A j, m \in 0 .. top : j # m => qid_pool'[j] # qid_pool'[m]
    <3>1. \A j \in 0 .. pool_ptr : qlist[k].my_qid # qid_pool[j]
      BY DEF QInv, QidsUnused, myrand
    <3>2. \A j, m \in 0 .. pool_ptr : j # m => qid_pool[j] # qid_pool[m]
      BY DEF QInv, QidsUnused, myrand
    <3> QED
      BY <2>0, <2>1, <3>1, <3>2
  <2> QED
    BY <1>2, <1>3, <2>2, <2>3, <2>4 DEF QidsUnused, myrand
<1>7. NothingLeaks'
  <2>1. /\ upstream_sockets' = Len(qlist')
        /\ pool_ptr' + 1 + Len(qlist') = PoolSize
    BY <1>0, <1>2, <1>3
  <2> QED
    BY <2>1 DEF NothingLeaks
<1>8. ClientQidsDistinct'
  <2>1. \A j, m \in 1 .. n : j # m => qlist[j].client_qid # qlist[m].client_qid
    BY DEF QInv, ClientQidsDistinct
  <2>2. ASSUME NEW j \in 1 .. n - 1, NEW m \in 1 .. n - 1, j # m
        PROVE  qlist'[j].client_qid # qlist'[m].client_qid
    <3> DEFINE at(x) == IF x < k THEN x ELSE x + 1
    <3>1. at(j) \in 1 .. n /\ at(m) \in 1 .. n /\ at(j) # at(m)
      BY <1>0, <2>2
    <3>2. qlist'[j] = qlist[at(j)] /\ qlist'[m] = qlist[at(m)]
      BY <1>2
    <3> HIDE DEF at
    <3> QED
      BY <2>1, <3>1, <3>2
  <2> QED
    BY <1>2, <2>2 DEF ClientQidsDistinct
<1> QED
  BY <1>5, <1>6, <1>7, <1>8 DEF QInv

(* query_add undone in the same handler: two slots of the free part are    *)
(* exchanged.                                                              *)
LEMMA BouncePreserves ==
  ASSUME QInv, NEW id \in Ids, NEW i \in myrand, query_bounce(id, i)
  PROVE  QInv'
<1>0. /\ pool_ptr \in Int /\ PoolSize \in Nat \ {0}
      /\ qid_pool \in [Slots -> Slots]
      /\ i \in 0 .. pool_ptr /\ pool_ptr < PoolSize
      /\ i \in Slots /\ pool_ptr \in Slots
      /\ \A j \in 0 .. pool_ptr : j \in Slots
  BY SizesAssumption DEF QInv, QTypeOK, myrand, Slots
<1>1. UNCHANGED <<qlist, pool_ptr, upstream_sockets>>
  BY DEF query_bounce
<1>2. /\ qid_pool' \in [Slots -> Slots]
      /\ \A j \in 0 .. pool_ptr :
           qid_pool'[j] = IF j = pool_ptr THEN qid_pool[i]
                          ELSE IF j = i THEN qid_pool[pool_ptr]
                          ELSE qid_pool[j]
  BY <1>0 DEF query_bounce
<1>3. QTypeOK'
  BY <1>1, <1>2 DEF QInv, QTypeOK
<1>4. QidsUnused'
  <2>1. \A k \in 1 .. Len(qlist), j \in 0 .. pool_ptr :
          qlist[k].my_qid # qid_pool'[j]
    BY <1>0, <1>2 DEF QInv, QidsUnused, myrand
  <2>2. \A j, m \in 0 .. pool_ptr : j # m => qid_pool'[j] # qid_pool'[m]
    BY <1>0, <1>2 DEF QInv, QidsUnused, myrand
  <2> QED
    BY <1>1, <2>1, <2>2 DEF QInv, QidsUnused, myrand
<1>5. NothingLeaks' /\ ClientQidsDistinct'
  BY <1>1 DEF QInv, NothingLeaks, ClientQidsDistinct
<1> QED
  BY <1>3, <1>4, <1>5 DEF QInv

(* The clock changes no identifier.                                        *)
LEMMA TickPreserves ==
  ASSUME QInv, query_tick
  PROVE  QInv'
<1> DEFINE n == Len(qlist)
<1>0. n \in Nat /\ \A j \in 1 .. n : qlist[j] \in Query
  BY NodeFacts DEF QInv
<1>1. \A q \in Query : /\ Older(q) \in Query
                       /\ Older(q).my_qid = q.my_qid
                       /\ Older(q).client_qid = q.client_qid
  <2>1. AgeCap \in Nat
    BY TimesAssumption DEF AgeCap
  <2>2. ASSUME NEW q \in Query PROVE q.age \in 0 .. AgeCap
    BY DEF Query
  <2>3. \A q \in Query, a \in 0 .. AgeCap :
          /\ [q EXCEPT !.age = a] \in Query
          /\ [q EXCEPT !.age = a].my_qid = q.my_qid
          /\ [q EXCEPT !.age = a].client_qid = q.client_qid
    BY DEF Query
  <2>4. ASSUME NEW q \in Query
        PROVE  (IF q.age < AgeCap THEN q.age + 1 ELSE q.age) \in 0 .. AgeCap
    BY <2>1, <2>2
  <2>5. ASSUME NEW q \in Query
        PROVE  Older(q) = [q EXCEPT !.age = IF q.age < AgeCap THEN q.age + 1
                                            ELSE q.age]
    BY DEF Older, Query
  <2>6. \A q \in Query : \E a \in 0 .. AgeCap : Older(q) = [q EXCEPT !.age = a]
    BY <2>4, <2>5
  <2> SUFFICES ASSUME NEW q \in Query
               PROVE  /\ Older(q) \in Query
                      /\ Older(q).my_qid = q.my_qid
                      /\ Older(q).client_qid = q.client_qid
    OBVIOUS
  <2>7. PICK a \in 0 .. AgeCap : Older(q) = [q EXCEPT !.age = a]
    BY <2>6
  <2> QED
    BY <2>3, <2>7, Zenon
<1>2. /\ qlist' = [k \in 1 .. n |-> Older(qlist[k])]
      /\ UNCHANGED <<qid_pool, pool_ptr, upstream_sockets>>
  BY DEF query_tick
<1>3. qlist' \in [1 .. n -> Query]
  BY <1>0, <1>1, <1>2
<1>4. qlist' \in Seq(Query)
  BY <1>0, <1>3, SeqDef
<1>5. Len(qlist') = n
  <2>1. DOMAIN qlist' = 1 .. Len(qlist') /\ Len(qlist') \in Nat
    BY <1>4, LenProperties
  <2>2. 1 .. Len(qlist') = 1 .. n
    BY <1>3, <2>1
  <2> QED
    BY <1>0, <2>1, <2>2
<1>6. \A j \in 1 .. n : /\ qlist'[j].my_qid = qlist[j].my_qid
                        /\ qlist'[j].client_qid = qlist[j].client_qid
  BY <1>0, <1>1, <1>2
<1>7. QTypeOK'
  BY <1>2, <1>4 DEF QInv, QTypeOK
<1>8. QidsUnused'
  BY <1>2, <1>5, <1>6 DEF QInv, QidsUnused, myrand
<1>9. NothingLeaks' /\ ClientQidsDistinct'
  BY <1>2, <1>5, <1>6 DEF QInv, NothingLeaks, ClientQidsDistinct
<1> QED
  BY <1>7, <1>8, <1>9 DEF QInv

-----------------------------------------------------------------------------
(* Every operation on the list preserves the inductive invariant.          *)
LEMMA StepPreserves == QInv /\ [QNext]_qvars => QInv'
<1> SUFFICES ASSUME QInv, [QNext]_qvars PROVE QInv'
  OBVIOUS
<1>1. CASE \E d \in Domains \cup {NULL}, s \in Servers,
              c \in Clients \cup {NULL}, id \in Ids, i \in myrand,
              ttl \in {ForwardTimeout, ReactivateInterval},
              out \in SUBSET Servers : query_add(d, s, c, id, i, ttl, out)
  BY <1>1, AddPreserves
<1>2. CASE \E k \in 1 .. Len(qlist),
              ttl \in {ForwardTimeout, ReactivateInterval},
              out \in SUBSET Servers : query_found(k, ttl, out)
  BY <1>2, FoundPreserves
<1>3. CASE \E k \in 1 .. Len(qlist) : query_delete(k)
  BY <1>3, DeletePreserves
<1>4. CASE \E id \in Ids, i \in myrand : query_bounce(id, i)
  BY <1>4, BouncePreserves
<1>5. CASE query_tick
  BY <1>5, TickPreserves
<1>6. CASE UNCHANGED qvars
  BY <1>6 DEF qvars, QInv, QTypeOK, QidsUnused, NothingLeaks,
              ClientQidsDistinct, myrand
<1> QED
  BY <1>1, <1>2, <1>3, <1>4, <1>5, <1>6 DEF QNext

(* Hence it holds throughout every behaviour of query.c and qid.c.         *)
THEOREM ListInvariant == QSpec => []QInv
BY InitEstablishes, StepPreserves, PTL DEF QSpec

(* query.c:115 "get an unused QID": however queries are added, repeated,   *)
(* answered, rejected and timed out, no identifier is in use twice.        *)
THEOREM QidsStayUnused == QSpec => []QidsUnused
<1>1. QInv => QidsUnused
  BY DEF QInv
<1> QED
  BY <1>1, ListInvariant, PTL

(* The socket counter equals the number of nodes, stays within max_sockets *)
(* by the type invariant, and every identifier is free or listed.          *)
THEOREM NothingEverLeaks == QSpec => [](QTypeOK /\ NothingLeaks)
<1>1. QInv => QTypeOK /\ NothingLeaks
  BY DEF QInv
<1> QED
  BY <1>1, ListInvariant, PTL

(* query_add's search on client_qid leaves no two nodes with the same one. *)
THEOREM ClientQidsStayDistinct == QSpec => []ClientQidsDistinct
<1>1. QInv => ClientQidsDistinct
  BY DEF QInv
<1> QED
  BY <1>1, ListInvariant, PTL
=============================================================================
