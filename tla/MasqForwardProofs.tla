------------------------- MODULE MasqForwardProofs -------------------------
(***************************************************************************)
(* Every step of dnsmasq's forwarding keeps its invariant (FInv of         *)
(* MasqForwardLemmas), and what follows from it.                           *)
(***************************************************************************)
EXTENDS MasqForwardLemmas

(* What get_new_frec may return: a record within the table or, while it    *)
(* may grow, one past its end; it frees records in use.                    *)
LEMMA OutcomeFacts ==
  ASSUME TypeOK, NEW o \in get_new_frec
  PROVE  /\ o.freed \in SUBSET InUse
         /\ \/ o = Nothing
            \/ /\ o.at \in 1 .. Len(frec_list) + 1
               /\ o.at > Len(frec_list) => Len(frec_list) <= ftabsize
         /\ o = Grown => Swept = {} /\ Len(frec_list) <= ftabsize
<1> DEFINE old == {k \in Oldest : frec_list[k].age >= TIMEOUT}
<1>1. /\ Len(frec_list) \in Nat /\ Swept \subseteq InUse /\ old \subseteq InUse
      /\ InUse \subseteq 1 .. Len(frec_list)
      /\ Vacant \subseteq 1 .. Len(frec_list)
  BY RecordFacts DEF Swept, Oldest, Vacant
<1>2. CASE Swept \cup Vacant # {}
  <2>1. PICK k \in Swept \cup Vacant : o = [at |-> k, freed |-> Swept]
    BY <1>2 DEF get_new_frec
  <2>2. o.at = k /\ o.freed = Swept /\ k \in 1 .. Len(frec_list)
    BY <1>1, <2>1
  <2>3. o # Grown
    BY <1>1, <2>2 DEF Grown
  <2> QED
    BY <1>1, <2>2, <2>3
<1>3. CASE Swept \cup Vacant = {} /\ old # {}
  <2>1. \/ \E k \in old : o = [at |-> k, freed |-> {k}]
        \/ o = Grown /\ Len(frec_list) <= ftabsize
    BY <1>3 DEF get_new_frec
  <2>2. ASSUME NEW k \in old, o = [at |-> k, freed |-> {k}]
        PROVE  /\ o.at = k /\ o.freed = {k} /\ k \in InUse
               /\ k \in 1 .. Len(frec_list) /\ o # Grown
    BY <1>1, <2>2, Zenon DEF Grown
  <2>3. ASSUME o = Grown PROVE o.at = Len(frec_list) + 1 /\ o.freed = {}
    BY <2>3 DEF Grown
  <2> HIDE DEF old
  <2> QED
    BY <1>1, <1>3, <2>1, <2>2, <2>3
<1>4. CASE Swept \cup Vacant = {} /\ old = {}
  <2>1. o = Nothing \/ (o = Grown /\ Len(frec_list) <= ftabsize)
    BY <1>4 DEF get_new_frec
  <2>2. ASSUME o = Grown PROVE o.at = Len(frec_list) + 1 /\ o.freed = {}
    BY <2>2 DEF Grown
  <2>3. Nothing.freed = {} /\ Nothing # Grown
    BY <1>1, ForwardAssumption DEF Nothing, Grown
  <2> QED
    BY <1>1, <1>4, <2>1, <2>2, <2>3
<1> QED
  BY <1>2, <1>3, <1>4

-----------------------------------------------------------------------------
(* The sweep before select() frees records with their references.          *)
LEMMA ListenersFInv == FInv /\ set_dns_listeners => FInv'
<1> SUFFICES ASSUME FInv, set_dns_listeners PROVE FInv'
  OBVIOUS
<1>0. TypeOK /\ TableBounded /\ Len(frec_list) \in Nat /\ ftabsize \in Nat
  BY RecordFacts, ForwardAssumption DEF FInv, RefCountsExact
<1>1. PICK o \in get_new_frec :
        /\ listening' = (o.at # NULL)
        /\ frec_list' = IF o = Grown THEN Append(frec_list, NULL)
                        ELSE [k \in 1 .. Len(frec_list) |->
                                IF k \in Swept THEN NULL ELSE frec_list[k]]
  BY DEF set_dns_listeners
<1>2. Swept \in SUBSET InUse /\ InUse \subseteq 1 .. Len(frec_list)
  BY <1>0, RecordFacts DEF Swept
<1>3. \A k \in 1 .. Len(frec_list) : frec_list[k] \in Frec \cup {NULL}
  BY <1>0 DEF TypeOK
<1>4. /\ frec_list' \in Seq(Frec \cup {NULL}) /\ Len(frec_list') <= ftabsize + 1
      /\ InUse' = InUse \ Swept
      /\ \A k \in InUse' : frec_list'[k] = frec_list[k]
  <2>1. CASE o = Grown
    <3>1. frec_list' = Append(frec_list, NULL) /\ Swept = {} /\ Len(frec_list) <= ftabsize
      BY <1>0, <1>1, <2>1, OutcomeFacts
    <3>2. /\ frec_list' \in Seq(Frec \cup {NULL})
          /\ Len(frec_list') = Len(frec_list) + 1
          /\ \A k \in 1 .. Len(frec_list) : frec_list'[k] = frec_list[k]
          /\ frec_list'[Len(frec_list) + 1] = NULL
      BY <1>0, <3>1 DEF TypeOK
    <3>3. InUse' = InUse
      BY <1>0, <3>2 DEF InUse
    <3> QED
      BY <1>0, <1>2, <3>1, <3>2, <3>3
  <2>2. CASE o # Grown
    <3>1. frec_list' = [k \in 1 .. Len(frec_list) |->
                          IF k \in Swept THEN NULL ELSE frec_list[k]]
      BY <1>1, <2>2
    <3>2. frec_list' \in [1 .. Len(frec_list) -> Frec \cup {NULL}]
      BY <1>3, <3>1
    <3>3. frec_list' \in Seq(Frec \cup {NULL}) /\ Len(frec_list') = Len(frec_list)
      BY <1>0, <3>2
    <3>4. InUse' = InUse \ Swept
      BY <3>1, <3>3 DEF InUse
    <3> QED
      BY <1>0, <1>2, <3>1, <3>3, <3>4 DEF TableBounded
  <2> QED
    BY <2>1, <2>2
<1>5. /\ refcount' = Released(Swept) /\ UNCHANGED <<opts, servers>>
      /\ last_server' \in Pointers /\ srv_save' \in Pointers
  BY DEF set_dns_listeners, Pointers
<1>6. listening' \in BOOLEAN /\ undefined' \in BOOLEAN
  BY <1>0, <1>1 DEF set_dns_listeners, TypeOK
<1> QED
  BY <1>2, <1>4, <1>5, <1>6, FreeingFInv, Zenon

(* The same query goes to the next servers.                                *)
LEMMA ResendFInv ==
  ASSUME FInv, NEW k \in InUse, Resend(k),
         UNCHANGED <<opts, servers, listening, undefined>>
  PROVE  FInv'
<1> DEFINE f == frec_list[k]
           next == servers[1 + (Pos(f.sentto) % Len(servers))]
<1>0. /\ TypeOK /\ PointersTracked /\ f \in Frec /\ Len(frec_list) \in Nat
      /\ k \in 1 .. Len(frec_list)
  BY RecordFacts DEF FInv, RefCountsExact
<1>1. f.sentto \in Listed
  <2>1. f.sentto \in Pointers
    BY DEF Pointers
  <2>2. f.sentto \in Servers \cup {FREED} /\ f.sentto # FREED
    BY <1>0, Zenon DEF Frec, Resend
  <2> QED
    BY <1>0, <2>1, <2>2, ForwardAssumption, Zenon DEF PointersTracked
<1>2. next \in Listed
  <2>1. Pos(f.sentto) \in 1 .. Len(servers) /\ Len(servers) \in Nat \ {0}
    BY <1>0, <1>1, PosFacts
  <2>2. 1 + (Pos(f.sentto) % Len(servers)) \in 1 .. Len(servers)
    BY <2>1
  <2>3. DOMAIN servers = 1 .. Len(servers)
    BY <1>0 DEF TypeOK
  <2> QED
    BY <2>2, <2>3 DEF Listed, ToSet
<1>3. /\ last_server' \in {last_server, NULL}
      /\ SendOn(k, f, {}, next, DomainOf[f.sentto], ~ORDER)
  BY Zenon DEF Resend
<1>4. \A j \in InUse \ ({} \cup {k}) :
        /\ frec_list[j].query # f.query
        /\ \/ frec_list[j].new_id # f.new_id
           \/ frec_list[j].query.crc # f.query.crc
  BY DEF FInv, RepliesUnambiguous, OneRecordPerQuery
<1>5. /\ k \in 1 .. Len(frec_list) + 1 /\ ~(k > Len(frec_list))
      /\ k \in InUse \ {} /\ f.rfd4 = frec_list[k].rfd4
      /\ {} \in SUBSET InUse /\ (~ORDER) \in BOOLEAN
  BY <1>0 DEF ORDER
<1> HIDE DEF f, next
<1> QED
  BY <1>0, <1>2, <1>3, <1>4, <1>5, SendOnFInv, Zenon

(* A new query gets an identifier of its own.                              *)
LEMMA NewQueryFInv ==
  ASSUME FInv, NEW q \in Queries, NewQuery(q)
  PROVE  FInv'
<1>0. TypeOK /\ Len(frec_list) \in Nat
  BY RecordFacts DEF FInv, RefCountsExact
<1>1. PICK o \in get_new_frec, start \in Listed, all \in BOOLEAN :
        /\ o.at # NULL
        /\ \E id \in get_id(q.crc, o.freed) :
             SendOn(o.at, [sentto |-> start, age |-> 0, query |-> q, new_id |-> id,
                           forwardall |-> 0, rfd4 |-> NULL],
                    o.freed, start, Domain(q), all)
  BY Zenon DEF NewQuery
<1>2. PICK id \in get_id(q.crc, o.freed) :
        SendOn(o.at, [sentto |-> start, age |-> 0, query |-> q, new_id |-> id,
                      forwardall |-> 0, rfd4 |-> NULL],
               o.freed, start, Domain(q), all)
  BY <1>1
<1> DEFINE f == [sentto |-> start, age |-> 0, query |-> q, new_id |-> id,
                 forwardall |-> 0, rfd4 |-> NULL]
<1>3. f \in Frec
  <2>1. start \in Servers /\ id \in Ids
    BY <1>0, ListedFacts DEF get_id
  <2>2. 0 \in 0 .. 4 * TIMEOUT
    BY ForwardAssumption
  <2>3. 0 \in 0 .. 1 + Cardinality(Servers)
    BY ForwardAssumption, FS_CardinalityType
  <2> QED
    BY <2>1, <2>2, <2>3 DEF Frec
<1>4. /\ o.freed \in SUBSET InUse /\ o.at \in 1 .. Len(frec_list) + 1
      /\ o.at > Len(frec_list) => Len(frec_list) <= ftabsize
  BY <1>0, <1>1, OutcomeFacts, SMTT(30) DEF Nothing
<1>5. f.query = q /\ f.new_id = id /\ f.rfd4 = NULL
  OBVIOUS
<1>6. \A j \in InUse \ (o.freed \cup {o.at}) :
        /\ frec_list[j].query # f.query
        /\ \/ frec_list[j].new_id # f.new_id
           \/ frec_list[j].query.crc # f.query.crc
  <2>1. \A j \in InUse : frec_list[j].query # q
    BY DEF NewQuery, lookup_frec_by_sender
  <2>2. \A j \in InUse : frec_list[j].new_id = id /\ frec_list[j].query.crc = q.crc
                           => j \in o.freed
    BY <1>2, Zenon DEF get_id, lookup_frec
  <2> QED
    BY <1>5, <2>1, <2>2, Zenon
<1>7. SendOn(o.at, f, o.freed, start, Domain(q), all)
  BY <1>2
<1>8. /\ UNCHANGED <<opts, servers, listening, undefined>>
      /\ last_server' \in {last_server, NULL}
  BY DEF NewQuery
<1> HIDE DEF f
<1> QED
  BY <1>3, <1>4, <1>5, <1>6, <1>7, <1>8, SendOnFInv, Zenon

(* An answer that is taken ends the record, or leaves it one answer less   *)
(* to wait for.                                                            *)
LEMMA ReplyTakenFInv ==
  ASSUME FInv, NEW k \in InUse, NEW s \in Listed, NEW bad \in BOOLEAN,
         ReplyTaken(k, s, bad),
         UNCHANGED <<opts, servers, listening, undefined>>
  PROVE  FInv'
<1> DEFINE f == frec_list[k]
           g == [f EXCEPT !.forwardall = @ - 1]
<1>0. /\ TypeOK /\ RefCountsExact /\ RepliesUnambiguous /\ OneRecordPerQuery
      /\ TableBounded /\ AnswersCounted /\ PointersTracked
      /\ f \in Frec /\ Len(frec_list) \in Nat /\ k \in 1 .. Len(frec_list)
      /\ ftabsize \in Nat
  BY RecordFacts, ForwardAssumption, Zenon DEF FInv, RefCountsExact
<1>1. f.sentto \in Pointers
  BY DEF Pointers
<1>2. /\ last_server' \in Listed \cup {NULL} \cup Pointers
      /\ srv_save' \in Listed \cup {NULL} \cup Pointers
  BY <1>1 DEF ReplyTaken, Pointers
<1>3. listening' \in BOOLEAN /\ undefined' \in BOOLEAN
  BY <1>0 DEF TypeOK
<1>4. CASE ~bad \/ f.forwardall \in {0, 2}
  <2>1. frec_list' = Put(k, NULL, {}) /\ refcount' = Released({k})
    BY <1>4 DEF ReplyTaken
  <2>2. k \in 1 .. Len(frec_list) + 1 /\ ~(k > Len(frec_list))
    BY <1>0
  <2>3. /\ frec_list' \in Seq(Frec \cup {NULL}) /\ Len(frec_list') = Len(frec_list)
        /\ InUse' = InUse \ {k}
        /\ \A j \in InUse' : frec_list'[j] = frec_list[j]
    <3>1. {} \in SUBSET InUse /\ NULL \in Frec \cup {NULL}
      OBVIOUS
    <3>2. /\ frec_list' \in Seq(Frec \cup {NULL})
          /\ Len(frec_list') = IF k > Len(frec_list) THEN k ELSE Len(frec_list)
          /\ InUse' = (InUse \ ({} \cup {k})) \cup (IF NULL = NULL THEN {} ELSE {k})
          /\ \A j \in InUse \ ({} \cup {k}) : frec_list'[j] = frec_list[j]
      BY <1>0, <2>1, <2>2, <3>1, PutFacts, ZenonT(30)
    <3> QED
      BY <2>2, <3>2, Zenon
  <2>4. Len(frec_list') <= ftabsize + 1 /\ UNCHANGED <<opts, servers>>
    BY <1>0, <2>3, Zenon DEF TableBounded
  <2>5. {k} \in SUBSET InUse
    OBVIOUS
  <2> QED
    BY <1>2, <1>3, <2>1, <2>3, <2>4, <2>5, FreeingFInv, Zenon
<1>5. CASE ~(~bad \/ f.forwardall \in {0, 2})
  <2>1. frec_list' = [frec_list EXCEPT ![k] = g] /\ refcount' = refcount
    BY <1>0, <1>5 DEF ReplyTaken
  <2>2. Cardinality(Servers) \in Nat
    BY ForwardAssumption, FS_CardinalityType, Zenon
  <2>3. f.forwardall \in 3 .. 1 + Cardinality(Servers)
    BY <1>0, <1>5, <2>2, SMTT(30) DEF AnswersCounted, Frec
  <2>4. /\ g \in Frec
        /\ g.rfd4 = f.rfd4 /\ g.query = f.query /\ g.new_id = f.new_id
        /\ g.sentto = f.sentto /\ g.forwardall - 1 \in 1 .. Cardinality(Servers)
    <3>1. f.forwardall - 1 \in 0 .. 1 + Cardinality(Servers)
      BY <2>2, <2>3, SMTT(30)
    <3>2. g.forwardall = f.forwardall - 1
      BY <1>0 DEF Frec
    <3>3. g.forwardall - 1 \in 1 .. Cardinality(Servers)
      BY <2>2, <2>3, <3>2
    <3>4. /\ g \in Frec /\ g.rfd4 = f.rfd4 /\ g.query = f.query
          /\ g.new_id = f.new_id /\ g.sentto = f.sentto
      BY <1>0, <3>1 DEF Frec
    <3> QED
      BY <3>3, <3>4
  <2> HIDE DEF g
  <2>5. /\ frec_list' \in Seq(Frec \cup {NULL}) /\ Len(frec_list') = Len(frec_list)
        /\ frec_list'[k] = g
        /\ \A j \in 1 .. Len(frec_list) : j # k => frec_list'[j] = frec_list[j]
    BY <1>0, <2>1, <2>4, SMTT(30) DEF TypeOK
  <2>6. InUse' = InUse
    BY <1>0, <2>4, <2>5, NullAssumption, Zenon DEF InUse
  <2>7. refcount' = Released({}) /\ InUse' = InUse \ {}
    BY <1>0, <2>1, <2>6, ReleasedNone
  <2>8. \A j \in InUse' : /\ frec_list'[j].rfd4 = frec_list[j].rfd4
                          /\ frec_list'[j].query = frec_list[j].query
                          /\ frec_list'[j].new_id = frec_list[j].new_id
                          /\ frec_list'[j].sentto = frec_list[j].sentto
    BY <2>4, <2>5, <2>6, Zenon DEF InUse
  <2>9. /\ refcount' \in [Socks -> 0 .. MaxRef]
        /\ \A i \in Socks :
             refcount'[i] = Cardinality({j \in InUse' : frec_list'[j].rfd4 = i})
        /\ RepliesUnambiguous'
        /\ OneRecordPerQuery'
    BY <1>0, <2>7, <2>8, Thinned, Zenon
  <2>10. /\ last_server' \in Servers \cup {NULL, FREED}
         /\ srv_save' \in Servers \cup {NULL, FREED}
    BY <1>0, <1>2, ListedFacts
  <2>11. TypeOK'
    BY <1>0, <1>3, <2>5, <2>9, <2>10, Zenon DEF TypeOK
  <2>12. \A j \in InUse' : frec_list'[j].sentto \in Pointers
    BY <2>6, <2>8, Zenon DEF Pointers
  <2>13. PointersTracked'
    BY <1>0, <1>2, <2>12, PointersKept
  <2>14. AnswersCounted'
    <3>1. ASSUME NEW j \in InUse'
          PROVE  \/ frec_list'[j].forwardall = 0
                 \/ frec_list'[j].forwardall - 1 \in 1 .. Cardinality(Servers)
      <4>1. CASE j = k
        BY <2>4, <2>5, <4>1, Zenon
      <4>2. CASE j # k
        BY <1>0, <2>5, <2>6, <4>2, Zenon DEF AnswersCounted, InUse
      <4> QED
        BY <4>1, <4>2
    <3> QED
      BY <3>1, Zenon DEF AnswersCounted
  <2>15. TableBounded'
    BY <1>0, <2>5 DEF TableBounded
  <2> QED
    BY <2>9, <2>11, <2>13, <2>14, <2>15 DEF FInv, RefCountsExact
<1> QED
  BY <1>4, <1>5

(* server_gone, whichever servers go: a pointer to one of gone is cleared, *)
(* one to another freed server dangles.                                    *)
LEMMA GoneFInv ==
  ASSUME FInv, NEW gone \in SUBSET Servers, NEW D \in SUBSET Servers,
         server_gone(gone, D),
         servers' \in Seq(Servers), UNCHANGED <<opts, listening, undefined>>,
         Listed \ (gone \cup D) \subseteq Listed',
         \/ NO_POLL
         \/ ~(CmdServers \subseteq Listed')
         \/ CmdServers \subseteq Listed /\ Listed \cap D \subseteq gone
  PROVE  FInv'
<1> DEFINE K == {k \in InUse : frec_list[k].sentto \in gone}
           kept(k) == [frec_list[k] EXCEPT !.sentto = Forget(D, @)]
           off(p) == IF p \in gone THEN NULL ELSE Forget(D, p)
<1>0. /\ TypeOK /\ RefCountsExact /\ RepliesUnambiguous /\ OneRecordPerQuery
      /\ TableBounded /\ AnswersCounted /\ PointersTracked
      /\ Len(frec_list) \in Nat /\ InUse \subseteq 1 .. Len(frec_list)
      /\ \A k \in InUse : frec_list[k] \in Frec
      /\ FREED \notin Servers /\ NULL \notin Servers /\ FREED # NULL
  BY RecordFacts, ForwardAssumption, Zenon DEF FInv, RefCountsExact
<1>1. /\ frec_list' = [k \in 1 .. Len(frec_list) |->
           IF k \in K THEN NULL ELSE IF k \in InUse THEN kept(k) ELSE NULL]
      /\ refcount' = Released(K)
      /\ last_server' = off(last_server) /\ srv_save' = off(srv_save)
  BY DEF server_gone
<1>2. ASSUME NEW k \in InUse
      PROVE  /\ kept(k) \in Frec
             /\ kept(k).rfd4 = frec_list[k].rfd4
             /\ kept(k).query = frec_list[k].query
             /\ kept(k).new_id = frec_list[k].new_id
             /\ kept(k).forwardall = frec_list[k].forwardall
             /\ kept(k).sentto = Forget(D, frec_list[k].sentto)
  <2>1. frec_list[k] \in Frec
    BY <1>0
  <2>2. Forget(D, frec_list[k].sentto) \in Servers \cup {FREED}
    BY <2>1, Zenon DEF Forget, Frec
  <2> QED
    BY <2>1, <2>2 DEF Frec
<1>3. K \in SUBSET InUse
  OBVIOUS
<1> HIDE DEF K, kept
<1>4. /\ frec_list' \in Seq(Frec \cup {NULL}) /\ Len(frec_list') = Len(frec_list)
      /\ \A k \in 1 .. Len(frec_list) :
           frec_list'[k] = IF k \in K THEN NULL
                           ELSE IF k \in InUse THEN kept(k) ELSE NULL
  <2>1. frec_list' \in [1 .. Len(frec_list) -> Frec \cup {NULL}]
    BY <1>1, <1>2, Zenon
  <2> QED
    BY <1>0, <1>1, <2>1, SMTT(30)
<1>5. \A k \in InUse : kept(k) # NULL
  BY <1>2, NullAssumption, Zenon
<1>6. InUse' = InUse \ K
  BY <1>0, <1>4, <1>5, Zenon DEF InUse
<1>7. \A k \in InUse' : k \in InUse /\ k \notin K /\ frec_list'[k] = kept(k)
  BY <1>0, <1>4, <1>6, Zenon
<1>8. \A k \in InUse' : /\ frec_list'[k].rfd4 = frec_list[k].rfd4
                        /\ frec_list'[k].query = frec_list[k].query
                        /\ frec_list'[k].new_id = frec_list[k].new_id
  BY <1>2, <1>7, Zenon
<1>9. /\ refcount' \in [Socks -> 0 .. MaxRef]
      /\ \A i \in Socks :
           refcount'[i] = Cardinality({k \in InUse' : frec_list'[k].rfd4 = i})
      /\ RepliesUnambiguous'
      /\ OneRecordPerQuery'
  BY <1>0, <1>1, <1>3, <1>6, <1>8, Thinned, Zenon
<1>10. ASSUME NEW p \in Pointers'
       PROVE  \E x \in Pointers : p = off(x)
  <2>1. CASE p \in {last_server', srv_save'}
    BY <1>1, <2>1, Zenon DEF Pointers
  <2>2. CASE p \in {frec_list'[k].sentto : k \in InUse'}
    <3>1. PICK k \in InUse' : p = frec_list'[k].sentto
      BY <2>2
    <3>2. p = Forget(D, frec_list[k].sentto) /\ frec_list[k].sentto \notin gone
      BY <1>2, <1>7, <3>1, Zenon DEF K
    <3>3. frec_list[k].sentto \in Pointers
      BY <1>7, Zenon DEF Pointers
    <3> QED
      BY <3>2, <3>3
  <2> QED
    BY <2>1, <2>2, Zenon DEF Pointers
<1>11. ASSUME NEW x \in Pointers
       PROVE  /\ off(x) \in Listed' \cup {NULL, FREED}
              /\ off(x) = FREED => FREED \in Pointers \/ x \in (Listed \cap D) \ gone
  <2>1. x \in Listed \cup {NULL, FREED}
    BY <1>0 DEF PointersTracked
  <2> QED
    BY <1>0, <2>1 DEF Forget
<1>12. PointersTracked'
  <2>1. Pointers' \subseteq Listed' \cup {NULL, FREED}
    BY <1>10, <1>11
  <2>2. FREED \in Pointers' => FREED \in Pointers \/ ~(Listed \cap D \subseteq gone)
    BY <1>10, <1>11
  <2>3. NO_POLL' = NO_POLL
    BY DEF NO_POLL
  <2>4. FREED \in Pointers' => NO_POLL' \/ ~(CmdServers \subseteq Listed')
    BY <1>0, <2>2, <2>3 DEF PointersTracked
  <2> QED
    BY <2>1, <2>4 DEF PointersTracked
<1>13. TypeOK'
  <2>1. /\ last_server' \in Servers \cup {NULL, FREED}
        /\ srv_save' \in Servers \cup {NULL, FREED}
    BY <1>0, <1>1 DEF Forget, TypeOK
  <2> QED
    BY <1>0, <1>4, <1>9, <2>1, Zenon DEF TypeOK
<1>14. AnswersCounted'
  BY <1>0, <1>2, <1>7, Zenon DEF AnswersCounted
<1>15. TableBounded'
  BY <1>0, <1>4 DEF TableBounded
<1> QED
  BY <1>9, <1>12, <1>13, <1>14, <1>15, Zenon DEF FInv, RefCountsExact

(* The lists reload_servers and check_servers leave.                       *)
LEMMA ReversedFacts ==
  ASSUME NEW V, NEW list \in Seq(V)
  PROVE  Reverse(list) \in Seq(V) /\ ToSet(Reverse(list)) = ToSet(list)
<1>1. /\ Len(list) \in Nat /\ DOMAIN list = 1 .. Len(list)
      /\ \A i \in 1 .. Len(list) : list[i] \in V
  BY ElementOfSeq, LenProperties
<1>2. Reverse(list) = [i \in 1 .. Len(list) |-> list[(Len(list) - i) + 1]]
  BY DEF Reverse
<1>3. \A i \in 1 .. Len(list) : (Len(list) - i) + 1 \in 1 .. Len(list)
  BY <1>1
<1>4. Reverse(list) \in [1 .. Len(list) -> V]
  BY <1>1, <1>2, <1>3
<1>5. Reverse(list) \in Seq(V)
  BY <1>1, <1>4
<1>6. \A i \in 1 .. Len(list) : list[i] = Reverse(list)[(Len(list) - i) + 1]
  <2> SUFFICES ASSUME NEW i \in 1 .. Len(list)
               PROVE  list[i] = Reverse(list)[(Len(list) - i) + 1]
    OBVIOUS
  <2>1. (Len(list) - ((Len(list) - i) + 1)) + 1 = i
    BY <1>1
  <2> QED
    BY <1>2, <1>3, <2>1
<1>7. DOMAIN Reverse(list) = 1 .. Len(list)
  BY <1>2
<1>8. ASSUME NEW x \in ToSet(list) PROVE x \in ToSet(Reverse(list))
  BY <1>1, <1>3, <1>6, <1>7 DEF ToSet
<1>9. ASSUME NEW x \in ToSet(Reverse(list)) PROVE x \in ToSet(list)
  BY <1>1, <1>2, <1>3, <1>7 DEF ToSet
<1> QED
  BY <1>5, <1>8, <1>9, Zenon

(* The elements of two sequences one after the other.                      *)
LEMMA JoinedFacts ==
  ASSUME NEW V, NEW s \in Seq(V), NEW t \in Seq(V)
  PROVE  s \o t \in Seq(V) /\ ToSet(s \o t) = ToSet(s) \cup ToSet(t)
<1>1. /\ Len(s) \in Nat /\ DOMAIN s = 1 .. Len(s)
      /\ Len(t) \in Nat /\ DOMAIN t = 1 .. Len(t)
  BY LenProperties
<1>2. /\ s \o t \in Seq(V) /\ Len(s \o t) = Len(s) + Len(t)
      /\ \A i \in 1 .. Len(s) + Len(t) :
           (s \o t)[i] = IF i <= Len(s) THEN s[i] ELSE t[i - Len(s)]
  BY ConcatProperties
<1>3. DOMAIN (s \o t) = 1 .. Len(s) + Len(t)
  BY <1>2, LenProperties
<1>4. ASSUME NEW i \in 1 .. Len(s) PROVE s[i] \in ToSet(s \o t)
  <2>1. i \in 1 .. Len(s) + Len(t) /\ (s \o t)[i] = s[i]
    BY <1>1, <1>2
  <2> QED
    BY <1>3, <2>1 DEF ToSet
<1>5. ASSUME NEW i \in 1 .. Len(t) PROVE t[i] \in ToSet(s \o t)
  <2>1. /\ Len(s) + i \in 1 .. Len(s) + Len(t) /\ ~(Len(s) + i <= Len(s))
        /\ (Len(s) + i) - Len(s) = i
    BY <1>1
  <2>2. (s \o t)[Len(s) + i] = t[i]
    BY <1>2, <2>1
  <2> QED
    BY <1>3, <2>1, <2>2 DEF ToSet
<1>6. ASSUME NEW i \in 1 .. Len(s) + Len(t)
      PROVE  (s \o t)[i] \in ToSet(s) \cup ToSet(t)
  <2>1. CASE i <= Len(s)
    BY <1>1, <1>2, <2>1 DEF ToSet
  <2>2. CASE ~(i <= Len(s))
    <3>1. i - Len(s) \in 1 .. Len(t) /\ (s \o t)[i] = t[i - Len(s)]
      BY <1>1, <1>2, <2>2
    <3> QED
      BY <1>1, <3>1 DEF ToSet
  <2> QED
    BY <2>1, <2>2
<1> QED
  BY <1>1, <1>2, <1>3, <1>4, <1>5, <1>6, ZenonT(30) DEF ToSet

(* resolv.conf is read again, by polling or after SIGHUP.                  *)
LEMMA ReloadFInv ==
  ASSUME FInv, NEW file \in Files, NEW D \in SUBSET ((Listed \cap CmdServers) \cup ToSet(file)),
         Reload(file, D)
  PROVE  FInv'
<1>0. /\ TypeOK /\ Listed \subseteq Servers /\ servers \in Seq(Servers)
      /\ file \in Seq(ResolvServers) /\ CmdServers \cap ResolvServers = {}
  BY ListedFacts, ForwardAssumption, Zenon DEF FInv, RefCountsExact, TypeOK
<1>1. PICK kept \in Kept : servers' \in Only(kept \o file, Servers \ D)
  BY DEF Reload
<1>2. kept \in Seq(Servers) /\ ToSet(kept) = Listed \cap CmdServers
  BY <1>0, OnlyFacts DEF Kept, Listed
<1>3. file \in Seq(Servers) /\ ToSet(file) \subseteq ResolvServers
  BY <1>0, ElementOfSeq, LenProperties DEF Servers, ToSet
<1>4. /\ kept \o file \in Seq(Servers)
      /\ ToSet(kept \o file) = (Listed \cap CmdServers) \cup ToSet(file)
  BY <1>2, <1>3, JoinedFacts
<1>5. /\ servers' \in Seq(Servers)
      /\ ToSet(servers') = ((Listed \cap CmdServers) \cup ToSet(file)) \cap (Servers \ D)
  <2>1. servers' \in Seq(Servers) /\ ToSet(servers') = ToSet(kept \o file) \cap (Servers \ D)
    <3> DEFINE list == kept \o file
               S == Servers \ D
    <3>1. list \in Seq(Servers) /\ servers' \in Only(list, S)
      BY <1>1, <1>4
    <3> HIDE DEF list, S
    <3>2. servers' \in Seq(Servers) /\ ToSet(servers') = ToSet(list) \cap S
      BY <3>1, OnlyFacts
    <3> QED
      BY <3>2 DEF list, S
  <2> QED
    BY <1>4, <2>1
<1>6. Listed' = ToSet(servers')
  BY DEF Listed
<1>7. Gone \in SUBSET Servers /\ D \in SUBSET Servers
  BY <1>0, <1>3 DEF Gone, Servers
<1>8. Listed \ (Gone \cup D) \subseteq Listed'
  BY <1>0, <1>5, <1>6 DEF Gone, Servers
<1>9. CmdServers \subseteq Listed' =>
        CmdServers \subseteq Listed /\ Listed \cap D \subseteq Gone
  BY <1>0, <1>3, <1>5, <1>6 DEF Gone, Servers
<1>10. server_gone(Gone, D) /\ UNCHANGED <<opts, listening, undefined>>
  BY DEF Reload
<1> QED
  BY <1>5, <1>7, <1>8, <1>9, <1>10, GoneFInv

(* resolv.conf names no server.                                            *)
LEMMA NoneFoundFInv == FInv /\ PollFindsNone => FInv'
<1> SUFFICES ASSUME FInv, PollFindsNone PROVE FInv'
  OBVIOUS
<1>0. TypeOK /\ Listed \subseteq Servers /\ servers \in Seq(Servers)
  BY ListedFacts DEF FInv, RefCountsExact, TypeOK
<1>1. PICK kept \in Kept : servers' = Reverse(kept)
  BY DEF PollFindsNone
<1>2. kept \in Seq(Servers) /\ ToSet(kept) = Listed \cap CmdServers
  BY <1>0, OnlyFacts DEF Kept, Listed
<1>3. servers' \in Seq(Servers) /\ Listed' = Listed \cap CmdServers
  BY <1>1, <1>2, ReversedFacts DEF Listed
<1>4. /\ Gone \in SUBSET Servers /\ {} \in SUBSET Servers
      /\ Listed \ (Gone \cup {}) \subseteq Listed'
      /\ \/ ~(CmdServers \subseteq Listed')
         \/ CmdServers \subseteq Listed /\ Listed \cap {} \subseteq Gone
  <2>1. CmdServers \subseteq Listed' => CmdServers \subseteq Listed
    BY <1>3
  <2>2. Gone \in SUBSET Servers /\ Listed \ (Gone \cup {}) \subseteq Listed'
    BY <1>0, <1>3 DEF Gone, Servers
  <2> QED
    BY <2>1, <2>2
<1>5. server_gone(Gone, {}) /\ UNCHANGED <<opts, listening, undefined>>
  BY DEF PollFindsNone
<1> QED
  BY <1>3, <1>4, <1>5, GoneFInv

(* SIGHUP without polling, and resolv.conf cannot be read.                 *)
LEMMA UnreadableFInv ==
  ASSUME FInv, NEW D \in SUBSET Listed, HangUpUnreadable(D)
  PROVE  FInv'
<1>0. TypeOK /\ Listed \subseteq Servers /\ servers \in Seq(Servers)
  BY ListedFacts DEF FInv, RefCountsExact, TypeOK
<1>1. Reverse(servers) \in Seq(Servers) /\ ToSet(Reverse(servers)) = Listed
  BY <1>0, ReversedFacts DEF Listed
<1>2. servers' \in Seq(Servers) /\ ToSet(servers') = Listed \cap (Servers \ D)
  <2>1. servers' \in Only(Reverse(servers), Servers \ D)
    BY DEF HangUpUnreadable
  <2> QED
    BY <1>1, <2>1, OnlyFacts
<1>3. Listed' = ToSet(servers')
  BY DEF Listed
<1>4. /\ {} \in SUBSET Servers /\ D \in SUBSET Servers
      /\ Listed \ ({} \cup D) \subseteq Listed'
  BY <1>0, <1>2, <1>3
<1>5. /\ NO_POLL /\ server_gone({}, D)
      /\ UNCHANGED <<opts, listening, undefined>>
  BY DEF HangUpUnreadable
<1> QED
  BY <1>2, <1>4, <1>5, GoneFInv

-----------------------------------------------------------------------------
(* Every step of dnsmasq preserves the invariant.                          *)
LEMMA StepFInv == FInv /\ [Next]_vars => FInv'
<1> SUFFICES ASSUME FInv, [Next]_vars PROVE FInv'
  OBVIOUS
<1>0. listening \in BOOLEAN /\ undefined \in BOOLEAN
  BY DEF FInv, RefCountsExact, TypeOK
<1>1. CASE UNCHANGED vars
  BY <1>0, <1>1, IdleFInv DEF vars
<1>2. CASE Tick
  BY <1>2, TickFInv
<1>3. CASE set_dns_listeners
  BY <1>3, ListenersFInv
<1>4. CASE QueryNotForwarded
  BY <1>0, <1>4, IdleFInv DEF QueryNotForwarded
<1>5. ASSUME NEW q \in Queries, QueryAgain(q) PROVE FInv'
  <2>1. PICK k \in lookup_frec_by_sender(q) : Resend(k)
    BY <1>5 DEF QueryAgain
  <2>2. k \in InUse /\ UNCHANGED <<opts, servers, listening, undefined>>
    BY <1>5 DEF QueryAgain, lookup_frec_by_sender
  <2> QED
    BY <2>1, <2>2, ResendFInv
<1>6. ASSUME NEW q \in Queries, NewQuery(q) PROVE FInv'
  BY <1>6, NewQueryFInv
<1>7. CASE ReplyIgnored
  BY <1>0, <1>7, IdleFInv DEF ReplyIgnored
<1>8. ASSUME NEW id, NEW crc, NEW s \in Listed, NEW bad \in BOOLEAN,
             Reply(id, crc, s, bad)
      PROVE  FInv'
  <2>1. PICK k \in lookup_frec(id, crc) :
          ReplyTaken(k, s, bad) \/ (bad /\ ReplyRetries(k))
    BY <1>8 DEF Reply
  <2>2. k \in InUse /\ UNCHANGED <<opts, servers, listening, undefined>>
    BY <1>8 DEF Reply, lookup_frec
  <2>3. CASE ReplyTaken(k, s, bad)
    BY <2>2, <2>3, ReplyTakenFInv
  <2>4. CASE ReplyRetries(k)
    BY <2>2, <2>4, ResendFInv DEF ReplyRetries
  <2> QED
    BY <2>1, <2>3, <2>4
<1>9. ASSUME NEW file \in Files,
             NEW D \in SUBSET ((Listed \cap CmdServers) \cup ToSet(file)),
             PollResolv(file, D) \/ HangUp(file, D)
      PROVE  FInv'
  BY <1>9, ReloadFInv DEF PollResolv, HangUp
<1>10. CASE PollFindsNone
  BY <1>10, NoneFoundFInv
<1>11. ASSUME NEW D \in SUBSET Listed, HangUpUnreadable(D) PROVE FInv'
  BY <1>11, UnreadableFInv
<1>12. CASE UseFreed
  BY <1>0, <1>12, IdleFInv DEF UseFreed
<1>13. CASE Step
  BY <1>3, <1>4, <1>5, <1>6, <1>7, <1>8, <1>9, <1>10, <1>11, <1>12, <1>13, Zenon DEF Step
<1> QED
  BY <1>1, <1>2, <1>13 DEF Next

(* The invariant holds in every reachable state.                           *)
THEOREM ForwardInvariant == Spec => []FInv
<1>1. Spec => Init /\ [][Next]_vars
  BY DEF Spec
<1> QED
  BY <1>1, InitFInv, StepFInv, PTL

(* The reference count of a shared socket (allocate_rfd, free_rfd) is the  *)
(* number of records that use it, whatever ends them, and the state has    *)
(* its type: a count never passes 0xffff and never goes below zero.        *)
THEOREM RefCountsStayExact == Spec => []RefCountsExact
BY ForwardInvariant, PTL DEF FInv

(* get_id's identifiers tell the outstanding queries apart: an answer with *)
(* a readable question belongs to one record.                              *)
THEOREM RepliesStayUnambiguous == Spec => []RepliesUnambiguous
BY ForwardInvariant, PTL DEF FInv

(* A client's repeated query is found by lookup_frec_by_sender and never   *)
(* gets a second record.                                                   *)
THEOREM QueriesStayUnique == Spec => []OneRecordPerQuery
BY ForwardInvariant, PTL DEF FInv

(* get_new_frec never makes more than ftabsize + 1 records.                *)
THEOREM TableStaysBounded == Spec => []TableBounded
BY ForwardInvariant, PTL DEF FInv

(* A record sent to several servers always has an answer left to wait for  *)
(* and never more than there are servers (forwardall).                     *)
THEOREM AnswersStayCounted == Spec => []AnswersCounted
BY ForwardInvariant, PTL DEF FInv

(* While resolv.conf is polled and no server of the command line is lost,  *)
(* server_gone leaves no pointer to a server that reload_servers freed.    *)
THEOREM ResolvServersStayForgotten == Spec => []ResolvServersForgotten
<1>1. FInv => ResolvServersForgotten
  <2> SUFFICES ASSUME FInv, ~NO_POLL, CmdServers \subseteq Listed PROVE ~Dangling
    BY DEF ResolvServersForgotten
  <2>1. Pointers \subseteq Listed \cup {NULL}
    BY DEF FInv, PointersTracked
  <2> QED
    BY <2>1 DEF Dangling, Pointers
<1> QED
  BY <1>1, ForwardInvariant, PTL
=============================================================================
