------------------------- MODULE MasqForwardLemmas -------------------------
(***************************************************************************)
(* dnsmasq's table of forwarded queries, its shared sockets and the        *)
(* pointers into the list of servers: for every number of records,         *)
(* sockets, servers, queries and identifiers, and every resolv.conf.       *)
(***************************************************************************)
EXTENDS MasqForward, FiniteSetTheorems, SequenceTheorems,
        WellFoundedInduction, TLAPS

(* What the program points at.                                             *)
Pointers ==
  {last_server, srv_save} \cup {frec_list[k].sentto : k \in InUse}

(* A pointer is to a listed server or to a freed one, and there is none of *)
(* the latter before a server of the command line was lost, or without     *)
(* polling.                                                                *)
PointersTracked ==
  /\ Pointers \subseteq Listed \cup {NULL, FREED}
  /\ FREED \in Pointers => NO_POLL \/ ~(CmdServers \subseteq Listed)

(* The inductive invariant.  The counts stay exact only because a record's *)
(* socket is counted once, and AnswersCounted and PointersTracked are what *)
(* sending a query on needs to keep the records in their type.             *)
FInv ==
  /\ RefCountsExact
  /\ RepliesUnambiguous
  /\ OneRecordPerQuery
  /\ TableBounded
  /\ AnswersCounted
  /\ PointersTracked

-----------------------------------------------------------------------------
(* A nonempty set of naturals below a bound has a greatest element.        *)
LEMMA GreatestExists ==
  ASSUME NEW n \in Nat, NEW T \in SUBSET (0 .. n), T # {}
  PROVE  \E x \in T : \A y \in T : y <= x
<1> DEFINE R == OpToRel(<, Nat)
           U == {n - y : y \in T}
<1>1. U \in SUBSET Nat /\ U # {}
  <2>1. \A y \in T : y \in 0 .. n
    OBVIOUS
  <2>2. \A y \in T : n - y \in Nat
    BY <2>1
  <2> QED
    BY <2>2, Zenon
<1> HIDE DEF U
<1>2. PICK u \in U : \A v \in U : ~(<<v, u>> \in R)
  BY <1>1, NatLessThanWellFounded, WFMin, Zenon
<1>3. ASSUME NEW v \in U PROVE u <= v
  <2>1. ~(<<v, u>> \in R)
    BY <1>2, Zenon
  <2>2. u \in Nat /\ v \in Nat
    BY <1>1
  <2>3. ~(v < u)
    BY <2>1, <2>2 DEF OpToRel
  <2> QED
    BY <2>2, <2>3
<1>4. PICK x \in T : u = n - x
  BY DEF U
<1>5. ASSUME NEW y \in T PROVE y <= x
  <2>1. n - y \in U
    BY DEF U
  <2>2. u <= n - y
    BY <1>3, <2>1
  <2> QED
    BY <1>4, <2>2
<1> QED
  BY <1>5

(* Shortening a list: the members of S that were on it are what is left.   *)
LEMMA OnlyFacts ==
  ASSUME NEW V, NEW list \in Seq(V), NEW S, NEW new \in Only(list, S)
  PROVE  new \in Seq(V) /\ ToSet(new) = ToSet(list) \cap S
<1> DEFINE K == {i \in 1 .. Len(list) : list[i] \in S}
           n == Cardinality(K)
<1>1. /\ Len(list) \in Nat /\ DOMAIN list = 1 .. Len(list)
      /\ \A i \in 1 .. Len(list) : list[i] \in V
  BY ElementOfSeq, LenProperties
<1>2. IsFiniteSet(K) /\ n \in Nat
  <2>1. IsFiniteSet(1 .. Len(list)) /\ K \in SUBSET (1 .. Len(list))
    BY <1>1, FS_Interval
  <2> HIDE DEF K
  <2> QED
    BY <2>1, FS_Subset, FS_CardinalityType, Zenon
<1>3. PICK f \in [1 .. n -> K] :
        /\ \A i, j \in 1 .. n : i < j => f[i] < f[j]
        /\ new = [i \in 1 .. n |-> list[f[i]]]
  BY Zenon DEF Only
<1>4. \A i \in K : i \in 1 .. Len(list) /\ list[i] \in S /\ list[i] \in V
  BY <1>1
<1>5. \A v \in ToSet(list) \cap S : \E i \in K : list[i] = v
  BY <1>1 DEF ToSet
<1> HIDE DEF K, n
<1>6. f \in Injection(1 .. n, K)
  <2>1. \A i \in 1 .. n : f[i] \in Int
    BY <1>1, <1>3, <1>4
  <2>2. ASSUME NEW i \in 1 .. n, NEW j \in 1 .. n, f[i] = f[j] PROVE i = j
    BY <1>2, <1>3, <2>1, <2>2
  <2>3. DOMAIN f = 1 .. n
    BY <1>3
  <2> QED
    BY <1>3, <2>2, <2>3 DEF Injection, IsInjective
<1>7. f \in Surjection(1 .. n, K)
  <2>1. Cardinality(1 .. n) = n
    BY <1>2, FS_Interval
  <2>2. n = Cardinality(K)
    BY DEF n
  <2> QED
    BY <1>2, <1>6, <2>1, <2>2, FS_Injection
<1>8. new \in [1 .. n -> V] /\ DOMAIN new = 1 .. n
  BY <1>3, <1>4
<1>9. new \in Seq(V)
  BY <1>2, <1>8
<1>10. \A i \in 1 .. n : new[i] \in ToSet(list) \cap S
  <2>1. \A i \in 1 .. n : f[i] \in K /\ new[i] = list[f[i]]
    BY <1>3
  <2> QED
    BY <1>1, <1>4, <2>1 DEF ToSet
<1>11. \A v \in ToSet(list) \cap S : \E i \in 1 .. n : new[i] = v
  <2> SUFFICES ASSUME NEW v \in ToSet(list) \cap S
               PROVE  \E i \in 1 .. n : new[i] = v
    OBVIOUS
  <2>1. PICK k \in K : list[k] = v
    BY <1>5
  <2>2. PICK i \in 1 .. n : f[i] = k
    BY <1>7 DEF Surjection
  <2> QED
    BY <1>3, <2>1, <2>2
<1>12. ToSet(new) = {new[i] : i \in 1 .. n}
  BY <1>8 DEF ToSet
<1> QED
  BY <1>9, <1>10, <1>11, <1>12

(* The table, its records and the positions in use.                        *)
LEMMA RecordFacts ==
  ASSUME TypeOK
  PROVE  /\ Len(frec_list) \in Nat
         /\ DOMAIN frec_list = 1 .. Len(frec_list)
         /\ InUse \subseteq 1 .. Len(frec_list)
         /\ \A k \in InUse : frec_list[k] \in Frec
         /\ \A k \in 1 .. Len(frec_list) : k \notin InUse => frec_list[k] = NULL
         /\ IsFiniteSet(InUse)
<1>1. /\ Len(frec_list) \in Nat /\ DOMAIN frec_list = 1 .. Len(frec_list)
      /\ \A k \in 1 .. Len(frec_list) : frec_list[k] \in Frec \cup {NULL}
  BY DEF TypeOK
<1>2. IsFiniteSet(InUse)
  <2>1. IsFiniteSet(1 .. Len(frec_list)) /\ InUse \in SUBSET (1 .. Len(frec_list))
    BY <1>1, FS_Interval DEF InUse
  <2> QED
    BY <2>1, FS_Subset, Zenon
<1> QED
  BY <1>1, <1>2 DEF InUse

(* The records that use a shared socket are finitely many.                 *)
UsersOf(i, K) == {k \in K : frec_list[k].rfd4 = i}

(* free_frec on records in use takes off exactly their references.         *)
LEMMA ReleasedExact ==
  ASSUME RefCountsExact, NEW K \in SUBSET InUse
  PROVE  /\ Released(K) \in [Socks -> 0 .. MaxRef]
         /\ \A i \in Socks :
              /\ Released(K)[i] = Cardinality(UsersOf(i, InUse \ K))
              /\ IsFiniteSet(UsersOf(i, InUse \ K))
              /\ Released(K)[i] <= refcount[i]
<1>1. TypeOK /\ IsFiniteSet(InUse) /\ refcount \in [Socks -> 0 .. MaxRef]
  BY RecordFacts DEF RefCountsExact, TypeOK
<1>2. MaxRef \in Nat
  BY ForwardAssumption
<1>3. ASSUME NEW i \in Socks
      PROVE  /\ Released(K)[i] = Cardinality(UsersOf(i, InUse \ K))
             /\ IsFiniteSet(UsersOf(i, InUse \ K))
             /\ Released(K)[i] \in 0 .. refcount[i]
  <2> DEFINE A == UsersOf(i, InUse)
             B == UsersOf(i, K)
  <2>1. Released(K)[i] = refcount[i] - Cardinality(B)
    BY DEF Released, UsersOf
  <2>2. refcount[i] = Cardinality(A)
    BY DEF RefCountsExact, UsersOf
  <2>3. A \ B = UsersOf(i, InUse \ K) /\ A \cap B = B
    BY DEF UsersOf
  <2>4. A \in SUBSET InUse /\ B \in SUBSET A
    BY DEF UsersOf
  <2> HIDE DEF A, B
  <2>4a. IsFiniteSet(A)
    BY <1>1, <2>4, FS_Subset
  <2>5. /\ IsFiniteSet(A \ B)
        /\ Cardinality(A \ B) = Cardinality(A) - Cardinality(A \cap B)
    BY <2>4a, FS_Difference
  <2>6. IsFiniteSet(B) /\ Cardinality(B) \in Nat /\ Cardinality(A \ B) \in Nat
    BY <2>4, <2>5, <2>4a, FS_Subset, FS_CardinalityType
  <2>7. refcount[i] \in Nat
    BY <1>1, <1>2
  <2>8. Cardinality(UsersOf(i, InUse \ K)) = Cardinality(A) - Cardinality(B)
    BY <2>3, <2>5
  <2>9. IsFiniteSet(UsersOf(i, InUse \ K))
    BY <2>3, <2>5
  <2>10. Cardinality(UsersOf(i, InUse \ K)) \in Nat
    BY <2>3, <2>6
  <2> QED
    BY <2>1, <2>2, <2>6, <2>7, <2>8, <2>9, <2>10
<1>4. Released(K) = [i \in Socks |-> Released(K)[i]]
  BY DEF Released
<1> QED
  BY <1>1, <1>2, <1>3, <1>4

(* The counts left are numbers.                                            *)
LEMMA ReleasedInt ==
  ASSUME RefCountsExact, NEW K \in SUBSET InUse, NEW i \in Socks
  PROVE  Released(K)[i] \in Int /\ Released(K)[i] + 0 = Released(K)[i]
<1>1. Released(K) \in [Socks -> 0 .. MaxRef] /\ MaxRef \in Nat
  BY ReleasedExact, ForwardAssumption, Zenon
<1> QED
  BY <1>1

(* Freeing nothing changes nothing.                                        *)
LEMMA ReleasedNone ==
  ASSUME TypeOK
  PROVE  Released({}) = refcount
<1>1. refcount \in [Socks -> 0 .. MaxRef] /\ MaxRef \in Nat
  BY ForwardAssumption DEF TypeOK
<1>2. \A i \in Socks : UsersOf(i, {}) = {}
  BY DEF UsersOf
<1>3. \A i \in Socks : Cardinality(UsersOf(i, {})) = 0
  BY <1>2, FS_EmptySet
<1>4. \A i \in Socks : refcount[i] - 0 = refcount[i]
  BY <1>1
<1>5. Released({}) = [i \in Socks |-> refcount[i] - Cardinality(UsersOf(i, {}))]
  BY DEF Released, UsersOf
<1> QED
  BY <1>1, <1>3, <1>4, <1>5

(* Records are freed and others keep their query, identifier and socket:   *)
(* what the table promises stays true.                                     *)
LEMMA Thinned ==
  ASSUME RefCountsExact, RepliesUnambiguous, OneRecordPerQuery,
         NEW K \in SUBSET InUse, InUse' = InUse \ K, refcount' = Released(K),
         \A k \in InUse' : /\ frec_list'[k].rfd4 = frec_list[k].rfd4
                           /\ frec_list'[k].query = frec_list[k].query
                           /\ frec_list'[k].new_id = frec_list[k].new_id
  PROVE  /\ refcount' \in [Socks -> 0 .. MaxRef]
         /\ \A i \in Socks :
              refcount'[i] = Cardinality({k \in InUse' : frec_list'[k].rfd4 = i})
         /\ RepliesUnambiguous'
         /\ OneRecordPerQuery'
<1>1. \A i \in Socks :
        {k \in InUse' : frec_list'[k].rfd4 = i} = UsersOf(i, InUse \ K)
  BY DEF UsersOf
<1>2. RepliesUnambiguous'
  BY DEF RepliesUnambiguous
<1>3. OneRecordPerQuery'
  BY DEF OneRecordPerQuery
<1> QED
  BY <1>1, <1>2, <1>3, ReleasedExact, Zenon

(* While the list of servers stays, pointers are copied or set to listed   *)
(* servers.                                                                *)
LEMMA PointersKept ==
  ASSUME TypeOK, PointersTracked, UNCHANGED <<opts, servers>>,
         last_server' \in Listed \cup {NULL} \cup Pointers,
         srv_save' \in Listed \cup {NULL} \cup Pointers,
         \A k \in InUse' : frec_list'[k].sentto \in Listed \cup Pointers
  PROVE  PointersTracked'
<1>1. Listed' = Listed /\ NO_POLL' = NO_POLL
  BY DEF Listed, NO_POLL
<1>2. FREED \notin Listed \cup {NULL}
  <2>1. Listed \subseteq Servers
    BY ElementOfSeq, LenProperties DEF TypeOK, Listed, ToSet
  <2> QED
    BY <2>1, ForwardAssumption
<1>3. ASSUME NEW p \in Pointers' PROVE p \in Listed \cup {NULL} \cup Pointers
  BY DEF Pointers
<1>4. Pointers' \subseteq Listed \cup {NULL, FREED}
  BY <1>3 DEF PointersTracked
<1>5. FREED \in Pointers' => FREED \in Pointers
  BY <1>2, <1>3
<1> QED
  BY <1>1, <1>4, <1>5 DEF PointersTracked

-----------------------------------------------------------------------------
(* The program starts with no record and no pointer.                       *)
LEMMA InitFInv == Init => FInv
<1> SUFFICES ASSUME Init PROVE FInv
  OBVIOUS
<1>1. PICK D \in SUBSET CmdServers : servers \in Only(CmdList, CmdServers \ D)
  BY Zenon DEF Init
<1>2. servers \in Seq(Servers)
  <2>1. servers \in Seq(CmdServers)
    BY <1>1, OnlyFacts, ForwardAssumption
  <2> QED
    BY <2>1 DEF Servers
<1>3. frec_list = <<>> /\ Len(frec_list) = 0 /\ InUse = {}
  BY DEF Init, InUse
<1>4. TypeOK
  <2>1. refcount \in [Socks -> 0 .. MaxRef]
    BY ForwardAssumption DEF Init
  <2>2. frec_list \in Seq(Frec \cup {NULL})
    BY DEF Init
  <2> QED
    BY <1>2, <2>1, <2>2, Zenon DEF Init, TypeOK
<1>5. \A i \in Socks : {k \in InUse : frec_list[k].rfd4 = i} = {}
  BY <1>3
<1>6. RefCountsExact
  BY <1>4, <1>5, FS_EmptySet, Zenon DEF RefCountsExact, Init
<1>7. PointersTracked
  BY <1>3, ForwardAssumption DEF PointersTracked, Pointers, Init
<1> QED
  BY <1>3, <1>6, <1>7, ForwardAssumption
     DEF FInv, RepliesUnambiguous, OneRecordPerQuery, TableBounded, AnswersCounted

(* A record a second older.                                                *)
LEMMA OlderRecord ==
  ASSUME NEW f \in Frec, f.age < 4 * TIMEOUT
  PROVE  LET g == [f EXCEPT !.age = @ + 1]
         IN /\ g \in Frec
            /\ g.rfd4 = f.rfd4 /\ g.query = f.query /\ g.new_id = f.new_id
            /\ g.sentto = f.sentto /\ g.forwardall = f.forwardall
<1>1. f.age + 1 \in 0 .. 4 * TIMEOUT
  BY ForwardAssumption DEF Frec
<1> QED
  BY <1>1 DEF Frec

(* Time only ages the records.                                             *)
LEMMA TickFInv == FInv /\ Tick => FInv'
<1> SUFFICES ASSUME FInv, Tick PROVE FInv'
  OBVIOUS
<1> USE DEF FInv
<1>0. TypeOK
  BY DEF RefCountsExact
<1>1. ASSUME NEW k \in InUse
      PROVE  /\ frec_list'[k] \in Frec
             /\ frec_list'[k].rfd4 = frec_list[k].rfd4
             /\ frec_list'[k].query = frec_list[k].query
             /\ frec_list'[k].new_id = frec_list[k].new_id
             /\ frec_list'[k].sentto = frec_list[k].sentto
             /\ frec_list'[k].forwardall = frec_list[k].forwardall
  <2>1. k \in 1 .. Len(frec_list) /\ frec_list[k] \in Frec
    BY <1>0, RecordFacts
  <2>2. frec_list'[k] = IF frec_list[k].age < 4 * TIMEOUT
                        THEN [frec_list[k] EXCEPT !.age = @ + 1]
                        ELSE frec_list[k]
    BY <2>1 DEF Tick
  <2>3. CASE frec_list[k].age < 4 * TIMEOUT
    BY <2>1, <2>2, <2>3, OlderRecord
  <2>4. CASE ~(frec_list[k].age < 4 * TIMEOUT)
    BY <2>1, <2>2, <2>4
  <2> QED
    BY <2>3, <2>4
<1>2. \A k \in 1 .. Len(frec_list) : k \notin InUse => frec_list'[k] = NULL
  BY <1>0, RecordFacts DEF Tick
<1>3. /\ frec_list' \in Seq(Frec \cup {NULL})
      /\ Len(frec_list') = Len(frec_list)
  <2>1. Len(frec_list) \in Nat
    BY <1>0, RecordFacts
  <2>2. DOMAIN frec_list' = 1 .. Len(frec_list)
    BY DEF Tick
  <2>3. frec_list' \in [1 .. Len(frec_list) -> Frec \cup {NULL}]
    <3>1. \A k \in 1 .. Len(frec_list) : frec_list'[k] \in Frec \cup {NULL}
      BY <1>1, <1>2
    <3>2. frec_list' = [k \in 1 .. Len(frec_list) |-> frec_list'[k]]
      BY DEF Tick
    <3> QED
      BY <3>1, <3>2
  <2> QED
    BY <2>1, <2>2, <2>3
<1>4. InUse' = InUse
  BY <1>1, <1>2, <1>3, NullAssumption DEF InUse
<1>5. refcount' = Released({}) /\ InUse' = InUse \ {}
  BY <1>0, <1>4, ReleasedNone DEF Tick
<1>6. /\ refcount' \in [Socks -> 0 .. MaxRef]
      /\ \A i \in Socks :
           refcount'[i] = Cardinality({k \in InUse' : frec_list'[k].rfd4 = i})
      /\ RepliesUnambiguous'
      /\ OneRecordPerQuery'
  BY <1>1, <1>4, <1>5, Thinned
<1>7. TypeOK'
  BY <1>0, <1>3, <1>6, Zenon DEF TypeOK, Tick
<1>8. /\ UNCHANGED <<opts, servers>>
      /\ last_server' \in Pointers /\ srv_save' \in Pointers
      /\ \A k \in InUse' : frec_list'[k].sentto \in Pointers
  BY <1>1, <1>4, Zenon DEF Tick, Pointers
<1>9. PointersTracked'
  BY <1>0, <1>8, PointersKept
<1>10. AnswersCounted'
  BY <1>1, <1>4 DEF AnswersCounted
<1>11. TableBounded'
  BY <1>3 DEF TableBounded
<1> QED
  BY <1>6, <1>7, <1>9, <1>10, <1>11 DEF RefCountsExact

-----------------------------------------------------------------------------
(* The servers listed are servers, and a pointer can be typed.             *)
LEMMA ListedFacts ==
  ASSUME TypeOK
  PROVE  /\ Listed \subseteq Servers
         /\ \A p : PointersTracked /\ p \in Listed \cup {NULL} \cup Pointers
                     => p \in Servers \cup {NULL, FREED}
<1>1. Listed \subseteq Servers
  BY ElementOfSeq, LenProperties DEF TypeOK, Listed, ToSet
<1> QED
  BY <1>1 DEF PointersTracked

(* A step that frees the records K, of those in use, and leaves the others *)
(* as they are.                                                            *)
LEMMA FreeingFInv ==
  ASSUME FInv, NEW K \in SUBSET InUse, InUse' = InUse \ K,
         refcount' = Released(K),
         frec_list' \in Seq(Frec \cup {NULL}), Len(frec_list') <= ftabsize + 1,
         \A k \in InUse' : frec_list'[k] = frec_list[k],
         UNCHANGED <<opts, servers>>,
         listening' \in BOOLEAN, undefined' \in BOOLEAN,
         last_server' \in Listed \cup {NULL} \cup Pointers,
         srv_save' \in Listed \cup {NULL} \cup Pointers
  PROVE  FInv'
<1>0. TypeOK
  BY DEF FInv, RefCountsExact
<1>1. \A k \in InUse' : /\ frec_list'[k].rfd4 = frec_list[k].rfd4
                        /\ frec_list'[k].query = frec_list[k].query
                        /\ frec_list'[k].new_id = frec_list[k].new_id
  OBVIOUS
<1>2. /\ refcount' \in [Socks -> 0 .. MaxRef]
      /\ \A i \in Socks :
           refcount'[i] = Cardinality({k \in InUse' : frec_list'[k].rfd4 = i})
      /\ RepliesUnambiguous'
      /\ OneRecordPerQuery'
  BY <1>1, Thinned DEF FInv
<1>3. /\ last_server' \in Servers \cup {NULL, FREED}
      /\ srv_save' \in Servers \cup {NULL, FREED}
  BY <1>0, ListedFacts DEF FInv
<1>4. TypeOK'
  BY <1>0, <1>2, <1>3 DEF TypeOK
<1>5. \A k \in InUse' : frec_list'[k].sentto \in Pointers
  BY DEF Pointers
<1>6. PointersTracked'
  BY <1>0, <1>5, PointersKept DEF FInv
<1>7. AnswersCounted'
  BY DEF FInv, AnswersCounted
<1>8. TableBounded'
  BY DEF TableBounded
<1> QED
  BY <1>2, <1>4, <1>6, <1>7, <1>8 DEF FInv, RefCountsExact

(* What changes nothing but the flags and, at most, forgets a pointer.     *)
LEMMA IdleFInv ==
  ASSUME FInv, UNCHANGED <<opts, servers, frec_list, refcount, last_server>>,
         listening' \in BOOLEAN, undefined' \in BOOLEAN,
         srv_save' \in {NULL, srv_save}
  PROVE  FInv'
<1>0. TypeOK /\ TableBounded
  BY DEF FInv, RefCountsExact
<1>1. refcount' = Released({}) /\ InUse' = InUse \ {}
  BY <1>0, ReleasedNone DEF InUse
<1>2. /\ frec_list' \in Seq(Frec \cup {NULL}) /\ Len(frec_list') <= ftabsize + 1
      /\ \A k \in InUse' : frec_list'[k] = frec_list[k]
  BY <1>0 DEF TypeOK, TableBounded
<1>3. /\ last_server' \in Listed \cup {NULL} \cup Pointers
      /\ srv_save' \in Listed \cup {NULL} \cup Pointers
  BY DEF Pointers
<1> QED
  BY <1>1, <1>2, <1>3, FreeingFInv

(* The table after get_new_frec and what its caller stores.                *)
LEMMA PutFacts ==
  ASSUME TypeOK, NEW K \in SUBSET InUse, NEW k \in 1 .. Len(frec_list) + 1,
         NEW f \in Frec \cup {NULL}, frec_list' = Put(k, f, K)
  PROVE  /\ frec_list' \in Seq(Frec \cup {NULL})
         /\ Len(frec_list') = IF k > Len(frec_list) THEN k ELSE Len(frec_list)
         /\ frec_list'[k] = f
         /\ InUse' = (InUse \ (K \cup {k})) \cup (IF f = NULL THEN {} ELSE {k})
         /\ \A j \in InUse \ (K \cup {k}) : frec_list'[j] = frec_list[j]
<1> DEFINE n == IF k > Len(frec_list) THEN k ELSE Len(frec_list)
<1>1. /\ Len(frec_list) \in Nat
      /\ \A j \in 1 .. Len(frec_list) : frec_list[j] \in Frec \cup {NULL}
      /\ InUse \subseteq 1 .. Len(frec_list)
  BY RecordFacts DEF TypeOK
<1>2. /\ n \in Nat /\ Len(frec_list) <= n /\ k \in 1 .. n
      /\ \A j \in 1 .. n : j # k => j \in 1 .. Len(frec_list)
  BY <1>1
<1>3. frec_list' = [j \in 1 .. n |-> IF j = k THEN f
                                     ELSE IF j \in K THEN NULL ELSE frec_list[j]]
  BY DEF Put
<1> HIDE DEF n
<1>4. frec_list' \in [1 .. n -> Frec \cup {NULL}]
  BY <1>1, <1>2, <1>3
<1>5. frec_list' \in Seq(Frec \cup {NULL}) /\ Len(frec_list') = n
  BY <1>2, <1>4
<1>6. frec_list'[k] = f
  BY <1>2, <1>3
<1>7. \A j \in 1 .. n : j # k =>
        frec_list'[j] = IF j \in K THEN NULL ELSE frec_list[j]
  BY <1>3
<1>8. ASSUME NEW j \in InUse \ (K \cup {k}) PROVE frec_list'[j] = frec_list[j]
  <2>1. j \in 1 .. n
    BY <1>1, <1>2
  <2> QED
    BY <1>7, <2>1
<1>9. \A j \in 1 .. n : j # k =>
        (frec_list'[j] # NULL <=> j \in InUse \ (K \cup {k}))
  BY <1>2, <1>7 DEF InUse
<1>10. \A j \in InUse : j \in 1 .. n
  BY <1>1, <1>2
<1>11. InUse' = {j \in 1 .. n : frec_list'[j] # NULL}
  BY <1>5 DEF InUse
<1>12. InUse' = (InUse \ (K \cup {k})) \cup (IF f = NULL THEN {} ELSE {k})
  BY <1>2, <1>6, <1>9, <1>10, <1>11
<1> QED
  BY <1>5, <1>6, <1>8, <1>12 DEF n

-----------------------------------------------------------------------------
(* A listed server has a position.                                         *)
LEMMA PosFacts ==
  ASSUME TypeOK, NEW s \in Listed
  PROVE  Pos(s) \in 1 .. Len(servers) /\ Len(servers) \in Nat \ {0}
<1>1. Len(servers) \in Nat /\ DOMAIN servers = 1 .. Len(servers)
  BY DEF TypeOK
<1>2. \E i \in 1 .. Len(servers) : servers[i] = s
  BY <1>1 DEF Listed, ToSet
<1>3. Pos(s) \in 1 .. Len(servers)
  BY <1>2 DEF Pos
<1> QED
  BY <1>1, <1>3

(* The last server reached is one of those reached.                        *)
LEMMA LastOfMember ==
  ASSUME TypeOK, NEW start \in Listed, NEW S \in SUBSET Listed, S # {}
  PROVE  LastOf(start, S) \in S
<1> DEFINE T == {Dist(start, s) : s \in S}
<1>1. Len(servers) \in Nat \ {0} /\ Pos(start) \in Int
  BY PosFacts
<1>2. ASSUME NEW s \in S PROVE Dist(start, s) \in 0 .. Len(servers)
  <2>1. Pos(s) \in Int
    BY PosFacts
  <2> QED
    BY <1>1, <2>1 DEF Dist
<1>3. T \in SUBSET (0 .. Len(servers)) /\ T # {}
  BY <1>2
<1>4. PICK x \in T : \A y \in T : y <= x
  <2> HIDE DEF T
  <2> QED
    BY <1>1, <1>3, GreatestExists, Zenon
<1>5. \E s \in S : \A t \in S : Dist(start, t) <= Dist(start, s)
  BY <1>4
<1> QED
  BY <1>5 DEF LastOf

(* How many servers are sent to.                                           *)
LEMMA SentFacts ==
  ASSUME TypeOK, NEW S \in SUBSET Listed, S # {}
  PROVE  Cardinality(S) \in 1 .. Cardinality(Servers) /\ Cardinality(Servers) \in Nat
<1>1. IsFiniteSet(Servers) /\ S \in SUBSET Servers
  BY ForwardAssumption, ListedFacts
<1>2. /\ IsFiniteSet(S) /\ Cardinality(S) <= Cardinality(Servers)
      /\ Cardinality(Servers) \in Nat /\ Cardinality(S) \in Nat
  BY <1>1, FS_Subset, FS_CardinalityType
<1>3. Cardinality(S) # 0
  BY <1>2, FS_EmptySet
<1> QED
  BY <1>2, <1>3

(* The socket forward_query refers to for the record k, the records K being *)
(* free, is below its limit of references once k has given up its own.     *)
LEMMA TakenBelow ==
  ASSUME RefCountsExact, NEW K \in SUBSET InUse, NEW k, NEW i \in Socks,
         \/ i \in allocate_rfd(Released(K))
         \/ k \in InUse \ K /\ i = frec_list[k].rfd4,
         NEW L \in SUBSET InUse, L = K \cup ({k} \cap InUse)
  PROVE  Released(L)[i] < MaxRef
<1> DEFINE rest == UsersOf(i, InUse \ L)
           before == UsersOf(i, InUse \ K)
<1>1. MaxRef \in Nat
  BY ForwardAssumption
<1>2. /\ Released(L) \in [Socks -> 0 .. MaxRef]
      /\ Released(L)[i] = Cardinality(rest)
  BY ReleasedExact, Zenon
<1>3. /\ Released(K) \in [Socks -> 0 .. MaxRef]
      /\ Released(K)[i] = Cardinality(before) /\ IsFiniteSet(before)
  BY ReleasedExact, Zenon
<1>4. Released(L)[i] \in 0 .. MaxRef /\ Released(K)[i] \in 0 .. MaxRef
  BY <1>2, <1>3, Zenon
<1>5. rest \in SUBSET before /\ k \notin rest
  BY DEF UsersOf
<1>6. k \in InUse \ K /\ i = frec_list[k].rfd4 => k \in before
  BY DEF UsersOf
<1> HIDE DEF rest, before
<1>7. /\ Cardinality(rest) <= Cardinality(before)
      /\ Cardinality(rest) = Cardinality(before) => rest = before
  BY <1>3, <1>5, FS_Subset, Zenon
<1>8. CASE i \in allocate_rfd(Released(K))
  <2>1. Released(K)[i] # MaxRef
    BY <1>8, ForwardAssumption DEF allocate_rfd, Socks
  <2>2. Released(L)[i] <= Released(K)[i]
    BY <1>2, <1>3, <1>7
  <2> QED
    BY <1>1, <1>4, <2>1, <2>2
<1>9. CASE k \in InUse \ K /\ i = frec_list[k].rfd4
  <2>1. Cardinality(rest) # Cardinality(before)
    BY <1>5, <1>6, <1>7, <1>9
  <2>2. Released(L)[i] < Released(K)[i]
    BY <1>2, <1>3, <1>4, <1>7, <2>1
  <2> QED
    BY <1>1, <1>4, <2>2
<1> QED
  BY <1>8, <1>9

(* The count of socket i when the record k joins its users, the records L  *)
(* being free.                                                             *)
LEMMA TakenExact ==
  ASSUME RefCountsExact, NEW L \in SUBSET InUse, NEW k, k \notin InUse \ L,
         NEW i \in Socks, Released(L)[i] < MaxRef
  PROVE  /\ Released(L)[i] + 1 \in 0 .. MaxRef
         /\ Released(L)[i] + 1 = Cardinality(UsersOf(i, InUse \ L) \cup {k})
<1> DEFINE rest == UsersOf(i, InUse \ L)
<1>1. MaxRef \in Nat
  BY ForwardAssumption
<1>2. /\ Released(L) \in [Socks -> 0 .. MaxRef]
      /\ Released(L)[i] = Cardinality(rest) /\ IsFiniteSet(rest)
  BY ReleasedExact, Zenon
<1>3. Released(L)[i] \in 0 .. MaxRef
  BY <1>2
<1>4. k \notin rest
  BY DEF UsersOf
<1> HIDE DEF rest
<1>5. Cardinality(rest \cup {k}) = Cardinality(rest) + 1
  BY <1>2, <1>4, FS_AddElement, Zenon
<1>6. Released(L)[i] + 1 \in 0 .. MaxRef
  BY <1>1, <1>3
<1> QED
  BY <1>2, <1>5, <1>6 DEF rest

(* The rest of forward_query, for a query and an identifier that no other  *)
(* record has and with at most one reference to a socket taken before.     *)
LEMMA SendOnFInv ==
  ASSUME FInv, NEW K \in SUBSET InUse, NEW k \in 1 .. Len(frec_list) + 1,
         NEW f \in Frec, NEW start \in Listed, NEW d, NEW all \in BOOLEAN,
         SendOn(k, f, K, start, d, all),
         f.rfd4 = NULL \/ (k \in InUse \ K /\ f.rfd4 = frec_list[k].rfd4),
         k > Len(frec_list) => Len(frec_list) <= ftabsize,
         \A j \in InUse \ (K \cup {k}) :
           /\ frec_list[j].query # f.query
           /\ \/ frec_list[j].new_id # f.new_id
              \/ frec_list[j].query.crc # f.query.crc,
         UNCHANGED <<opts, servers, listening, undefined>>,
         last_server' \in {last_server, NULL}
  PROVE  FInv'
<1>0. /\ TypeOK /\ RefCountsExact /\ RepliesUnambiguous /\ OneRecordPerQuery
      /\ TableBounded /\ AnswersCounted /\ PointersTracked
      /\ Len(frec_list) \in Nat /\ ftabsize \in Nat
  BY RecordFacts, ForwardAssumption, Zenon DEF FInv, RefCountsExact
<1>1. PICK F \in SUBSET For(d), rfd \in Socks \cup {NULL} :
        LET sent == Sent(start, d, all, F, rfd # NULL)
            record == [f EXCEPT !.sentto = LastOf(start, sent),
                                !.forwardall = IF all THEN 1 + Cardinality(sent) ELSE 0,
                                !.rfd4 = rfd]
            free == Released(K \cup ({k} \cap InUse))
        IN /\ IF f.rfd4 = NULL /\ Needed(start, d, all, F)
              THEN rfd \in allocate_rfd(Released(K)) ELSE rfd = f.rfd4
           /\ IF sent = {}
              THEN /\ frec_list' = Put(k, NULL, K)
                   /\ refcount' = free
                   /\ srv_save' = NULL
              ELSE /\ frec_list' = Put(k, record, K)
                   /\ refcount' = [i \in Socks |-> free[i] + IF rfd = i THEN 1 ELSE 0]
                   /\ srv_save' = record.sentto
  BY Zenon DEF SendOn
<1> DEFINE sent == Sent(start, d, all, F, rfd # NULL)
           last == LastOf(start, sent)
           n == IF all THEN 1 + Cardinality(sent) ELSE 0
           record == [f EXCEPT !.sentto = last, !.forwardall = n, !.rfd4 = rfd]
           L == K \cup ({k} \cap InUse)
           free == Released(L)
<1>2. IF f.rfd4 = NULL /\ Needed(start, d, all, F)
      THEN rfd \in allocate_rfd(Released(K)) ELSE rfd = f.rfd4
  BY <1>1
<1>3. sent = {} => /\ frec_list' = Put(k, NULL, K)
                   /\ refcount' = free /\ srv_save' = NULL
  BY <1>1
<1>4. sent # {} =>
        /\ frec_list' = Put(k, record, K)
        /\ refcount' = [i \in Socks |-> free[i] + IF rfd = i THEN 1 ELSE 0]
        /\ srv_save' = record.sentto
  BY <1>1, Zenon
<1>5. sent \in SUBSET Listed
  BY DEF Sent, Reached, For
<1>6. L \in SUBSET InUse /\ InUse \ L = InUse \ (K \cup {k})
  BY Zenon
<1> HIDE DEF sent, L
<1>7. /\ listening' \in BOOLEAN /\ undefined' \in BOOLEAN
      /\ last_server' \in Listed \cup {NULL} \cup Pointers
  BY <1>0 DEF TypeOK, Pointers
<1>8. CASE sent = {}
  <2>1. /\ frec_list' \in Seq(Frec \cup {NULL})
        /\ Len(frec_list') = IF k > Len(frec_list) THEN k ELSE Len(frec_list)
        /\ InUse' = InUse \ L
        /\ \A j \in InUse \ L : frec_list'[j] = frec_list[j]
    BY <1>0, <1>3, <1>6, <1>8, PutFacts
  <2>2. Len(frec_list') <= ftabsize + 1
    BY <1>0, <2>1, SMTT(30) DEF TableBounded
  <2>3. srv_save' \in Listed \cup {NULL} \cup Pointers /\ refcount' = Released(L)
    BY <1>3, <1>8
  <2>4. UNCHANGED <<opts, servers>>
    OBVIOUS
  <2> QED
    BY <1>6, <1>7, <2>1, <2>2, <2>3, <2>4, FreeingFInv
<1>9. CASE sent # {}
  <2>1. last \in Listed /\ last \in sent
    BY <1>0, <1>5, <1>9, LastOfMember
  <2>2. Cardinality(sent) \in 1 .. Cardinality(Servers) /\ Cardinality(Servers) \in Nat
    BY <1>0, <1>5, <1>9, SentFacts
  <2>3. n \in 0 .. 1 + Cardinality(Servers) /\ (n = 0 \/ n - 1 \in 1 .. Cardinality(Servers))
    BY <2>2
  <2>4. last \in Servers
    BY <1>0, <2>1, ListedFacts
  <2> HIDE DEF last, n
  <2>5. /\ record \in Frec
        /\ record.rfd4 = rfd /\ record.query = f.query /\ record.new_id = f.new_id
        /\ record.sentto = last /\ record.forwardall = n
    BY <2>3, <2>4, Zenon DEF Frec
  <2>6. frec_list' = Put(k, record, K) /\ srv_save' = last
    BY <1>4, <1>9, <2>5
  <2>7. refcount' = [i \in Socks |-> free[i] + IF rfd = i THEN 1 ELSE 0]
    BY <1>4, <1>9
  <2> HIDE DEF record, free
  <2>8. /\ frec_list' \in Seq(Frec \cup {NULL})
        /\ Len(frec_list') = IF k > Len(frec_list) THEN k ELSE Len(frec_list)
        /\ frec_list'[k] = record
        /\ InUse' = (InUse \ (K \cup {k})) \cup {k}
        /\ \A j \in InUse \ (K \cup {k}) : frec_list'[j] = frec_list[j]
    BY <1>0, <2>5, <2>6, PutFacts, NullAssumption
  <2>9. /\ refcount' \in [Socks -> 0 .. MaxRef]
        /\ \A i \in Socks :
             refcount'[i] = Cardinality({j \in InUse' : frec_list'[j].rfd4 = i})
    <3>1. \/ rfd \in allocate_rfd(Released(K))
          \/ rfd = NULL
          \/ k \in InUse \ K /\ rfd = frec_list[k].rfd4
      BY <1>2
    <3>2. frec_list'[k].rfd4 = rfd
      BY <2>5, <2>8, Zenon
    <3>3. InUse' = (InUse \ L) \cup {k} /\ \A j \in InUse \ L : frec_list'[j] = frec_list[j]
      BY <1>6, <2>8
    <3>4. ASSUME NEW i \in Socks
          PROVE  /\ refcount'[i] \in 0 .. MaxRef
                 /\ refcount'[i] = Cardinality({j \in InUse' : frec_list'[j].rfd4 = i})
      <4> DEFINE U == {j \in InUse' : frec_list'[j].rfd4 = i}
                 c == refcount'[i]
      <4>1. /\ rfd = i => c = Released(L)[i] + 1
            /\ rfd # i => c = Released(L)[i] + 0
        BY <2>7 DEF free
      <4>2. Released(L)[i] + 0 = Released(L)[i]
        BY <1>0, <1>6, ReleasedInt
      <4>3. k \notin InUse \ L
        BY DEF L
      <4>4. rfd = i => U = UsersOf(i, InUse \ L) \cup {k}
        BY <3>2, <3>3 DEF UsersOf
      <4>5. rfd # i => U = UsersOf(i, InUse \ L)
        BY <3>2, <3>3, <4>3 DEF UsersOf
      <4>6. RefCountsExact /\ L \in SUBSET InUse /\ L = K \cup ({k} \cap InUse)
        BY <1>0, <1>6, Zenon DEF L
      <4> HIDE DEF L, U, c
      <4>7. CASE rfd = i
        <5>0. rfd # NULL
          BY <4>7, ForwardAssumption, SMTT(30) DEF Socks
        <5>1. \/ i \in allocate_rfd(Released(K))
              \/ k \in InUse \ K /\ i = frec_list[k].rfd4
          BY <3>1, <4>7, <5>0, Zenon
        <5>2. Released(L)[i] < MaxRef
          BY <4>6, <5>1, TakenBelow, Zenon
        <5>3. /\ Released(L)[i] + 1 \in 0 .. MaxRef
              /\ Released(L)[i] + 1 = Cardinality(UsersOf(i, InUse \ L) \cup {k})
          BY <4>3, <4>6, <5>2, TakenExact, Zenon
        <5>4. c \in 0 .. MaxRef /\ c = Cardinality(U)
          BY <4>1, <4>4, <4>7, <5>3, Zenon
        <5> QED
          BY <5>4, Zenon DEF U, c
      <4>8. CASE rfd # i
        <5>1. /\ Released(L) \in [Socks -> 0 .. MaxRef]
              /\ Released(L)[i] = Cardinality(UsersOf(i, InUse \ L))
          BY <4>6, ReleasedExact, Zenon
        <5>2. c \in 0 .. MaxRef /\ c = Cardinality(U)
          BY <4>1, <4>2, <4>5, <4>8, <5>1, Zenon
        <5> QED
          BY <5>2, Zenon DEF U, c
      <4> QED
        BY <4>7, <4>8
    <3>5. refcount' = [i \in Socks |-> refcount'[i]]
      <4> DEFINE count(i) == free[i] + IF rfd = i THEN 1 ELSE 0
      <4>1. refcount' = [i \in Socks |-> count(i)]
        BY <2>7
      <4> HIDE DEF count
      <4> QED
        BY <4>1, Zenon
    <3>6. refcount' \in [Socks -> 0 .. MaxRef]
      BY <3>4, <3>5, Zenon
    <3> QED
      BY <3>4, <3>6
  <2>10. \A j \in InUse' : j = k \/ (j \in InUse \ (K \cup {k}) /\ frec_list'[j] = frec_list[j])
    BY <2>8, Zenon
  <2>11. frec_list'[k].query = f.query /\ frec_list'[k].new_id = f.new_id
    BY <2>5, <2>8
  <2>12. RepliesUnambiguous'
    BY <1>0, <2>10, <2>11, SMTT(30) DEF RepliesUnambiguous
  <2>13. OneRecordPerQuery'
    BY <1>0, <2>10, <2>11 DEF OneRecordPerQuery
  <2>14. TableBounded'
    BY <1>0, <2>8, SMTT(30) DEF TableBounded
  <2>15. AnswersCounted'
    BY <1>0, <2>3, <2>5, <2>8, <2>10, Zenon DEF AnswersCounted
  <2>16. srv_save' \in Listed \cup {NULL} \cup Pointers
    BY <2>1, <2>6, Zenon
  <2>17. PointersTracked'
    <3>1. \A j \in InUse \ (K \cup {k}) : frec_list[j].sentto \in Pointers
      BY Zenon DEF Pointers
    <3>2. \A j \in InUse' : frec_list'[j].sentto \in Listed \cup Pointers
      BY <2>1, <2>5, <2>8, <2>10, <3>1
    <3>3. UNCHANGED <<opts, servers>>
      BY Zenon
    <3> QED
      BY <1>0, <1>7, <2>16, <3>2, <3>3, PointersKept, Zenon
  <2>18. TypeOK'
    <3>1. /\ last_server' \in Servers \cup {NULL, FREED}
          /\ srv_save' \in Servers \cup {NULL, FREED}
      BY <1>0, <1>7, <2>16, ListedFacts, Zenon
    <3> QED
      BY <1>0, <1>7, <2>8, <2>9, <3>1, Zenon DEF TypeOK
  <2> QED
    BY <2>9, <2>12, <2>13, <2>14, <2>15, <2>17, <2>18, Zenon DEF FInv, RefCountsExact
<1> QED
  BY <1>8, <1>9
=============================================================================
