-------------------------- MODULE DnrdRelayProofs --------------------------
(***************************************************************************)
(* The relay loop of dnrd: it uses the query list only as DnrdQuery        *)
(* specifies, and a domain's current server is always an active one of its *)
(* own list, for every number of servers and domains.                      *)
(***************************************************************************)
EXTENDS DnrdRelay, DnrdQueryProofs, WellFoundedInduction

(* The inductive invariant.  CurrentIsActive alone is not inductive: the   *)
(* forwarding step needs the types of the list's nodes and of the server   *)
(* tables.                                                                 *)
RInv == QInv /\ RTypeOK /\ CurrentIsActive

-----------------------------------------------------------------------------
(* A nonempty set of naturals has a least element.                         *)
LEMMA LeastExists ==
  ASSUME NEW T \in SUBSET Nat, T # {}
  PROVE  \E x \in T : \A y \in T : x <= y
<1> DEFINE R == OpToRel(<, Nat)
<1>1. PICK x \in T : \A y \in T : ~(<<y, x>> \in R)
  BY NatLessThanWellFounded, WFMin, Zenon
<1>2. ASSUME NEW y \in T PROVE x <= y
  <2>1. ~(<<y, x>> \in R)
    BY <1>1
  <2>2. x \in Nat /\ y \in Nat
    OBVIOUS
  <2>3. ~(y < x)
    BY <2>1, <2>2 DEF OpToRel
  <2> QED
    BY <2>2, <2>3
<1> QED
  BY <1>2

(* Every srvnode has a position on the ring.                               *)
LEMMA PosType ==
  ASSUME NEW s \in Servers \cup {NULL}
  PROVE  Pos(s) \in 0 .. Len(SrvNodes)
<1>1. Len(SrvNodes) \in Nat
  BY ServersAssumption
<1>2. CASE s = NULL
  BY <1>1, <1>2 DEF Pos
<1>3. CASE s # NULL
  <2>1. \E i \in 1 .. Len(SrvNodes) : SrvNodes[i] = s
    BY <1>3, ServersAssumption
  <2>2. Pos(s) = CHOOSE i \in 1 .. Len(SrvNodes) : SrvNodes[i] = s
    BY <1>3 DEF Pos
  <2>3. Pos(s) \in 1 .. Len(SrvNodes)
    BY <2>1, <2>2
  <2> QED
    BY <1>1, <2>3
<1> QED
  BY <1>2, <1>3

(* The walk along the ring finds a member of S whenever there is one.      *)
LEMMA FirstFromMember ==
  ASSUME NEW p \in Int, NEW S \in SUBSET Servers
  PROVE  /\ S = {} => FirstFrom(p, S) = NULL
         /\ S # {} => FirstFrom(p, S) \in S
<1>1. CASE S = {}
  BY <1>1 DEF FirstFrom
<1>2. CASE S # {}
  <2> DEFINE dist(s) == (Pos(s) - p) % Ring
             T == {dist(s) : s \in S}
  <2>1. Ring \in Nat \ {0}
    BY ServersAssumption DEF Ring
  <2>2. \A s \in S : Pos(s) \in Int
    BY PosType, ServersAssumption
  <2>3. \A s \in S : dist(s) \in Nat
    BY <2>1, <2>2
  <2>4. T \in SUBSET Nat /\ T # {}
    BY <1>2, <2>3
  <2>5. PICK x \in T : \A y \in T : x <= y
    BY <2>4, LeastExists
  <2>6. \E s \in S : \A t \in S : dist(s) <= dist(t)
    BY <2>5
  <2> QED
    BY <1>2, <2>6 DEF FirstFrom
<1> QED
  BY <1>1, <1>2

(* next_active answers NULL or an active server of the domain.             *)
LEMMA NextActiveIsActive ==
  ASSUME NEW d \in Domains, NEW cur \in Servers \cup {NULL}, NEW ina,
         next_active(d, cur, ina) # NULL
  PROVE  /\ next_active(d, cur, ina) \in ServersOf(d)
         /\ ina[next_active(d, cur, ina)] = Unset
<1> DEFINE S == {s \in ServersOf(d) : ina[s] = Unset}
<1>1. Pos(cur) + 1 \in Int
  BY PosType, ServersAssumption
<1>2. S \in SUBSET Servers
  BY DEF ServersOf
<1>3. next_active(d, cur, ina) = FirstFrom(Pos(cur) + 1, S)
  BY DEF next_active
<1> HIDE DEF S
<1>4. next_active(d, cur, ina) \in S
  BY <1>1, <1>2, <1>3, FirstFromMember
<1> QED
  BY <1>4 DEF S

(* Its result is a srvnode or NULL.                                        *)
LEMMA NextActiveType ==
  ASSUME NEW d \in Domains, NEW cur \in Servers \cup {NULL}, NEW ina
  PROVE  next_active(d, cur, ina) \in Servers \cup {NULL}
BY NextActiveIsActive DEF ServersOf

(* A table of ages, of current servers, and what the relay keeps true of   *)
(* the two together.                                                       *)
AgeTable == [Servers -> Unset .. ReactivateInterval]

CurrentTable == [Domains -> Servers \cup {NULL}]

Agree(cur, ina) ==
  \A d \in Domains :
    cur[d] # NULL => cur[d] \in ServersOf(d) /\ ina[cur[d]] = Unset

(* Deactivating servers starts their clocks at 0.                          *)
LEMMA SetInactiveType ==
  ASSUME NEW ina \in AgeTable, NEW S
  PROVE  set_inactive(ina, S) \in AgeTable
BY TimesAssumption DEF AgeTable, set_inactive, Unset

(* What handle_query does to a domain's current server: it is dropped when *)
(* overdue, and then replaced by an active one or by NULL.                 *)
LEMMA PickAgrees ==
  ASSUME RInv, NEW d \in Domains
  PROVE  /\ Inactive1(d) \in AgeTable
         /\ Current1(d) \in CurrentTable
         /\ Agree(Current1(d), Inactive1(d))
<1> DEFINE from == IF d \in RoundRobin THEN current[d] ELSE NULL
           p == Picked(d)
           c == IF Dropped(d) = {} THEN p
                ELSE next_active(d, p, Inactive1(d))
<1>0. /\ inactive \in AgeTable /\ current \in CurrentTable
      /\ Agree(current, inactive)
  BY DEF RInv, RTypeOK, CurrentIsActive, AgeTable, CurrentTable, Agree
<1>1. from \in Servers \cup {NULL}
  BY <1>0 DEF CurrentTable
<1>2. p = next_active(d, from, inactive)
  BY DEF Picked
<1> HIDE DEF from, p
<1>3. /\ p \in Servers \cup {NULL}
      /\ p # NULL => p \in ServersOf(d) /\ inactive[p] = Unset
  BY <1>1, <1>2, NextActiveIsActive, NextActiveType
<1>4. Dropped(d) \subseteq {p} \ {NULL}
  BY DEF Dropped, p
<1>5. Inactive1(d) \in AgeTable
  BY <1>0, SetInactiveType DEF Inactive1
<1>6. \A s \in Servers : s \notin Dropped(d) => Inactive1(d)[s] = inactive[s]
  BY DEF Inactive1, set_inactive
<1>7. /\ c \in Servers \cup {NULL}
      /\ c # NULL => c \in ServersOf(d) /\ Inactive1(d)[c] = Unset
  <2>1. CASE Dropped(d) = {}
    BY <1>3, <1>6, <2>1 DEF ServersOf
  <2>2. CASE Dropped(d) # {}
    BY <1>3, <2>2, NextActiveIsActive, NextActiveType
  <2> QED
    BY <2>1, <2>2
<1>8. Current1(d) = [current EXCEPT ![d] = c]
  BY DEF Current1, p
<1> HIDE DEF c
<1>9. Current1(d) \in CurrentTable
  BY <1>0, <1>7, <1>8 DEF CurrentTable
<1>10. ASSUME NEW e \in Domains, Current1(d)[e] # NULL
       PROVE  /\ Current1(d)[e] \in ServersOf(e)
              /\ Inactive1(d)[Current1(d)[e]] = Unset
  <2>1. CASE e = d
    BY <1>0, <1>7, <1>8, <1>10, <2>1 DEF CurrentTable
  <2>2. CASE e # d
    <3>1. Current1(d)[e] = current[e] /\ current[e] \in ServersOf(e)
      BY <1>0, <1>8, <1>10, <2>2 DEF CurrentTable, Agree
    <3>2. current[e] \notin Dropped(d)
      BY <1>3, <1>4, <2>2, <3>1 DEF ServersOf
    <3>3. inactive[current[e]] = Unset
      BY <1>0, <1>10, <3>1 DEF Agree
    <3> QED
      BY <1>6, <3>1, <3>2, <3>3 DEF ServersOf
  <2> QED
    BY <2>1, <2>2
<1> QED
  BY <1>5, <1>9, <1>10 DEF Agree

(* send2current keeps the tables in agreement: the server a datagram left  *)
(* for did not fail, and every server that failed is not current.          *)
LEMMA SendAgrees ==
  ASSUME NEW cur \in CurrentTable, NEW ina \in AgeTable, Agree(cur, ina),
         NEW e \in Domains, NEW F
  PROVE  LET to == send2current(e, cur, ina, F)
             ina2 == set_inactive(ina, Failed(e, cur, ina, F))
         IN /\ to \in Servers \cup {NULL}
            /\ ina2 \in AgeTable
            /\ [cur EXCEPT ![e] = to] \in CurrentTable
            /\ Agree([cur EXCEPT ![e] = to], ina2)
<1> DEFINE to == send2current(e, cur, ina, F)
           fail == Failed(e, cur, ina, F)
           ina2 == set_inactive(ina, fail)
           T == Tried(e, cur, ina) \ F
<1>1. T \in SUBSET Servers /\ T \subseteq Tried(e, cur, ina)
  BY DEF Tried, ServersOf
<1>2. Pos(cur[e]) \in Int
  BY PosType, ServersAssumption DEF CurrentTable
<1>3. to = FirstFrom(Pos(cur[e]), T)
  BY DEF send2current
<1>4. to = NULL \/ to \in T
  <2> HIDE DEF T, to
  <2> QED
    BY <1>1, <1>2, <1>3, FirstFromMember
<1>5. to # NULL => /\ to \in ServersOf(e) /\ ina[to] = Unset
  <2> SUFFICES ASSUME to # NULL
               PROVE  to \in ServersOf(e) /\ ina[to] = Unset
    OBVIOUS
  <2>1. to \in Tried(e, cur, ina)
    BY <1>1, <1>4
  <2>2. to \in ServersOf(e) /\ cur[e] # NULL /\ (to = cur[e] \/ ina[to] = Unset)
    BY <2>1 DEF Tried
  <2> QED
    BY <2>2 DEF Agree
<1>6. to # NULL => to \notin fail
  <2> SUFFICES ASSUME to # NULL, to \in fail PROVE FALSE
    OBVIOUS
  <2>1. (Pos(to) - Pos(cur[e])) % Ring < (Pos(to) - Pos(cur[e])) % Ring
    BY DEF Failed
  <2>2. (Pos(to) - Pos(cur[e])) % Ring \in Int
    <3>1. Ring \in Nat \ {0}
      BY ServersAssumption DEF Ring
    <3>2. to \in Servers
      BY <1>5 DEF ServersOf
    <3>3. Pos(to) \in Int
      BY <3>2, PosType, ServersAssumption
    <3> HIDE DEF to
    <3> QED
      BY <1>2, <3>1, <3>3
  <2> HIDE DEF to
  <2> QED
    BY <2>1, <2>2
<1>7. fail \subseteq ServersOf(e)
  BY DEF Failed, Tried
<1>8. \A s \in Servers : s \notin fail => ina2[s] = ina[s]
  BY DEF set_inactive
<1>9. ina2 \in AgeTable
  BY SetInactiveType
<1>10. to \in Servers \cup {NULL}
  BY <1>5 DEF ServersOf
<1> HIDE DEF to, fail, ina2
<1>11. [cur EXCEPT ![e] = to] \in CurrentTable
  BY <1>10 DEF CurrentTable
<1>12. Agree([cur EXCEPT ![e] = to], ina2)
  <2> SUFFICES ASSUME NEW d \in Domains, [cur EXCEPT ![e] = to][d] # NULL
               PROVE  /\ [cur EXCEPT ![e] = to][d] \in ServersOf(d)
                      /\ ina2[[cur EXCEPT ![e] = to][d]] = Unset
    BY DEF Agree
  <2>1. CASE d = e
    BY <1>5, <1>6, <1>8, <2>1 DEF CurrentTable, ServersOf
  <2>2. CASE d # e
    <3>1. [cur EXCEPT ![e] = to][d] = cur[d] /\ cur[d] # NULL
      BY <2>2 DEF CurrentTable
    <3>2. cur[d] \in ServersOf(d) /\ ina[cur[d]] = Unset
      BY <3>1 DEF Agree
    <3>3. cur[d] \notin fail
      BY <1>7, <2>2, <3>2 DEF ServersOf
    <3> QED
      BY <1>8, <3>1, <3>2, <3>3 DEF ServersOf
  <2> QED
    BY <2>1, <2>2
<1> QED
  BY <1>9, <1>10, <1>11, <1>12 DEF to, fail, ina2

-----------------------------------------------------------------------------
(* Every step of run() performs one operation of DnrdQuery on the list, or *)
(* leaves the list alone.                                                  *)
LEMMA ListStep ==
  ASSUME RInv, Next
  PROVE  QNext \/ UNCHANGED qvars
<1>0. /\ \A k \in 1 .. Len(qlist) : qlist[k] \in Query
      /\ current \in CurrentTable
  BY NodeFacts DEF RInv, QInv, RTypeOK, CurrentTable
<1>1. CASE Tick
  BY <1>1 DEF Tick, QNext
<1>2. CASE Wake
  BY <1>2 DEF Wake
<1>3. CASE Retry
  <2>1. CASE RetryDone
    BY <2>1 DEF RetryDone
  <2>2. ASSUME NEW s \in Servers, RetrySkips(s)
        PROVE  UNCHANGED qvars
    BY <2>2 DEF RetrySkips
  <2>3. ASSUME NEW s \in Servers, NEW id \in Ids, RetryLacksSocket(s, id)
        PROVE  UNCHANGED qvars
    BY <2>3 DEF RetryLacksSocket
  <2>4. ASSUME NEW s \in Servers, NEW id \in Ids, NEW to \in SUBSET {s},
               RetryProbes(s, id, to)
        PROVE  QNext
    <3>1. to \in SUBSET Servers
      OBVIOUS
    <3>2. ASSUME NEW k \in InList(id), query_found(k, ReactivateInterval, to)
          PROVE  QNext
      BY <3>1, <3>2 DEF InList, QNext
    <3>3. ASSUME NEW i \in myrand,
                 query_add(NULL, s, NULL, id, i, ReactivateInterval, to)
          PROVE  QNext
      BY <3>1, <3>3 DEF QNext
    <3> QED
      BY <2>4, <3>2, <3>3 DEF RetryProbes
  <2> QED
    BY <1>3, <2>1, <2>2, <2>3, <2>4 DEF Retry
<1>4. CASE Proceed \/ Interrupted
  BY <1>4 DEF Proceed, Interrupted, Check
<1>5. CASE Replies
  <2>1. CASE RepliesDone
    BY <2>1 DEF RepliesDone, LoopEnds
  <2>2. ASSUME NEW k \in 1 .. Len(qlist), NoReply(k)
        PROVE  UNCHANGED qvars
    BY <2>2 DEF NoReply, NodeKept
  <2>3. ASSUME NEW k \in 1 .. Len(qlist), ReplyAccepted(k) \/ ReplyRejected(k)
        PROVE  QNext
    BY <2>3 DEF ReplyAccepted, ReplyRejected, QNext
  <2> QED
    BY <1>5, <2>1, <2>2, <2>3 DEF Replies
<1>6. CASE Request
  <2>1. CASE RequestNotForwarded
    BY <2>1 DEF RequestNotForwarded
  <2>2. ASSUME NEW d \in Domains, RequestSrvFail(d)
        PROVE  UNCHANGED qvars
    BY <2>2 DEF RequestSrvFail
  <2>3. ASSUME NEW d \in Domains, NEW id \in Ids, RequestLacksSocket(d, id)
        PROVE  UNCHANGED qvars
    BY <2>3 DEF RequestLacksSocket
  <2>4. ASSUME NEW d \in Domains, NEW c \in Clients, NEW id \in Ids,
               NEW F \in SUBSET ServersOf(d), NEW to \in Servers \cup {NULL},
               RequestNew(d, c, id, F, to)
        PROVE  QNext
    <3>1. Current1(d)[d] \in Servers
      BY <2>4, PickAgrees DEF RequestNew, RequestSends, CurrentTable
    <3>2. {to} \ {NULL} \in SUBSET Servers
      OBVIOUS
    <3>3. PICK i \in myrand :
            \/ query_add(d, Current1(d)[d], c, id, i, ForwardTimeout,
                         {to} \ {NULL})
            \/ to = NULL /\ query_bounce(id, i)
      BY <2>4 DEF RequestNew
    <3>4. CASE query_bounce(id, i)
      BY <3>4 DEF QNext
    <3>5. CASE query_add(d, Current1(d)[d], c, id, i, ForwardTimeout,
                         {to} \ {NULL})
      BY <3>1, <3>2, <3>5 DEF QNext
    <3> QED
      BY <3>3, <3>4, <3>5
  <2>5. ASSUME NEW d \in Domains, NEW k \in 1 .. Len(qlist),
               NEW F \in SUBSET Servers, NEW to \in Servers \cup {NULL},
               RequestAgain(d, k, F, to)
        PROVE  QNext
    <3>1. qlist[k].ttl \in {ForwardTimeout, ReactivateInterval}
      BY <1>0 DEF Query
    <3>2. {to} \ {NULL} \in SUBSET Servers
      OBVIOUS
    <3>3. query_found(k, qlist[k].ttl, {to} \ {NULL}) \/ query_delete(k)
      BY <2>5 DEF RequestAgain
    <3> QED
      BY <3>1, <3>2, <3>3 DEF QNext
  <2>6. ASSUME NEW d \in Domains, NEW k \in 1 .. Len(qlist),
               RequestAborts(d, k)
        PROVE  QNext
    <3>1. qlist[k].ttl \in {ForwardTimeout, ReactivateInterval}
      BY <1>0 DEF Query
    <3>2. query_found(k, qlist[k].ttl, {})
      BY <2>6 DEF RequestAborts
    <3> QED
      BY <3>1, <3>2 DEF QNext
  <2> QED
    BY <1>6, <2>1, <2>2, <2>3, <2>4, <2>5, <2>6 DEF Request
<1>7. CASE Maintain
  BY <1>7 DEF Maintain
<1>8. CASE Timeouts
  <2>1. CASE TimeoutDone
    BY <2>1 DEF TimeoutDone, LoopEnds
  <2>2. ASSUME NEW k \in 1 .. Len(qlist), TimeoutKeeps(k)
        PROVE  UNCHANGED qvars
    BY <2>2 DEF TimeoutKeeps, NodeKept
  <2>3. ASSUME NEW k \in 1 .. Len(qlist), TimeoutDeletes(k)
        PROVE  QNext
    BY <2>3 DEF TimeoutDeletes, QNext
  <2> QED
    BY <1>8, <2>1, <2>2, <2>3 DEF Timeouts
<1> QED
  BY <1>1, <1>2, <1>3, <1>4, <1>5, <1>6, <1>7, <1>8 DEF Next, Run

(* A step that leaves the tables alone, or only moves between the phases.  *)
LEMMA TablesKept ==
  ASSUME RInv, UNCHANGED rvars, pc' \in Phases, cursor' \in Nat,
         since_retry' \in 0 .. ReactivateInterval
  PROVE  RTypeOK' /\ CurrentIsActive'
BY DEF RInv, RTypeOK, CurrentIsActive, rvars

(* udp_send starts clocks at 0.                                            *)
LEMMA SendTimeType ==
  ASSUME send_age \in [Servers -> Unset .. ForwardTimeout + 1],
         NEW S, udp_send(S)
  PROVE  send_age' \in [Servers -> Unset .. ForwardTimeout + 1]
BY TimesAssumption DEF udp_send, Unset

(* Ageing stops at the cap and leaves unset clocks alone.                  *)
LEMMA AgedType ==
  ASSUME NEW cap \in Nat, NEW f \in [Servers -> Unset .. cap]
  PROVE  /\ Aged(f, cap) \in [Servers -> Unset .. cap]
         /\ \A s \in Servers : f[s] = Unset => Aged(f, cap)[s] = Unset
BY DEF Aged, Unset

(* A step after which the tables are typed and agree.                      *)
LEMMA TablesAgree ==
  ASSUME inactive' \in AgeTable, current' \in CurrentTable,
         Agree(current', inactive'),
         send_age' \in [Servers -> Unset .. ForwardTimeout + 1],
         pc' \in Phases, cursor' \in Nat,
         since_retry' \in 0 .. ReactivateInterval
  PROVE  RTypeOK' /\ CurrentIsActive'
BY DEF AgeTable, CurrentTable, Agree, RTypeOK, CurrentIsActive

(* The server tables stay typed and in agreement in every step of run().   *)
LEMMA TablesStep ==
  ASSUME RInv, Next
  PROVE  RTypeOK' /\ CurrentIsActive'
<1>0. /\ inactive \in AgeTable /\ current \in CurrentTable
      /\ Agree(current, inactive)
      /\ send_age \in [Servers -> Unset .. ForwardTimeout + 1]
      /\ pc \in Phases /\ cursor \in Nat
      /\ since_retry \in 0 .. ReactivateInterval
      /\ ReactivateInterval \in Nat \ {0} /\ ForwardTimeout \in Nat
  BY TimesAssumption
     DEF RInv, RTypeOK, CurrentIsActive, AgeTable, CurrentTable, Agree
<1>a. /\ \A k \in 1 .. Len(qlist) : qlist[k] \in Query
      /\ Len(qlist) \in Nat
  BY NodeFacts DEF RInv, QInv, QTypeOK
<1>b. Len(SrvNodes) \in Nat
  BY ServersAssumption
<1>1. CASE Tick
  <2>1. /\ inactive' \in AgeTable
        /\ \A s \in Servers : inactive[s] = Unset => inactive'[s] = Unset
    BY <1>0, <1>1, AgedType DEF Tick, AgeTable
  <2>2. send_age' \in [Servers -> Unset .. ForwardTimeout + 1]
    BY <1>0, <1>1, AgedType DEF Tick
  <2>3. /\ pc' = pc /\ cursor' = cursor /\ current' = current
        /\ since_retry' \in 0 .. ReactivateInterval
    BY <1>0, <1>1 DEF Tick
  <2>4. Agree(current', inactive')
    BY <1>0, <2>1, <2>3 DEF Agree, ServersOf
  <2> QED
    BY <1>0, <2>1, <2>2, <2>3, <2>4, TablesAgree
<1>2. CASE Wake
  <2>1. /\ UNCHANGED rvars /\ pc' \in Phases /\ cursor' \in Nat
        /\ since_retry' \in 0 .. ReactivateInterval
    BY <1>0, <1>2 DEF Wake, Phases
  <2> QED
    BY <2>1, TablesKept
<1>3. CASE Retry
  <2>1. CASE RetryDone
    <3>1. /\ UNCHANGED rvars /\ pc' \in Phases /\ cursor' \in Nat
          /\ since_retry' \in 0 .. ReactivateInterval
      BY <1>0, <2>1 DEF RetryDone, Phases
    <3> QED
      BY <3>1, TablesKept
  <2>2. ASSUME NEW s \in Servers, RetrySkips(s)
        PROVE  RTypeOK' /\ CurrentIsActive'
    <3>1. /\ UNCHANGED rvars /\ pc' \in Phases /\ cursor' \in Nat
          /\ since_retry' \in 0 .. ReactivateInterval
      BY <1>0, <2>2 DEF RetrySkips, Retrying, rvars
    <3> QED
      BY <3>1, TablesKept
  <2>3. ASSUME NEW s \in Servers, Retrying(s),
               inactive[s] = ReactivateInterval,
               inactive' = [inactive EXCEPT ![s] = 0],
               send_age' \in [Servers -> Unset .. ForwardTimeout + 1]
        PROVE  RTypeOK' /\ CurrentIsActive'
    <3>1. /\ pc' = pc /\ cursor' \in Nat /\ current' = current
          /\ since_retry' = since_retry
      BY <1>0, <2>3 DEF Retrying
    <3>2. inactive' \in AgeTable
      BY <1>0, <2>3 DEF AgeTable, Unset
    <3>3. \A t \in Servers : inactive[t] = Unset => inactive'[t] = Unset
      BY <1>0, <2>3 DEF AgeTable, Unset
    <3>4. Agree(current', inactive')
      BY <1>0, <3>1, <3>3 DEF Agree, ServersOf
    <3> QED
      BY <1>0, <2>3, <3>1, <3>2, <3>4, TablesAgree
  <2>4. ASSUME NEW s \in Servers, NEW id \in Ids, RetryLacksSocket(s, id)
        PROVE  RTypeOK' /\ CurrentIsActive'
    BY <1>0, <2>3, <2>4 DEF RetryLacksSocket
  <2>5. ASSUME NEW s \in Servers, NEW id \in Ids, NEW to \in SUBSET {s},
               RetryProbes(s, id, to)
        PROVE  RTypeOK' /\ CurrentIsActive'
    <3>1. send_age' \in [Servers -> Unset .. ForwardTimeout + 1]
      BY <1>0, <2>5, SendTimeType DEF RetryProbes
    <3> QED
      BY <2>3, <2>5, <3>1 DEF RetryProbes
  <2> QED
    BY <1>3, <2>1, <2>2, <2>4, <2>5 DEF Retry
<1>4. ASSUME NEW next \in Phases, Check(next)
      PROVE  RTypeOK' /\ CurrentIsActive'
  <2> DEFINE ina == set_inactive(inactive, Late)
  <2>1. /\ pc' = next /\ cursor' = cursor /\ send_age' = send_age
        /\ since_retry' = since_retry /\ deactivate_servers
    BY <1>4 DEF Check
  <2>2. inactive' = ina /\ ina \in AgeTable
    BY <1>0, <2>1, SetInactiveType DEF deactivate_servers
  <2>3. \A d \in Domains :
          current'[d] = IF current[d] \in Late
                        THEN next_active(d, current[d], ina) ELSE current[d]
    BY <2>1 DEF deactivate_servers
  <2>4. \A s \in Servers \ Late : ina[s] = inactive[s]
    BY DEF set_inactive
  <2> HIDE DEF ina
  <2>5. current' \in CurrentTable
    <3>1. current' = [d \in Domains |->
                        IF current[d] \in Late
                        THEN next_active(d, current[d], ina) ELSE current[d]]
      BY <2>1 DEF deactivate_servers, ina
    <3>2. \A d \in Domains : current[d] \in Servers \cup {NULL}
      BY <1>0 DEF CurrentTable
    <3>3. \A d \in Domains :
            next_active(d, current[d], ina) \in Servers \cup {NULL}
      BY <3>2, NextActiveType
    <3> QED
      BY <3>1, <3>2, <3>3 DEF CurrentTable
  <2>6. Agree(current', inactive')
    <3> SUFFICES ASSUME NEW d \in Domains, current'[d] # NULL
                 PROVE  /\ current'[d] \in ServersOf(d)
                        /\ ina[current'[d]] = Unset
      BY <2>2 DEF Agree
    <3>1. CASE current[d] \in Late
      <4>1. current[d] \in Servers \cup {NULL}
        BY <1>0 DEF CurrentTable
      <4> QED
        BY <2>3, <3>1, <4>1, NextActiveIsActive
    <3>2. CASE current[d] \notin Late
      BY <1>0, <2>3, <2>4, <3>2 DEF Agree, ServersOf
    <3> QED
      BY <3>1, <3>2
  <2> QED
    BY <1>0, <2>1, <2>2, <2>5, <2>6, TablesAgree
<1>5. CASE Replies
  <2>1. CASE RepliesDone
    <3>1. /\ UNCHANGED rvars /\ pc' \in Phases /\ cursor' \in Nat
          /\ since_retry' \in 0 .. ReactivateInterval
      BY <1>0, <2>1 DEF RepliesDone, LoopEnds, Phases
    <3> QED
      BY <3>1, TablesKept
  <2>2. ASSUME NEW k \in 1 .. Len(qlist), NoReply(k)
        PROVE  RTypeOK' /\ CurrentIsActive'
    <3>1. /\ UNCHANGED rvars /\ pc' \in Phases /\ cursor' \in Nat
          /\ since_retry' \in 0 .. ReactivateInterval
      BY <1>0, <1>a, <2>2 DEF NoReply, NodeKept, AtNode, rvars
    <3> QED
      BY <3>1, TablesKept
  <2>3. ASSUME NEW k \in 1 .. Len(qlist), ReplyRejected(k)
        PROVE  RTypeOK' /\ CurrentIsActive'
    <3>1. /\ UNCHANGED rvars /\ pc' \in Phases /\ cursor' \in Nat
          /\ since_retry' \in 0 .. ReactivateInterval
      BY <1>0, <1>a, <2>3 DEF ReplyRejected, AtNode, Advance, rvars
    <3> QED
      BY <3>1, TablesKept
  <2>4. ASSUME NEW k \in 1 .. Len(qlist), ReplyAccepted(k)
        PROVE  RTypeOK' /\ CurrentIsActive'
    <3>1. qlist[k].srv \in Servers
      BY <1>a DEF Query
    <3>2. /\ pc' = pc /\ cursor' \in Nat /\ current' = current
          /\ since_retry' = since_retry
      BY <1>0, <1>a, <2>4 DEF ReplyAccepted, AtNode, Advance
    <3>3. inactive' \in AgeTable
      BY <1>0, <2>4, <3>1 DEF ReplyAccepted, AgeTable, Unset
    <3>4. send_age' \in [Servers -> Unset .. ForwardTimeout + 1]
      BY <1>0, <2>4, <3>1 DEF ReplyAccepted, Unset
    <3>5. \A t \in Servers : inactive[t] = Unset => inactive'[t] = Unset
      BY <1>0, <2>4, <3>1 DEF ReplyAccepted, AgeTable
    <3>6. Agree(current', inactive')
      BY <1>0, <3>2, <3>5 DEF Agree, ServersOf
    <3> QED
      BY <1>0, <3>2, <3>3, <3>4, <3>6, TablesAgree
  <2> QED
    BY <1>5, <2>1, <2>2, <2>3, <2>4 DEF Replies
<1>6. CASE Request
  <2>1. CASE RequestNotForwarded
    <3>1. /\ UNCHANGED rvars /\ pc' \in Phases /\ cursor' \in Nat
          /\ since_retry' \in 0 .. ReactivateInterval
      BY <1>0, <2>1 DEF RequestNotForwarded, AtRequest, Phases
    <3> QED
      BY <3>1, TablesKept
  <2>2. ASSUME NEW d \in Domains, Forwarding(d), pc' \in Phases,
               current' = Current1(d), inactive' = Inactive1(d),
               UNCHANGED send_age
        PROVE  RTypeOK' /\ CurrentIsActive'
    <3>1. cursor' = cursor /\ since_retry' = since_retry
      BY <2>2 DEF Forwarding, AtRequest
    <3>2. /\ inactive' \in AgeTable /\ current' \in CurrentTable
          /\ Agree(current', inactive')
      BY <2>2, PickAgrees
    <3> QED
      BY <1>0, <2>2, <3>1, <3>2, TablesAgree
  <2>4. ASSUME NEW d \in Domains, NEW e \in Domains, NEW F, NEW to,
               RequestSends(d, e, F, to)
        PROVE  RTypeOK' /\ CurrentIsActive'
    <3> DEFINE cur == Current1(d)
               ina == Inactive1(d)
    <3>1. /\ ina \in AgeTable /\ cur \in CurrentTable /\ Agree(cur, ina)
      BY PickAgrees
    <3>2. /\ pc' = "maintain" /\ cursor' = cursor
          /\ since_retry' = since_retry
          /\ to = send2current(e, cur, ina, F)
          /\ inactive' = set_inactive(ina, Failed(e, cur, ina, F))
          /\ current' = [cur EXCEPT ![e] = to]
          /\ udp_send({to} \ {NULL})
      BY <2>4 DEF RequestSends, Forwarding, AtRequest
    <3> HIDE DEF cur, ina
    <3>3. /\ inactive' \in AgeTable /\ current' \in CurrentTable
          /\ Agree(current', inactive')
      BY <3>1, <3>2, SendAgrees
    <3>4. send_age' \in [Servers -> Unset .. ForwardTimeout + 1]
      BY <1>0, <3>2, SendTimeType
    <3>5. pc' \in Phases
      BY <3>2 DEF Phases
    <3> QED
      BY <1>0, <3>2, <3>3, <3>4, <3>5, TablesAgree
  <2>5. ASSUME NEW d \in Domains, NEW c \in Clients, NEW id \in Ids,
               NEW F \in SUBSET ServersOf(d), NEW to \in Servers \cup {NULL},
               RequestNew(d, c, id, F, to)
        PROVE  RTypeOK' /\ CurrentIsActive'
    BY <2>4, <2>5 DEF RequestNew
  <2>6. ASSUME NEW d \in Domains, NEW k \in 1 .. Len(qlist),
               NEW F \in SUBSET Servers, NEW to \in Servers \cup {NULL},
               RequestAgain(d, k, F, to)
        PROVE  RTypeOK' /\ CurrentIsActive'
    <3>1. qlist[k].dom \in Domains
      BY <1>a, <2>6 DEF RequestAgain, Query
    <3> QED
      BY <2>4, <2>6, <3>1 DEF RequestAgain
  <2>7. ASSUME NEW d \in Domains, RequestSrvFail(d)
        PROVE  RTypeOK' /\ CurrentIsActive'
    BY <2>2, <2>7 DEF RequestSrvFail, Phases
  <2>8. ASSUME NEW d \in Domains, NEW id \in Ids, RequestLacksSocket(d, id)
        PROVE  RTypeOK' /\ CurrentIsActive'
    BY <2>2, <2>8 DEF RequestLacksSocket, Phases
  <2>9. ASSUME NEW d \in Domains, NEW k \in 1 .. Len(qlist),
               RequestAborts(d, k)
        PROVE  RTypeOK' /\ CurrentIsActive'
    BY <2>2, <2>9 DEF RequestAborts, Phases
  <2> QED
    BY <1>6, <2>1, <2>5, <2>6, <2>7, <2>8, <2>9 DEF Request
<1>7. CASE Maintain
  <2>1. /\ UNCHANGED rvars /\ pc' \in Phases /\ cursor' \in Nat
        /\ since_retry' \in 0 .. ReactivateInterval
    BY <1>0, <1>7 DEF Maintain, Phases
  <2> QED
    BY <2>1, TablesKept
<1>8. CASE Timeouts
  <2>1. CASE TimeoutDone
    <3>1. /\ UNCHANGED rvars /\ pc' \in Phases /\ cursor' \in Nat
          /\ since_retry' \in 0 .. ReactivateInterval
      BY <1>0, <2>1 DEF TimeoutDone, LoopEnds, Phases
    <3> QED
      BY <3>1, TablesKept
  <2>2. ASSUME NEW k \in 1 .. Len(qlist), TimeoutKeeps(k) \/ TimeoutDeletes(k)
        PROVE  RTypeOK' /\ CurrentIsActive'
    <3>1. /\ UNCHANGED rvars /\ pc' \in Phases /\ cursor' \in Nat
          /\ since_retry' \in 0 .. ReactivateInterval
      BY <1>0, <1>a, <2>2
         DEF TimeoutKeeps, TimeoutDeletes, NodeKept, AtNode, Advance, rvars
    <3> QED
      BY <3>1, TablesKept
  <2> QED
    BY <1>8, <2>1, <2>2 DEF Timeouts
<1>9. CASE Proceed \/ Interrupted
  BY <1>4, <1>9 DEF Proceed, Interrupted, Phases
<1> QED
  BY <1>1, <1>2, <1>3, <1>5, <1>6, <1>7, <1>8, <1>9 DEF Next, Run

(* main() starts with every server active and the first of each list       *)
(* current.                                                                *)
LEMMA InitRInv ==
  ASSUME Init
  PROVE  RInv
<1>1. QInv
  BY InitEstablishes DEF Init
<1>2. \A d \in Domains : /\ ServersOf(d) \in SUBSET Servers
                         /\ FirstFrom(0, ServersOf(d)) = NULL
                            \/ FirstFrom(0, ServersOf(d)) \in ServersOf(d)
  BY FirstFromMember DEF ServersOf
<1>3. RTypeOK
  BY <1>2, TimesAssumption DEF Init, RTypeOK, Phases, Unset
<1>4. CurrentIsActive
  BY <1>2 DEF Init, CurrentIsActive
<1> QED
  BY <1>1, <1>3, <1>4 DEF RInv

(* RInv is inductive.                                                      *)
LEMMA StepRInv ==
  ASSUME RInv, [Next]_vars
  PROVE  RInv' /\ [QNext]_qvars
<1>1. CASE Next
  <2>1. QNext \/ UNCHANGED qvars
    BY <1>1, ListStep
  <2>2. QInv'
    BY <2>1, StepPreserves DEF RInv
  <2> QED
    BY <1>1, <2>1, <2>2, TablesStep DEF RInv
<1>2. CASE UNCHANGED vars
  <2>1. UNCHANGED qvars
    BY <1>2 DEF vars
  <2>2. QInv'
    BY <2>1, StepPreserves DEF RInv
  <2>3. RTypeOK' /\ CurrentIsActive'
    BY <1>2 DEF RInv, RTypeOK, CurrentIsActive, vars, rvars
  <2> QED
    BY <2>1, <2>2, <2>3 DEF RInv
<1> QED
  BY <1>1, <1>2

-----------------------------------------------------------------------------
(* The relay loop keeps its inductive invariant.                           *)
THEOREM RelayInvariant == Spec => []RInv
BY InitRInv, StepRInv, PTL DEF Spec

(* run(), udp.c and domnode.c use the query list only through the          *)
(* operations DnrdQuery specifies, each of them completely: DnrdRelay      *)
(* implements QSpec, for every number of servers, domains and identifiers. *)
THEOREM RelayKeepsListDiscipline == Spec => ListDiscipline
<1>1. Init => QInit
  BY DEF Init
<1> QED
  BY <1>1, InitRInv, StepRInv, PTL DEF Spec, ListDiscipline, QSpec

(* handle_query, deactivate_servers and send2current always leave a domain *)
(* with a current server that is active, or with none.                     *)
THEOREM CurrentStaysActive == Spec => []CurrentIsActive
<1>1. RInv => CurrentIsActive
  BY DEF RInv
<1> QED
  BY <1>1, RelayInvariant, PTL

(* The properties of the query list hold of the running relay.             *)
THEOREM RelayQidsUnused == Spec => [](QidsUnused /\ NothingLeaks)
BY RelayKeepsListDiscipline, QidsStayUnused, NothingEverLeaks, PTL
   DEF ListDiscipline

(* The relay's types hold throughout: the list, the pool, the clocks of    *)
(* the servers and the domains' current servers.                           *)
THEOREM RelayTypeCorrect == Spec => []TypeOK
<1>1. RInv => TypeOK
  BY DEF RInv, QInv, TypeOK
<1> QED
  BY <1>1, RelayInvariant, PTL

-----------------------------------------------------------------------------
(* set_inactive only takes servers out of use.                             *)
LEMMA SetInactiveShrinks ==
  ASSUME NEW ina, NEW S, NEW s \in Servers, set_inactive(ina, S)[s] = Unset
  PROVE  ina[s] = Unset
BY DEF set_inactive, Unset

(* The server that send2current ends with was active when the request came *)
(* in and still is after the failures met on the way to it.                *)
LEMMA SentIsActive ==
  ASSUME RInv, NEW d \in Domains, NEW e \in Domains, NEW F,
         NEW to \in Servers \cup {NULL}, RequestSends(d, e, F, to)
  PROVE  \A s \in {to} \ {NULL} : inactive[s] = Unset /\ inactive'[s] = Unset
<1> SUFFICES ASSUME to # NULL
             PROVE  inactive[to] = Unset /\ inactive'[to] = Unset
  OBVIOUS
<1> DEFINE cur == Current1(d)
           ina == Inactive1(d)
           ina2 == set_inactive(ina, Failed(e, cur, ina, F))
<1>1. ina \in AgeTable /\ cur \in CurrentTable /\ Agree(cur, ina)
  BY PickAgrees
<1>2. /\ to = send2current(e, cur, ina, F)
      /\ inactive' = ina2
  BY DEF RequestSends
<1>3. Agree([cur EXCEPT ![e] = to], ina2)
  <2> HIDE DEF cur, ina
  <2> QED
    BY <1>1, <1>2, SendAgrees
<1>4. ina2[to] = Unset
  <2>1. [cur EXCEPT ![e] = to][e] = to
    BY <1>1 DEF CurrentTable
  <2> HIDE DEF ina2
  <2> QED
    BY <1>3, <2>1 DEF Agree
<1>5. ina[to] = Unset
  <2> HIDE DEF cur, ina
  <2> QED
    BY <1>4, SetInactiveShrinks
<1>6. inactive[to] = Unset
  BY <1>5, SetInactiveShrinks DEF Inactive1
<1> QED
  BY <1>2, <1>4, <1>6

(* What a request adds to the servers a listed query was sent to.          *)
NewlyAsked ==
  \A k \in 1 .. Len(qlist') :
    LET before == IF k \in 1 .. Len(qlist) THEN qlist[k].out ELSE {}
        same == Len(qlist') >= Len(qlist)
    IN same => \A s \in qlist'[k].out \ before :
                 inactive[s] = Unset /\ inactive'[s] = Unset

(* A list left alone, one with a shorter list, one with a node sent again  *)
(* and one with a new node at its tail.                                    *)
LEMMA AskedNone ==
  ASSUME qlist' = qlist
  PROVE  NewlyAsked
BY DEF NewlyAsked

(* A repeated query asks only servers that are active before and after.    *)
LEMMA AskedAgain ==
  ASSUME RInv, NEW k \in 1 .. Len(qlist), NEW ttl, NEW out,
         query_found(k, ttl, out),
         \A s \in out : inactive[s] = Unset /\ inactive'[s] = Unset
  PROVE  NewlyAsked
<1>1. /\ Len(qlist) \in Nat /\ qlist \in Seq(Query)
      /\ \A j \in 1 .. Len(qlist) : qlist[j] \in Query
  BY NodeFacts DEF RInv, QInv, QTypeOK
<1> DEFINE q == [qlist[k] EXCEPT !.age = 0, !.ttl = ttl, !.out = @ \cup out]
<1>2. qlist' = [qlist EXCEPT ![k] = q] /\ q.out = qlist[k].out \cup out
  BY <1>1 DEF query_found, Query
<1> HIDE DEF q
<1>3. qlist \in Seq(Query \cup {q})
  BY <1>1
<1>4. /\ Len(qlist') = Len(qlist)
      /\ \A j \in 1 .. Len(qlist) : qlist'[j] = IF j = k THEN q ELSE qlist[j]
  BY <1>2, <1>3, ExceptSeq
<1> QED
  BY <1>1, <1>2, <1>4 DEF NewlyAsked

(* A new query asks only servers that are active before and after.         *)
LEMMA AskedNew ==
  ASSUME RInv, NEW d, NEW s, NEW c, NEW id, NEW i, NEW ttl, NEW out,
         query_add(d, s, c, id, i, ttl, out),
         \A x \in out : inactive[x] = Unset /\ inactive'[x] = Unset
  PROVE  NewlyAsked
<1>1. Len(qlist) \in Nat /\ qlist \in Seq(Query)
  BY NodeFacts DEF RInv, QInv, QTypeOK
<1> DEFINE node == [ srv |-> s, dom |-> d, client |-> c, client_qid |-> id,
                     my_qid |-> qid_pool[i], age |-> 0, ttl |-> ttl,
                     out |-> out ]
<1>2. qlist' = Append(qlist, node)
  BY DEF query_add
<1>3. /\ Len(qlist') = Len(qlist) + 1
      /\ \A j \in 1 .. Len(qlist) : qlist'[j] = qlist[j]
      /\ qlist'[Len(qlist) + 1] = node
  <2> HIDE DEF node
  <2> QED
    BY <1>1, <1>2
<1> QED
  BY <1>1, <1>3 DEF NewlyAsked

(* dnrd.8: a deactivated server "will not be used until it comes back".    *)
(* udp_handle_request sends a client's query, new or repeated, only to a   *)
(* server that is active before and after, whatever sends fail on the way. *)
THEOREM NeverAsksInactive == Spec => NoQueryToInactive
<1>1. ASSUME RInv, Next, pc = "request" PROVE NewlyAsked
  <2>0. Len(qlist) \in Nat /\ qlist \in Seq(Query)
    BY <1>1, NodeFacts DEF RInv, QInv, QTypeOK
  <2>1. CASE Tick
    <3>1. \A q \in Query : Older(q).out = q.out
      BY DEF Older, Query
    <3>2. \A k \in 1 .. Len(qlist) : qlist[k] \in Query
      BY <1>1, NodeFacts DEF RInv, QInv
    <3>3. /\ Len(qlist') = Len(qlist)
          /\ \A k \in 1 .. Len(qlist) : qlist'[k] = Older(qlist[k])
      BY <2>0, <2>1 DEF Tick, query_tick
    <3> QED
      BY <2>0, <3>1, <3>2, <3>3 DEF NewlyAsked
  <2>2. CASE Request
    <3>1. ASSUME RequestNotForwarded \/ \E d \in Domains : RequestSrvFail(d) \/
                   \E id \in Ids : RequestLacksSocket(d, id)
          PROVE  NewlyAsked
      <4>1. qlist' = qlist
        BY <3>1 DEF RequestNotForwarded, RequestSrvFail, RequestLacksSocket, qvars
      <4> QED
        BY <4>1, AskedNone
    <3>2. ASSUME NEW d \in Domains, NEW c \in Clients, NEW id \in Ids,
                 NEW F \in SUBSET ServersOf(d), NEW to \in Servers \cup {NULL},
                 RequestNew(d, c, id, F, to)
          PROVE  NewlyAsked
      <4>1. RequestSends(d, d, F, to)
        BY <3>2 DEF RequestNew
      <4>2. \A s \in {to} \ {NULL} : inactive[s] = Unset /\ inactive'[s] = Unset
        BY <1>1, <4>1, SentIsActive
      <4>3. CASE qlist' = qlist
        BY <4>3, AskedNone
      <4>4. ASSUME NEW i \in myrand,
                   query_add(d, Current1(d)[d], c, id, i, ForwardTimeout,
                             {to} \ {NULL})
            PROVE  NewlyAsked
        BY <1>1, <4>2, <4>4, AskedNew
      <4> QED
        BY <3>2, <4>3, <4>4 DEF RequestNew, query_bounce
    <3>3. ASSUME NEW d \in Domains, NEW k \in 1 .. Len(qlist),
                 NEW F \in SUBSET Servers, NEW to \in Servers \cup {NULL},
                 RequestAgain(d, k, F, to)
          PROVE  NewlyAsked
      <4>1. /\ RequestSends(d, qlist[k].dom, F, to)
            /\ qlist[k].dom \in Domains
        <5>1. qlist[k] \in Query
          BY <1>1, NodeFacts DEF RInv, QInv
        <5> QED
          BY <3>3, <5>1 DEF RequestAgain, Query
      <4>2. \A s \in {to} \ {NULL} : inactive[s] = Unset /\ inactive'[s] = Unset
        BY <1>1, <4>1, SentIsActive
      <4>3. CASE query_found(k, qlist[k].ttl, {to} \ {NULL})
        BY <1>1, <4>2, <4>3, AskedAgain
      <4>4. CASE query_delete(k)
        <5>1. Len(qlist') = Len(qlist) - 1
          BY <2>0, <4>4, RemoveAtFacts DEF query_delete
        <5> QED
          BY <2>0, <5>1 DEF NewlyAsked
      <4> QED
        BY <3>3, <4>3, <4>4 DEF RequestAgain
    <3>4. ASSUME NEW d \in Domains, NEW k \in 1 .. Len(qlist),
                 RequestAborts(d, k)
          PROVE  NewlyAsked
      <4>1. query_found(k, qlist[k].ttl, {})
        BY <3>4 DEF RequestAborts
      <4> QED
        BY <1>1, <4>1, AskedAgain
    <3> QED
      BY <2>2, <3>1, <3>2, <3>3, <3>4 DEF Request
  <2>3. Tick \/ Request
    BY <1>1 DEF Next, Run, Wake, Retry, RetryDone, RetrySkips, RetryProbes,
       RetryLacksSocket, Retrying, Proceed, Interrupted, Check, Replies,
       RepliesDone, NoReply, NodeKept, AtNode, LoopEnds, ReplyAccepted,
       ReplyRejected, Maintain, Timeouts, TimeoutDone, TimeoutKeeps,
       TimeoutDeletes
  <2> QED
    BY <2>1, <2>2, <2>3
<1>2. RInv /\ [Next]_vars => [pc = "request" => NewlyAsked]_vars
  BY <1>1
<1> QED
  BY <1>2, RelayInvariant, PTL DEF Spec, NoQueryToInactive, NewlyAsked
=============================================================================
