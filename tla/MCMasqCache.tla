----------------------------- MODULE MCMasqCache -----------------------------
(***************************************************************************)
(* The DNS store with three records for upstream answers, three names (one *)
(* of them long) in two chains, and one alias of a name that a lease or a  *)
(* hosts file may define.                                                  *)
(***************************************************************************)
EXTENDS MasqAnswer

MCNames == {"a", "b", "long"}
MCBucket == [n \in {"a", "b", "long", "none"} |-> IF n = "b" THEN 2 ELSE 1]
MCAddrs == {"x", "y"}
MCAddrBucket == [x \in MCAddrs |-> 1]
MCcnames == <<[alias |-> "a", target |-> "b"]>>

RR(name, type, ttl, addr, target) ==
  [name |-> name, type |-> type, ttl |-> ttl, addr |-> addr, target |-> target]

Base == [name |-> "a", ptr |-> NULL, type |-> "A", nx |-> FALSE, rrs |-> <<>>,
         ns |-> <<>>, rebind |-> FALSE, keep |-> TRUE]

Two == <<RR("long", "A", 1, "x", NULL), RR("long", "A", 1, "y", NULL)>>
AtoB == RR("a", "CNAME", 2, NULL, "b")
BtoA == RR("b", "CNAME", 2, NULL, "a")
BX == RR("b", "A", 1, "x", NULL)

MCReplies ==
  { [Base EXCEPT !.rrs = <<AtoB, BX>>],
    [Base EXCEPT !.name = "b", !.rrs = <<BtoA, RR("a", "A", 1, "x", NULL)>>],
    [Base EXCEPT !.rrs = <<AtoB, BtoA>>],
    [Base EXCEPT !.name = "long", !.rrs = Two],
    [Base EXCEPT !.rrs = <<AtoB, RR("b", "A", 1, "y", NULL), RR("b", "BAD", 0, NULL, NULL)>>],
    [Base EXCEPT !.name = "a", !.nx = TRUE, !.ns = <<[ttl |-> 2, minttl |-> 1]>>],
    [Base EXCEPT !.name = "none", !.ptr = "x", !.rrs = <<RR("none", "PTR", 1, NULL, "a")>>] }

Ask == [name |-> "a", ptr |-> NULL, family |-> "A", type |-> "A", edns |-> FALSE,
        sec |-> FALSE, localise |-> FALSE]

MCQuestions ==
  { [Ask EXCEPT !.localise = TRUE], [Ask EXCEPT !.type = "ANY", !.edns = TRUE],
    [Ask EXCEPT !.name = "none", !.ptr = "x", !.type = "PTR"],
    [Ask EXCEPT !.name = "b", !.type = "MX"] }

MCHostsFiles ==
  {<<>>, <<<<[addr |-> NULL, type |-> "A", names |-> <<"b">>],
             [addr |-> "x", type |-> "A", names |-> <<NULL, "b">>]>>>>}
MCQualified == [n \in MCNames |-> n]
MCLeaseSets == {<<>>, <<[name |-> "b", addr |-> "y", type |-> "A", ttl |-> 1]>>}
MCMxNames == <<[name |-> "b", issrv |-> FALSE, target |-> "long"],
               [name |-> "a", issrv |-> TRUE, target |-> "b"]>>
MCConfig == {<<"b", "TXT">>}
MCBogus == {"y"}
MCPrivate == {"x"}
=============================================================================
