--------------------------- MODULE MCMasqForward ---------------------------
(* Small instances of MasqForward: a table that grows to two records, and  *)
(* one socket for them to share.  On the command line is a server for any  *)
(* domain and, for the runs about servers, one with a socket of its own    *)
(* for the domain that one of the queries asks about; another server comes *)
(* from resolv.conf.  The command line's servers may be unusable from the  *)
(* start.  For the runs about the table both queries ask the same.         *)
EXTENDS MasqForward

CONSTANTS cmd, local, res, dom, q1, q2

OneCmd == <<cmd>>
TwoCmd == <<cmd, local>>
ResFiles == {<<>>, <<res>>}

SameQuestion == {[id |-> 1, crc |-> q1], [id |-> 2, crc |-> q1]}
TwoQuestions == {[id |-> 1, crc |-> q1], [id |-> 2, crc |-> q2]}

Domains == [s \in Servers |-> IF s = local THEN dom ELSE NULL]
Asked == [c \in {q1, q2} |-> IF c = q1 THEN NULL ELSE dom]

Options == {{}, {"strict-order"}, {"no-poll", "all-servers"}}
Default == {{}}

(* Identifiers are only compared with each other.                          *)
IdSymmetry == Permutations(Ids)
=============================================================================
