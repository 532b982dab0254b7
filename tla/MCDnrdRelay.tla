---------------------------- MODULE MCDnrdRelay ----------------------------
(* Small instances of DnrdRelay: two domains, one with two servers used in *)
(* turn (-b) and one with a single server; and one domain with one server. *)
EXTENDS DnrdRelay

CONSTANTS s1, s2, s3, d1, d2

ThreeServers == <<s1, s2, s3>>
TwoDomains == [s \in Servers |-> IF s = s3 THEN d2 ELSE d1]

OneServer == <<s1>>
OneDomain == [s \in Servers |-> d1]

(* Identifiers of client queries are only ever compared with each other.   *)
IdSymmetry == Permutations(Ids)
=============================================================================
