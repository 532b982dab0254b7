------------------------------ MODULE DnsStore ------------------------------
(***************************************************************************)
(* What dnsmasq's cache promises to those who ask it: for each key (a name *)
(* and a type) it knows nothing, or a set of records exactly as one reply  *)
(* gave it, growing older together.  Nothing is made up, mixed from two    *)
(* replies or kept in part.                                                *)
(***************************************************************************)
EXTENDS Integers

CONSTANTS
  Keys,
  Replies,      \* what a reply says: sets of records [key, data, ttl]
  Fragile       \* keys whose records may be forgotten one at a time

VARIABLE rrs

Init == rrs = {}

Of(k, s) == {x \in s : x.key = k}

(* What was known of k may be forgotten at any time.                       *)
Forgotten(k, old, new) ==
  IF k \in Fragile THEN Of(k, new) \subseteq Of(k, old)
  ELSE Of(k, new) \in {Of(k, old), {}}

Forget ==
  LET old == rrs
      new == rrs'
  IN new # old /\ \A k \in Keys : Forgotten(k, old, new)

(* A reply is learned completely.                                          *)
Learn(said) ==
  LET old == rrs
      new == rrs'
  IN \A k \in Keys : IF Of(k, said) = {} THEN Forgotten(k, old, new)
                     ELSE Of(k, new) = Of(k, said)

(* Time passes.                                                            *)
Tick == rrs' = {[x EXCEPT !.ttl = @ - 1] : x \in {y \in rrs : y.ttl > 1}}

Next == Forget \/ Tick \/ \E said \in Replies : Learn(said)

Spec == Init /\ [][Next]_rrs
=============================================================================
