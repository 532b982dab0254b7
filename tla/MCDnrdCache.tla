---------------------------- MODULE MCDnrdCache ----------------------------
(* A small instance of DnrdCache: a few seconds for the times, a list that *)
(* can grow past the high-water mark, and no -c.                           *)
EXTENDS DnrdCache, TLC

Default == {[form |-> "none"]}

KeySymmetry == Permutations(Keys)
=============================================================================
