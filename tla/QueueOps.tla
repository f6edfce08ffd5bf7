------------------------------ MODULE QueueOps ------------------------------
(* Two questions about a std::queue or std::vector seen as a sequence. *)
EXTENDS Naturals, Sequences

(* What is in it. *)
Elements(s) == {s[i] : i \in DOMAIN s}

(* Whether nothing is in it twice. *)
Distinct(s) == \A i, j \in DOMAIN s : s[i] = s[j] => i = j
=============================================================================
