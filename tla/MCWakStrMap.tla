---------------------------- MODULE MCWakStrMap ----------------------------
(* Instances of WakStrMap for TLC. *)
EXTENDS WakStrMap

(* Keys that begin with one another, and one that begins with nothing else. *)
Keys == {<<1>>, <<1, 1>>, <<1, 2>>, <<2>>, <<2, 1>>}

(* Every array of at most four pairs, duplicates included; the value tells *)
(* where in the array a pair was.                                          *)
MCTables ==
  UNION {{[k \in 1..n |-> [key |-> f[k], value |-> k]] : f \in [1..n -> Keys]} :
         n \in 1..4}

MCWords == Keys \cup {<<1, 1, 1>>, <<3>>}
=============================================================================
