---------------------------- MODULE MCQueryExec ----------------------------
(* Three vertices in a cycle with one more edge, and properties that are   *)
(* null, zero or not: divisions fail and sums leave the integer range.     *)
EXTENDS QueryExec

AdjC == 1 :> << <<11, 2>>, <<12, 3>> >> @@ 2 :> << <<13, 3>> >> @@ 3 :> << <<14, 1>> >>
MinIntC == -4
ValuesC == {Null, 0, 2}
StoresC == UNION {[S -> {<<v>> : v \in ValuesC}] : S \in {{}, {3}, {1, 3}}}
           \cup {s \in [{1, 2, 3} -> {<<v>> : v \in ValuesC}] : s[2] = <<2>> /\ s[1] # <<2>>}
=============================================================================
