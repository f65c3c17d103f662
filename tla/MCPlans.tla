------------------------------ MODULE MCPlans ------------------------------
(* A small instance of Plans: web-1 and web-10, whose name contains the     *)
(* other's; a diff that names its host and has a removed line "-- x" in it,  *)
(* and one that begins with a line "diff --git" and names no host; another   *)
(* line, which names a host; and a run that finds nothing to do at first, or *)
(* a change on both hosts and a diff on one.                                *)
EXTENDS Plans, TLC

CONSTANTS web1, web10, header, git, removed, line

TwoHosts == <<web1, web10>>

Substrings == web1 :> {web1} @@ web10 :> {web1, web10}

Texts == {<<header>>, <<header, removed>>, <<git>>}

LineNames == line :> {web1}

Beginnings ==
    {f \in Fleet : /\ \E arg \in Arg : f.args = [op \in Op |-> arg]
                  /\ f.condition = [h \in Host |-> "up"]
                  /\ \/ /\ f.need = [h \in Host |-> [op \in Op |-> "no"]]
                        /\ f.text = [h \in Host |-> <<>>]
                     \/ /\ \E o \in Op : f.need = [h \in Host |-> [op \in Op |->
                                                IF op = o THEN "change" ELSE "no"]]
                        /\ f.text = web1 :> <<header, removed>> @@ web10 :> <<>>}

Symmetry == Permutations(Op) \cup Permutations(Arg)
=============================================================================
