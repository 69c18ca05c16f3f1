------------------------------- MODULE MCDriver -------------------------------
(* Command lines of up to three arguments; 1024 is 4, an int has three bits *)
(* and a longlong six.                                                      *)
EXTENDS Driver

A(f, v, s) == [form |-> f, val |-> v, suffix |-> s, mask |-> <<>>]
M(m)       == [form |-> "mask", val |-> 0, suffix |-> "", mask |-> m]

MCArgs == {A("--vm", 0, ""), A("--int32", 0, ""), A("--int32=", 0, ""), A("--big-test", 0, ""),
           A("--big-test=", 2, ""), A("--big-test=", -1, ""), A("--seed=", 9, ""),
           A("--count=", -1, ""), A("--count=", 3, "k"), A("--count=", 20, "k"),
           A("--help", 0, ""), A("--unknown", 0, ""),
           M(<<"ll">>), M(<<"null">>), M(<<"bool", "or">>), M(<<"random">>)}

MCMasks == {M(<<"ll">>), M(<<"bool", "or">>), M(<<"random">>), A("--unknown", 0, "")}

MCLines == {<<>>} \cup {<<a>> : a \in MCArgs} \cup {<<a, b>> : a, b \in MCArgs}
             \cup {<<A("--int32", 0, ""), a, m>> : a \in MCArgs, m \in MCMasks}
             \cup {<<A("--big-test", 0, ""), a, m>> : a \in MCArgs, m \in MCMasks}
             \cup {<<A("--big-test", 0, ""), M(<<"random">>), M(<<"random">>)>>}

MCLoopTime == [old |-> 1, prm |-> 2, get |-> 3, new |-> 5]
===============================================================================
