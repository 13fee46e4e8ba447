----------------------------- MODULE MCAssembly -----------------------------
(* Assembly for TLC: two runs that share a document, one needs review.      *)
EXTENDS Assembly, TLC

SharedDocs == [r \in {"r1", "r2"} |->
                  IF r = "r1" THEN <<"a", "b">> ELSE <<"b">>]

SmallDocs == [r \in {"r1"} |-> <<"a", "b">>]

DocRevs == [d \in {"a", "b"} |-> IF d = "a" THEN {1, 3} ELSE {1}]

SmallVerdict == [r \in {"r1"} |-> "READY"]

MixedVerdict == [r \in {"r1", "r2"} |->
                    IF r = "r1" THEN "READY" ELSE "REVIEW_REQUIRED"]

=============================================================================
