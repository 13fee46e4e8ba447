----------------------------- MODULE MCFetchRun -----------------------------
(* FetchRun for TLC: catalogues of up to five rows, pages of two rows, which *)
(* is also the size parse_document assumes.                                 *)
EXTENDS FetchRun, TLC

Row(i) == [id |-> i, fact |-> 0]

SourceOf(id, cats) ==
    [id |-> id, policy |-> "ALLOWED", needs |-> {"facts"}, permits |-> {"facts"}, key |-> TRUE,
     partitions |-> DOMAIN cats, catalogs |-> cats,
     size |-> 2, served |-> 2, form |-> "int", base |-> 1, ceiling |-> NoLimit, caps |-> {NoLimit}, attempts |-> 1, changes |-> 1]

\* No rows, a full page, a remainder; <<2, 3, 4>> moves the rows of
\* <<1, 2, 3>> over the page boundary without changing the total.  A second
\* partition has one row, which normalize() rejects in one of its states and
\* derive_qnet_item_codes in another.
Qualification ==
    [SourceOf("ncs_qualification",
         [p \in {"p", "q"} |->
             IF p = "p"
             THEN {<<>>, <<Row(1), Row(2)>>, <<Row(1), Row(2), Row(3)>>, <<Row(2), Row(3), Row(4)>>}
             ELSE {<<Row(1)>>, <<Row(8)>>, <<Row(9)>>}])
        EXCEPT !.caps = {NoLimit, 1}, !.attempts = 2]

\* Units in and out of the allowlist, and one whose code is invalid; a row
\* that moves, or whose name is edited, between two pages.
Competency ==
    [SourceOf("ncs_competency",
         [p \in {"all"} |->
             {<<>>, <<Row(1), Row(2), [id |-> 3, fact |-> 1]>>, <<Row(2), Row(1), Row(4)>>,
              <<Row(3), Row(2), [id |-> 1, fact |-> 1]>>, <<Row(1), [id |-> 9, fact |-> 1]>>}])
        EXCEPT !.changes = 2]

\* Postings that appear, disappear, move, or are edited between list and detail.
Postings ==
    [SourceOf("job_alio",
         [p \in {0} |->
             {<<>>, <<Row(1)>>, <<Row(1), Row(2), Row(3)>>, <<Row(2), Row(3), Row(1)>>,
              <<[id |-> 1, fact |-> 1], Row(2)>>}])
        EXCEPT !.changes = 2]

\* Numbers that only some of the readers take; a size that is not stated, by
\* a provider whose pages are smaller than, as long as or longer than the
\* size that is then assumed; pages smaller than the size asked for.
Stating(form, size, served) ==
    [SourceOf("ncs_qualification",
         [p \in {"p"} |-> {<<>>, <<Row(1), Row(2), Row(3)>>, <<Row(2), Row(3), Row(4), Row(1)>>, <<Row(7)>>}])
        EXCEPT !.form = form, !.size = size, !.served = served]
Numbers == {Stating("text", 2, 2), Stating("loose", 2, 2), Stating("int", 3, 2)}
           \cup {Stating("none", size, size) : size \in 1 .. 3} \cup {Stating("none", 3, 2)}
ShortPostings ==
    {[SourceOf("job_alio", [p \in {0} |-> {<<Row(1)>>, <<Row(1), Row(2), Row(3)>>}])
        EXCEPT !.served = 1],
     [SourceOf("job_alio", [p \in {0} |-> {<<Row(1), Row(2), Row(3)>>}]) EXCEPT !.form = "none"]}

\* A page too many for the provider's ceiling; pages that count from zero; a
\* source the rights registry blocks, one whose content is out of its scope,
\* one without settings.
Training ==
    [SourceOf("work24_training",
         [p \in {"course"} |-> {<<Row(1), Row(2), Row(3)>>, <<Row(1), Row(2), Row(3), Row(4), Row(5)>>}])
        EXCEPT !.ceiling = 2]
Search ==
    [SourceOf("saramin", [p \in {"keyword"} |-> {<<>>, <<Row(1), Row(2), Row(3)>>}]) EXCEPT !.base = 0]
Forbidden ==
    LET s == SourceOf("alio_organization", [p \in {"institutions"} |-> {<<>>}])
    IN  {[s EXCEPT !.policy = "BLOCKED"], [s EXCEPT !.permits = {}], [s EXCEPT !.key = FALSE],
         [s EXCEPT !.catalogs = [p \in {} |-> {}], !.partitions = {}]}

SmallSources == {Qualification, Competency, Postings, Training, Search}
                \cup Numbers \cup ShortPostings \cup Forbidden
=============================================================================
