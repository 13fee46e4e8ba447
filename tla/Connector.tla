------------------------------ MODULE Connector ------------------------------
(***************************************************************************)
(* What a source connector and the completeness check know about pages.    *)
(* DeclaredTotalConnector of connectors/base.py and JobAlioConnector of    *)
(* connectors/sources.py decide which requests a run makes (a source that  *)
(* is a single file makes one, and is left out); validate_completeness of  *)
(* pipeline/process.py decides, from what was stored, whether the run may  *)
(* be READY. The two never share code: that they agree is checked in       *)
(* FetchRun.                                                               *)
(*                                                                         *)
(* A row of a source is a record [id, fact]: its identity and the facts    *)
(* the list and the detail of a posting must agree on.  A body is one      *)
(* stored response: the declared total, the size of the pages it is one    *)
(* of, the rows, and the form in which it states its numbers.  Three pieces *)
(* of code read them, each in its own way: extract_first_int takes any      *)
(* text, integer() digits only, and _nonnegative_integer of                *)
(* partition_config.py JSON integers only; a size that is not stated is    *)
(* the connector's own for the first, 100 for the second and an error for  *)
(* the third.                                                              *)
(***************************************************************************)
EXTENDS Integers, Sequences, FiniteSets

CONSTANTS Sources,        \* the sources, each with what its settings say
          DefaultSize,    \* the size parse_document assumes, 100
          NoLimit,
          Malformed       \* identities whose rows normalize() rejects

\* The numbers of a response: JSON integers, digits in a text (or a page
\* number left out), a text that only int() of the trimmed text reads, or
\* integers without a page size.
Forms == {"int", "text", "loose", "none"}

ASSUME ConnectorAssumption ==
    /\ DefaultSize \in Nat \ {0}
    /\ NoLimit \notin Nat
    /\ \A s \in Sources : /\ s.size \in Nat \ {0}
                           /\ s.ceiling \in (Nat \ {0}) \cup {NoLimit}
                           /\ s.base \in {0, 1} /\ s.key \in BOOLEAN
                           /\ s.policy \in {"ALLOWED", "BLOCKED"}

VARIABLE source           \* the source of the run

\* The rights registry: the policy's status, and every kind of content the
\* connector needs within its scope.
check_activation(s) == s.policy = "ALLOWED" /\ s.needs \subseteq s.permits

\* The settings name at least one valid partition (code files, years,
\* keywords, course types and dates; one invalid value spoils them all).
configured(s) == s.partitions # {}

\* A source has a connector when all of this holds and its key is set.
readiness(s) == check_activation(s) /\ s.key /\ configured(s)

\* What build_connector puts into a connector: source_id, the partitions,
\* Pagination.page_base, page_size (what a run asks for) and max_page_number
\* (or NoLimit).
build_connector == {s \in Sources : readiness(s)}
Kind == source.id
Partitions == source.partitions
PageBase == source.base
PageSize == source.size
MaxPageNumber == source.ceiling

\* page_number None of a posting detail.
NoPage == -1

\* A request is its fingerprint: partition, page and response ordinal.  The
\* partition "detail-<id>" of job_alio is the posting's identity itself.
Request(p, n, o) == [part |-> p, page |-> n, ord |-> o]

IsDetail(q) == Kind = "job_alio" /\ q.part \notin Partitions

initial_requests == {Request(p, PageBase, 0) : p \in Partitions}

CeilDiv(a, b) == (a + b - 1) \div b

Least(a, b) == IF a < b THEN a ELSE b

Identities(body) == {body.rows[i].id : i \in DOMAIN body.rows}

\* The response contract of the connectors.  A paged body declares a total,
\* in any form extract_first_int reads, and a page number it leaves out is the
\* one asked for; an index page of job_alio that declares rows has to contain
\* some, and a detail is the posting that was asked for.
validate_response(q, body) ==
    Kind = "job_alio" =>
        IF IsDetail(q) THEN Identities(body) = {q.part}
        ELSE body.total > 0 => body.rows # <<>>

\* PageMetadata.page_size: job_alio's own, for the others the echoed one or,
\* when there is none, the one asked for.
page_size(body) ==
    IF Kind = "job_alio" \/ body.form = "none" THEN PageSize ELSE body.size

\* A BACKFILL run can be capped (max_pages).
PlannedPages(body, cap) ==
    LET pages == CeilDiv(body.total, page_size(body))
    IN  IF cap = NoLimit THEN pages ELSE Least(pages, cap)

\* ResponseContractError of remaining_requests; job_alio has no ceiling.
ExceedsCeiling(q, body, cap) ==
    /\ Kind # "job_alio"
    /\ q.page = PageBase
    /\ body.total > 0
    /\ MaxPageNumber # NoLimit
    /\ PageBase + PlannedPages(body, cap) - 1 > MaxPageNumber

\* Mutant: the page after the last whole page is forgotten.
FurtherWholePages(q, body, cap) ==
    {Request(q.part, n, 0) : n \in PageBase + 1 .. PageBase + (body.total \div page_size(body)) - 1}

FurtherPages(q, body, cap) ==
    {Request(q.part, n, 0) : n \in PageBase + 1 .. PageBase + PlannedPages(body, cap) - 1}

\* What one accepted response adds to the plan of the run.  An empty page is
\* asked for once more under response ordinal 1.
remaining_requests(q, body, cap) ==
    IF IsDetail(q) \/ (Kind # "job_alio" /\ q.page # PageBase)
    THEN {}
    ELSE IF body.total = 0
    THEN IF q.ord = 0 THEN {[q EXCEPT !.ord = 1]} ELSE {}
    ELSE (IF q.page = PageBase THEN FurtherPages(q, body, cap) ELSE {})
         \cup (IF Kind = "job_alio"
               THEN {Request(i, NoPage, 0) : i \in Identities(body)}
               ELSE {})

\* The order in which one response's requests are enqueued: pages ascending,
\* then details by identity.  Partitions come in the configured order, which
\* is any.
Before(a, b) ==
    \/ a.page # NoPage /\ b.page # NoPage /\ a.part = b.part /\ a.page < b.page
    \/ a.page # NoPage /\ IsDetail(b)
    \/ IsDetail(a) /\ IsDetail(b) /\ a.part < b.part

InOrder(S) ==
    {s \in [1 .. Cardinality(S) -> S] :
        /\ \A q \in S : \E i \in DOMAIN s : s[i] = q
        /\ \A i, j \in DOMAIN s : i < j => s[i] # s[j] /\ ~Before(s[j], s[i])}

-----------------------------------------------------------------------------
(* validate_completeness: what the selected documents of a run, a set of    *)
(* records [req, body], have to add up to.                                  *)

\* The paged sources parse_document and normalize know; saramin and
\* work24_training are fetched, and never certified.
Supported == Kind \in {"ncs_competency", "ncs_qualification", "qnet_schedule", "job_alio", "alio_organization"}

\* parse_document refuses a page whose numbers are no digits, and takes the
\* default for a size that is not there.  No number of a detail is read.
parse_document(d) == IsDetail(d.req) \/ d.body.form # "loose"
SizeOf(body) == IF body.form = "none" THEN DefaultSize ELSE body.size

\* Its rows: the ones normalize accepts, the others are quarantined.
normalize(row) == row.id \notin Malformed

Pages(docs, p) == {d \in docs : d.req.part = p}

Parts(docs) == {d.req.part : d \in docs}

Accepted(d) == {i \in DOMAIN d.body.rows : normalize(d.body.rows[i])}

Rejected(docs) ==
    \E d \in docs : Accepted(d) # DOMAIN d.body.rows

UniqueIdentities(pages) ==
    \A d, e \in pages : \A i \in Accepted(d), j \in Accepted(e) :
        d.body.rows[i].id = e.body.rows[j].id => d = e /\ i = j

StablePagination(pages) ==
    \A d, e \in pages : d.body.total = e.body.total /\ SizeOf(d.body) = SizeOf(e.body)

ConfirmedEmpty(pages) ==
    /\ Cardinality(pages) = 2
    /\ {d.req.ord : d \in pages} = {0, 1}
    /\ \A d \in pages : d.req.page = 1 /\ d.body.rows = <<>>

\* Mutant: the pages that are there are taken for all pages.
FetchedPagesOnly(pages, total, size) ==
    \A d \in pages : Len(d.body.rows) = Least(size, total - (d.req.page - 1) * size)

EveryPage(pages, total, size) ==
    /\ Cardinality(pages) = CeilDiv(total, size)
    /\ {d.req.page : d \in pages} = 1 .. CeilDiv(total, size)
    /\ \A d \in pages : /\ d.req.ord = 0
                        /\ Len(d.body.rows) = Least(size, total - (d.req.page - 1) * size)

CompletePartition(pages) ==
    LET one == CHOOSE d \in pages : TRUE
    IN  /\ UniqueIdentities(pages)
        /\ IF IsDetail(one.req)
           THEN Cardinality(pages) = 1 /\ Len(one.body.rows) = 1
           ELSE /\ StablePagination(pages)
                /\ IF one.body.total = 0
                   THEN ConfirmedEmpty(pages)
                   ELSE EveryPage(pages, one.body.total, SizeOf(one.body))

Listed(docs) == UNION {{d.body.rows[i].id : i \in Accepted(d)} :
                       d \in {e \in docs : ~IsDetail(e.req)}}

Detailed(docs) == {d.req.part : d \in {e \in docs : IsDetail(e.req)}}

validate_completeness(docs) ==
    /\ \A p \in Parts(docs) : CompletePartition(Pages(docs, p))
    /\ Kind = "job_alio" /\ ~Rejected(docs) => Listed(docs) = Detailed(docs)

\* The list and the detail of a posting state the same facts.
validate_posting_pairs(docs) ==
    \A d, e \in docs : \A i \in Accepted(d), j \in Accepted(e) :
        d.body.rows[i].id = e.body.rows[j].id => d.body.rows[i].fact = e.body.rows[j].fact

Verdict(docs) ==
    IF ~Supported \/ (\E d \in docs : ~parse_document(d)) \/ ~validate_completeness(docs) THEN "FAILED"
    ELSE IF Rejected(docs) THEN "REVIEW_REQUIRED"
    ELSE IF Kind = "job_alio" /\ ~validate_posting_pairs(docs) THEN "FAILED"
    ELSE "READY"
=============================================================================
