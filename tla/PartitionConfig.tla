--------------------------- MODULE PartitionConfig ---------------------------
(***************************************************************************)
(* partition_config.py: the partitions of a source that depends on another *)
(* one are derived from a fetched run of that other source.  The updater   *)
(* does so from a READY run, the command line from any run that fetched    *)
(* everything, so the derivation checks completeness itself, with code of  *)
(* its own: it is given the selected documents, as in Connector, and       *)
(* returns codes, or no codes where it raises PartitionConfigError.        *)
(*                                                                         *)
(* The code of a row is its identity; the fact of an ncs_competency row is *)
(* its ncsSubdCdnm.                                                        *)
(***************************************************************************)
EXTENDS Connector

CONSTANTS Allowed,   \* MVP_NCS_SUBCATEGORY_ALLOWLIST, as facts
          Odd,       \* identities that are no item code, though normalize takes them
          Unlike     \* identities of rows whose ncsClCd or ncsSubdCdnm normalize
                     \* trims or converts, and which are read here as they stand

\* The allowlist is a constant with entries in it, and build_connector gives
\* ncs_competency the one partition "all".
ASSUME PartitionAssumption ==
    /\ Allowed # {}
    /\ \A s \in Sources : s.id = "ncs_competency" => s.partitions = {"all"}

\* _nonnegative_integer and _positive_integer: totalCount, pageNo and
\* numOfRows are there, and JSON integers.
Stated(docs) == \A d \in docs : d.body.form = "int"

RowsOf(docs) == UNION {{d.body.rows[i] : i \in DOMAIN d.body.rows} : d \in docs}

\* Pages 1..n once each, all of them with the rows their number implies.
Contiguous(pages, n) ==
    /\ {d.req.page : d \in pages} = 1 .. n
    /\ \A d, e \in pages : d.req.page = e.req.page => d = e
FullPages(pages, total, size) ==
    \A d \in pages : LET left == total - (d.req.page - 1) * size
                     IN  Len(d.body.rows) = IF left < 0 THEN 0 ELSE Least(size, left)

\* One partition of pages that agree on total and size.
complete_ncs_records(docs) ==
    /\ docs # {} /\ \A d \in docs : d.req.part = "all" /\ d.req.ord = 0
    /\ Stated(docs) /\ StablePagination(docs)
    /\ LET one == (CHOOSE d \in docs : TRUE).body
           n == CeilDiv(one.total, one.size)
       IN  /\ Contiguous(docs, IF n = 0 THEN 1 ELSE n)
           /\ FullPages(docs, one.total, one.size)
           /\ \A r \in RowsOf(docs) : normalize(r)   \* no invalid ncsClCd
           /\ Cardinality({r.id : r \in RowsOf(docs)}) = one.total

\* Mutants: the page numbers are trusted; a confirmation page is refused.
NumberedPages(docs) ==
    /\ Stated(docs) /\ \A r \in RowsOf(docs) : r.id \notin Unlike
    /\ \A p \in Parts(docs) :
        LET one == (CHOOSE d \in Pages(docs, p) : TRUE).body
        IN  StablePagination(Pages(docs, p))
            /\ (one.total > 0 => Contiguous(Pages(docs, p), CeilDiv(one.total, one.size)))
FirstResponsesOnly(docs) ==
    /\ Stated(docs) /\ \A r \in RowsOf(docs) : r.id \notin Unlike
    /\ \A p \in Parts(docs) :
        LET pages == Pages(docs, p)
            one == (CHOOSE d \in pages : TRUE).body
        IN  /\ StablePagination(pages)
            /\ \A d \in pages : d.req.ord = 0
            /\ IF one.total = 0
               THEN \A d \in pages : d.req.page = 1 /\ d.body.rows = <<>>
               ELSE /\ Contiguous(pages, CeilDiv(one.total, one.size))
                    /\ FullPages(pages, one.total, one.size)
                    /\ Cardinality(RowsOf(pages)) = one.total

\* A partition may be empty; rows count as duplicates when all of them is equal.
complete_qualification_records(docs) ==
    /\ Stated(docs)
    /\ \A r \in RowsOf(docs) : r.id \notin Unlike   \* ncsClCd # requested_ncs_code
    /\ \A p \in Parts(docs) :
        LET pages == Pages(docs, p)
            one == (CHOOSE d \in pages : TRUE).body
        IN  /\ StablePagination(pages)
            /\ IF one.total = 0
               THEN \A d \in pages : d.req.page = 1 /\ d.body.rows = <<>>
               ELSE /\ Contiguous(pages, CeilDiv(one.total, one.size))
                    /\ FullPages(pages, one.total, one.size)
                    /\ Cardinality(RowsOf(pages)) = one.total

derive_ncs_qualification_codes(docs) ==
    LET allowed == {r \in RowsOf(docs) : r.fact \in Allowed}
    IN  IF /\ complete_ncs_records(docs)
           /\ \A r \in RowsOf(docs) : r.id \notin Unlike   \* ncsSubdCdnm is a text
           /\ {r.fact : r \in allowed} = Allowed
        THEN {r.id : r \in allowed} ELSE {}

derive_qnet_item_codes(docs) ==
    IF complete_qualification_records(docs) /\ \A r \in RowsOf(docs) : r.id \notin Odd
    THEN {r.id : r \in RowsOf(docs)} ELSE {}

derive(docs) == CASE Kind = "ncs_competency" -> derive_ncs_qualification_codes(docs)
                  [] Kind = "ncs_qualification" -> derive_qnet_item_codes(docs)
                  [] OTHER -> {}
==============================================================================
