------------------------------- MODULE Paging -------------------------------
(***************************************************************************)
(* The pages of a list tool (server/mod.rs: resolve_page, sort_for_paging, *)
(* paginate).  The records of a listing are the numbers of a finite set,   *)
(* their keys, and the position of one in the sorted array is the number   *)
(* of smaller ones.                                                        *)
(***************************************************************************)
EXTENDS Naturals, FiniteSets

\* A limit of 0, or one above MAX_PAGE_LIMIT, is refused, never clamped.
LimitAccepted(limit, maxLimit) == limit \in 1 .. maxLimit

Position(records, r) == Cardinality({q \in records : q < r})

\* Without the sort, Proxmox's own order, which may differ from one answer to the next:
\* any records, as many as fit.
PagesUnsorted(records, offset, limit) ==
  LET left == IF offset < Cardinality(records) THEN Cardinality(records) - offset ELSE 0
      size == IF limit < left THEN limit ELSE left
  IN {page \in SUBSET records : Cardinality(page) = size}

\* paginate, the items: the slice from offset, empty on and past the end.
Pages(records, offset, limit) ==
  {{r \in records : Position(records, r) \in offset .. (offset + limit - 1)}}

\* paginate, has_more: records remain beyond the end of the page.
HasMore(records, offset, limit) == offset + limit < Cardinality(records)
=============================================================================
