--------------------------- MODULE BackupListing ---------------------------
(* The listing of the archive directory in pages (ListPaginated and the    *)
(* GetBackups handler), over the archives of module Backup.                *)
EXTENDS Backup, Sequences

(* Order: the default sort, newest first, or the ascending one; the sort   *)
(* keys are formatted times.                                               *)
SortedBackups(order) ==
  LET n == Cardinality(Listed)
  IN [k \in 1..n |-> CHOOSE i \in Listed :
        Cardinality(Newer(Listed, i)) = (IF order = "asc" THEN n - k ELSE k - 1)]

(* The query parameters: absent, malformed or non-positive numbers (all 0  *)
(* here) take the defaults, and the limit is clamped.                      *)
PageParameter(p) == IF p < 1 THEN 1 ELSE p
LimitParameter(l, default, most) == IF l < 1 THEN default ELSE IF l > most THEN most ELSE l

ListPaginatedFromOne(page, limit, order) ==
  LET all == SortedBackups(order)
      offset == page * limit
      end == IF offset + limit > Len(all) THEN Len(all) ELSE offset + limit
  IN IF offset >= Len(all) THEN <<>> ELSE SubSeq(all, offset + 1, end)

(* ListPaginated: the items of one page. *)
ListPaginated(page, limit, order) ==
  LET all == SortedBackups(order)
      offset == (page - 1) * limit
      end == IF offset + limit > Len(all) THEN Len(all) ELSE offset + limit
  IN IF offset >= Len(all) THEN <<>> ELSE SubSeq(all, offset + 1, end)

(* Walking through the pages shows every archive once, in order, and a     *)
(* page past the end is empty, for every directory the service can reach   *)
(* and page sizes below, at and above the number of archives.  The         *)
(* directory is looked at when the requests have ended.                    *)
PagesCoverTheList ==
  (\A r \in Requests : pc[r] = "done") =>
  \A l \in {0, 2}, order \in {"asc", "desc"} :
    LET limit == LimitParameter(l, MaxId, MaxId + 1)
        all == SortedBackups(order)
        pages == [p \in 0..(MaxId + 1) |-> ListPaginated(PageParameter(p), limit, order)]
    IN /\ \A n \in 1..Len(all) :
            /\ ((n - 1) % limit) + 1 <= Len(pages[((n - 1) \div limit) + 1])
            /\ pages[((n - 1) \div limit) + 1][((n - 1) % limit) + 1] = all[n]
       /\ \A p \in 1..(MaxId + 1) : (p - 1) * limit >= Len(all) => pages[p] = <<>>
=============================================================================
