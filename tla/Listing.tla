------------------------------- MODULE Listing -------------------------------
(***************************************************************************)
(* The arithmetic of list_auctions, from the limit and the offset a client *)
(* sends (handleListAuctions) over the page and its size (ListAuctions) to *)
(* the LIMIT and OFFSET of the query (List).  The rows of the table are    *)
(* known by their position, 1 being the row created last.                  *)
(***************************************************************************)
EXTENDS Integers

CONSTANT DefaultPageSize   \* of ListAuctions

ASSUME DefaultPageSizeAssumption == DefaultPageSize \in Nat \ {0}

Abs(x) == IF x < 0 THEN -x ELSE x

\* the division of Go, which rounds towards zero
Quotient(a, b) ==
  IF (a < 0) = (b < 0) THEN Abs(a) \div Abs(b) ELSE -(Abs(a) \div Abs(b))

\* mutant: pages counted from zero
PageFromZero(offset, limit) == Quotient(offset, limit)

\* what the handler asks for; a limit of zero never gets here
Page(offset, limit) == Quotient(offset, limit) + 1

\* what the service makes of it
PageNumber(page) == IF page <= 0 THEN 1 ELSE page
PageSize(size) == IF size <= 0 THEN DefaultPageSize ELSE size

\* ORDER BY created_at DESC LIMIT size OFFSET (page - 1) * size, of count rows
SelectRows(count, page, size) ==
  {k \in 1 .. count : (page - 1) * size < k /\ k <= page * size}

ListedRows(count, offset, limit) ==
  SelectRows(count, PageNumber(Page(offset, limit)), PageSize(limit))
=============================================================================
