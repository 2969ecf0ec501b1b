------------------------------ MODULE Listing ------------------------------
(***************************************************************************)
(* What the catalogue service lists and counts for a filter, and how the   *)
(* category page divides the count into pages.                             *)
(***************************************************************************)
EXTENDS Integers, Sequences, FiniteSets, SequencesExt

CONSTANTS
    Socks, Tags,
    Databases   \* what the database may hold: [rows, tagged]

\* GROUP BY id makes one row of each sock.
ASSUME ListingAssumption ==
    /\ IsFiniteSet(Socks)
    /\ \A content \in Databases :
           /\ content.rows \in Seq(Socks)
           /\ Range(content.rows) = Socks /\ IsInjective(content.rows)
           /\ content.tagged \in [Socks -> SUBSET Tags]

VARIABLE db   \* rows: the socks as GROUP BY returns them; tagged: their tags

-----------------------------------------------------------------------------
(* The service *)

\* WHERE tag.name=? OR ...; the join hides a sock without tags.
Matches(s, filter) == db.tagged[s] \cap (IF filter = {} THEN Tags ELSE filter) # {}

Matching(filter) == {s \in Socks : Matches(s, filter)}

\* COUNT(DISTINCT sock.sock_id)
Count(filter) == Cardinality(Matching(filter))

\* ORDER BY ? compares the parameter, a constant, and leaves the rows as they are.
Rows(filter, order) ==
    LET matching == Matching(filter)
        kept[n \in 0..Len(db.rows)] ==
            IF n = 0 THEN <<>>
            ELSE IF db.rows[n] \in matching THEN Append(kept[n - 1], db.rows[n])
            ELSE kept[n - 1]
    IN  kept[Len(db.rows)]

\* Mutant of Cut: page numbers count from 0.
CutFromZero(socks, pageNum, pageSize) ==
    LET start == pageNum * pageSize
        end   == IF start + pageSize > Len(socks) THEN Len(socks) ELSE start + pageSize
    IN  IF start > Len(socks) THEN <<>> ELSE SubSeq(socks, start + 1, end)

\* cut: pages count from 1, page or size 0 is empty.
Cut(socks, pageNum, pageSize) ==
    IF pageNum = 0 \/ pageSize = 0 THEN <<>>
    ELSE LET start == pageNum * pageSize - pageSize
             end   == IF pageNum * pageSize > Len(socks) THEN Len(socks)
                      ELSE pageNum * pageSize
         IN  IF start > Len(socks) THEN <<>> ELSE SubSeq(socks, start + 1, end)

List(filter, order, pageNum, pageSize) == Cut(Rows(filter, order), pageNum, pageSize)

-----------------------------------------------------------------------------
(* The page *)

\* data.size <= size takes the smaller.
Fitted(count, size) == IF count <= size THEN count ELSE size

\* Math.ceil(data.size / size); 0 / 0 is not a number.
NumPages(count, size) ==
    LET fitted == Fitted(count, size)
    IN  IF fitted = 0 THEN 0 ELSE (count + fitted - 1) \div fitted

\* The pages of a size, one after the other, are the rows of the filter.
Covered(filter, order, size) ==
    FlattenSeq([i \in 1..NumPages(Count(filter), size) |-> List(filter, order, i, size)])
        = Rows(filter, order)
=============================================================================
