---------------------------- MODULE MCBlkRequest ----------------------------
EXTENDS BlkRequest

CONSTANTS MaxLen, MaxSegs, Dios, Eofs, Kinds, Sectors

\* The image has 6 bytes in whole sectors; a file may hold up to 8.
MCDisks == {[read_only |-> ro, len |-> 6, size |-> 8, dio |-> d, eof |-> e] :
               ro \in BOOLEAN, d \in Dios, e \in Eofs}

Seg     == [len : 0 .. MaxLen, inside : {TRUE}, skew : {0, 1}]
Ranges  == [sector : {0, 1, 2, 9}, sectors : {1, 2}, flags : {0, 1}]
NoRange == [sector |-> 0, sectors |-> 0, flags |-> 0]

Chain(kind, sector, data, range) ==
    [short |-> FALSE, status_ok |-> TRUE, header_ok |-> TRUE,
     kind |-> kind, sector |-> sector, data |-> data, range |-> range]

\* Well-formed chains, and one of each way to be malformed or rejected.
Plain == Chain("in", 0, <<[len |-> 2, inside |-> TRUE, skew |-> 0]>>, NoRange)
Odd   == {[Plain EXCEPT !.short = TRUE], [Plain EXCEPT !.status_ok = FALSE],
          [Plain EXCEPT !.header_ok = FALSE], [Plain EXCEPT !.data[1].inside = FALSE],
          [Plain EXCEPT !.data[1].len = MaxRequest + 1], [Plain EXCEPT !.kind = "other"]}

MCChains ==
    Odd \cup
    {Chain(k, s, d, NoRange) :
        k \in Kinds \ {"discard", "write_zeroes"}, s \in Sectors, d \in BoundedSeq(Seg, MaxSegs)}
    \cup
    {Chain(k, 0, d, r) :
        k \in Kinds \cap {"discard", "write_zeroes"}, d \in BoundedSeq(Seg, MaxSegs), r \in Ranges}
=============================================================================
