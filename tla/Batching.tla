------------------------------ MODULE Batching ------------------------------
(***************************************************************************)
(* How a Tag is cut into requests: buildBatches of HeaderSync keeps ranges *)
(* whole, buildDataBatches of DataSync splits them, DivideTags cuts a full *)
(* sync into chunks.  A batch is the set of the blocks it asks for.        *)
(***************************************************************************)
EXTENDS Tagging

CONSTANTS
  MaxHeaders,  \* MAX_HEADERS_PER_REQUEST
  MaxData      \* MAX_DATA_PER_REQUEST

ASSUME BatchingAssumption == MaxHeaders \in Nat \ {0} /\ MaxData \in Nat \ {0}

\* Blocks start to end in chunks of MaxHeaders; no chunk when start is past end.
DivideTags(start, end) ==
  LET chunks == IF start > end THEN 0 ELSE (end - start) \div MaxHeaders + 1
      from(i) == start + (i - 1) * MaxHeaders
  IN Tag([i \in 1..chunks |-> RangeTag(from(i), IF from(i) + MaxHeaders - 1 > end
                                                THEN end ELSE from(i) + MaxHeaders - 1)],
         <<>>)

\* The loops' state: the finished batches, the current one and its size.
Packing == [batches |-> <<>>, cur |-> {}, count |-> 0]
CloseBatch(p) == [batches |-> Append(p.batches, p.cur), cur |-> {}, count |-> 0]
Add(p, blocks, n) == [p EXCEPT !.cur = @ \cup blocks, !.count = @ + n]

\* buildBatches, one range: close the batch it does not fit in, and the batch it fills.
PackHeaderRange(p, r) ==
  LET size  == r.end - r.start + 1
      room  == IF p.count > 0 /\ p.count + size > MaxHeaders THEN CloseBatch(p) ELSE p
      added == Add(room, r.start..r.end, size)
  IN IF added.count >= MaxHeaders THEN CloseBatch(added) ELSE added

\* One single block, in either builder.
PackBlock(p, b, max) ==
  Add(IF p.count > 0 /\ p.count + 1 > max THEN CloseBatch(p) ELSE p, {b}, 1)

\* buildDataBatches, one range: fill the current batch, close it when full, go on with
\* the rest of the range.
PackDataBlock(p, b) ==
  LET added == Add(p, {b}, 1)
  IN IF added.count = MaxData THEN CloseBatch(added) ELSE added

PackDataRange(p, r) ==
  LET size == r.end - r.start + 1
      packed[k \in 0..size] == IF k = 0 THEN p ELSE PackDataBlock(packed[k - 1], r.start + k - 1)
  IN IF size > 0 THEN packed[size] ELSE p

FlushForgotten(p) == p.batches

\* Flush remaining.
Flushed(p) == IF p.count > 0 THEN CloseBatch(p).batches ELSE p.batches

\* sort.Slice: the elements of s in the order of their keys.
SortBy(s, key) ==
  LET D == DOMAIN s
      order == CHOOSE p \in Bijection(D, D) : \A i, j \in D : i < j => key[p[i]] <= key[p[j]]
  IN [i \in D |-> s[order[i]]]

SortedRanges(tag) == SortBy(tag.ranges, [i \in DOMAIN tag.ranges |-> tag.ranges[i].start])
SortedBlocks(tag) == SortBy(tag.blocks, tag.blocks)

\* The first 0, 1, 2, ... ranges packed, in either builder.
PackHeaderRanges(ranges) ==
  LET packed[k \in 0..Len(ranges)] ==
        IF k = 0 THEN Packing ELSE PackHeaderRange(packed[k - 1], ranges[k])
  IN packed

PackDataRanges(ranges) ==
  LET packed[k \in 0..Len(ranges)] ==
        IF k = 0 THEN Packing ELSE PackDataRange(packed[k - 1], ranges[k])
  IN packed

\* The first 0, 1, 2, ... single blocks packed after the ranges.
PackBlocks(p, blocks, max) ==
  LET packed[k \in 0..Len(blocks)] ==
        IF k = 0 THEN p ELSE PackBlock(packed[k - 1], blocks[k], max)
  IN packed

\* Both builders: the ranges by start, then the single blocks in order, then the rest.
BuildBatches(tag) ==
  LET ranges == PackHeaderRanges(SortedRanges(tag))[Len(tag.ranges)]
  IN Flushed(PackBlocks(ranges, SortedBlocks(tag), MaxHeaders)[Len(tag.blocks)])

BuildDataBatches(tag) ==
  LET ranges == PackDataRanges(SortedRanges(tag))[Len(tag.ranges)]
  IN Flushed(PackBlocks(ranges, SortedBlocks(tag), MaxData)[Len(tag.blocks)])
=============================================================================
