---------------------------- MODULE LinkedHashMap ----------------------------
(***************************************************************************)
(* linkedhashmap/linked_hash_map.go: buckets by hash, and the entries      *)
(* linked in the order they came.  A key has a hash, a class of the keys   *)
(* that equal it, and a spelling.  Cells are numbered; 0 is nil.           *)
(***************************************************************************)
EXTENDS Naturals, Sequences, FiniteSetsExt, SequencesExt

New == [buckets |-> <<>>, cells |-> <<>>, head |-> 0, tail |-> 0, len |-> 0]

Bucket(m, hash) == IF hash \in DOMAIN m.buckets THEN m.buckets[hash] ELSE <<>>
\* a bucket left empty is dropped
SetBucket(m, hash, bucket) ==
    LET hashes == (DOMAIN m.buckets \cup {hash}) \ (IF bucket = <<>> THEN {hash} ELSE {})
    IN  [m EXCEPT !.buckets = [h \in hashes |-> IF h = hash THEN bucket ELSE m.buckets[h]]]

\* 0 when no key of the bucket equals the key
findInBucket(m, bucket, key) ==
    LET hits == {i \in DOMAIN bucket : m.cells[bucket[i]].key.class = key.class}
    IN  IF hits = {} THEN 0 ELSE Min(hits)

(* Mutant: the last entry goes and the tail stays. *)
unlinkCellKeepsTail(m, c) ==
    LET cell == m.cells[c]
        Linked(i) == CASE i = c -> [cell EXCEPT !.prev = 0, !.next = 0]
                       [] i = cell.prev -> [m.cells[i] EXCEPT !.next = cell.next]
                       [] i = cell.next -> [m.cells[i] EXCEPT !.prev = cell.prev]
                       [] OTHER -> m.cells[i]
    IN  [m EXCEPT !.head = IF cell.prev = 0 THEN cell.next ELSE @,
                  !.len = @ - 1, !.cells = [i \in DOMAIN m.cells |-> Linked(i)]]

unlinkCell(m, c) ==
    LET cell == m.cells[c]
        Linked(i) == CASE i = c -> [cell EXCEPT !.prev = 0, !.next = 0]
                       [] i = cell.prev -> [m.cells[i] EXCEPT !.next = cell.next]
                       [] i = cell.next -> [m.cells[i] EXCEPT !.prev = cell.prev]
                       [] OTHER -> m.cells[i]
    IN  [m EXCEPT !.head = IF cell.prev = 0 THEN cell.next ELSE @,
                  !.tail = IF cell.next = 0 THEN cell.prev ELSE @,
                  !.len = @ - 1, !.cells = [i \in DOMAIN m.cells |-> Linked(i)]]

newCell(m, key, value) ==
    LET n    == Len(m.cells) + 1
        prev == IF m.head = 0 THEN 0 ELSE m.tail
        before == IF prev = 0 THEN m.cells ELSE [m.cells EXCEPT ![prev].next = n]
        cell == [key |-> key, value |-> value, prev |-> prev, next |-> 0]
    IN  [m EXCEPT !.cells = Append(before, cell), !.tail = n, !.len = @ + 1,
                  !.head = IF @ = 0 THEN n ELSE @]

\* an equal key keeps its place and its spelling, and takes the value
Put(m, key, value) ==
    LET bucket == Bucket(m, key.hash)
        i      == findInBucket(m, bucket, key)
    IN  IF i # 0 THEN [m EXCEPT !.cells[bucket[i]].value = value]
        ELSE SetBucket(newCell(m, key, value), key.hash, Append(bucket, Len(m.cells) + 1))

Delete(m, key) ==
    LET bucket == Bucket(m, key.hash)
        i      == findInBucket(m, bucket, key)
    IN  IF i = 0 THEN m
        ELSE unlinkCell(SetBucket(m, key.hash, RemoveAt(bucket, i)), bucket[i])

\* the empty sequence for an absent key
Get(m, key) == LET bucket == Bucket(m, key.hash)
                   i      == findInBucket(m, bucket, key)
               IN  IF i = 0 THEN <<>> ELSE <<m.cells[bucket[i]].value>>

\* the cells met from one end
Walk(m, start, link) ==
    LET at[k \in 0..Len(m.cells)] ==
            IF k = 0 THEN start
            ELSE IF at[k - 1] = 0 THEN 0 ELSE m.cells[at[k - 1]][link]
    IN  SelectSeq([k \in 1..Len(m.cells) + 1 |-> at[k - 1]], LAMBDA c : c # 0)
Entries(m) ==
    LET w == Walk(m, m.head, "next")
    IN  [i \in DOMAIN w |-> [key |-> m.cells[w[i]].key, value |-> m.cells[w[i]].value]]

Copy(m) == FoldLeft(LAMBDA c, e : Put(c, e.key, e.value), New, Entries(m))
=============================================================================
