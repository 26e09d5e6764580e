---------------------------- MODULE Caches_proofs ----------------------------
(***************************************************************************)
(* Proofs about Caches: the retrieval with its cache and indexing, and the *)
(* cache of rule sets, for any calls, files, rows, times and faults.       *)
(***************************************************************************)
EXTENDS Caches, Integers, TLAPS

(***************************************************************************)
(* Indexing.  A call that is alone has found every row of its file, has    *)
(* then deleted them all, and has inserted the chunks before the next one. *)
(***************************************************************************)
IndexPc == IndexOpen \cup {"unused", "skipped", "ended", "failed"}
IndexRecord == [pc : IndexPc, ids : SUBSET Row, next : Nat, alone : BOOLEAN, without : SUBSET Nat]

RowsOf(i, upto, without) == {<<i, FileOf[i], n>> : n \in (1..upto) \ without}

IndexTypes ==
    /\ now \in Time
    /\ row \in [Row -> RowState]
    /\ indexing \in [Indexings -> IndexRecord]

Indexed(i) ==
    LET x == indexing[i] IN
    /\ x.ids \subseteq {r \in Row : r[2] = FileOf[i]}
    /\ x.alone => \A k \in Rivals(i) : k # i => indexing[k].pc \notin IndexOpen
    /\ x.pc \in {"unused", "find", "delete"} => x.next = 1 /\ x.without = {}
    /\ x.pc = "insert" => \A n \in x.without : n < x.next
    /\ x.pc \in {"unused", "skipped"} => ~x.alone
    /\ x.pc = "delete" /\ x.alone => x.ids = In(FileOf[i])
    /\ x.pc = "insert" /\ x.alone =>
          /\ x.next \in 1..(Chunks[FileOf[i]] + 1)
          /\ In(FileOf[i]) = RowsOf(i, x.next - 1, x.without)
    /\ x.pc = "ended" /\ x.alone => In(FileOf[i]) = RowsOf(i, Chunks[FileOf[i]], x.without)

IndexInv == IndexTypes /\ \A i \in Indexings : Indexed(i)

LEMMA NoIndexingType ==
  /\ NoIndexing \in IndexRecord
  /\ NoIndexing.pc = "unused" /\ NoIndexing.ids = {} /\ NoIndexing.next = 1 /\ ~NoIndexing.alone
  /\ NoIndexing.without = {}
  BY DEF NoIndexing, IndexRecord, IndexPc

LEMMA InitIndex == Init => IndexInv
  <1> SUFFICES ASSUME Init PROVE IndexInv
    OBVIOUS
  <1>1. row \in [Row -> RowState] /\ now \in Time
    BY ClockAssumption DEF Init, RInit, RowState, Time
  <1>2. indexing = [i \in Indexings |-> NoIndexing]
    BY DEF Init, RInit
  <1> HIDE DEF Init
  <1>3. IndexTypes
    BY <1>1, <1>2, NoIndexingType DEF IndexTypes
  <1>4. \A i \in Indexings : Indexed(i)
    BY <1>2, NoIndexingType DEF Indexed
  <1> QED BY <1>3, <1>4 DEF IndexInv

\* The rows of a file are those of the calls for it.
LEMMA RowParts ==
  /\ \A r \in Row : r[1] \in Indexings /\ r[2] = FileOf[r[1]] /\ r[3] \in 1..Chunks[r[2]]
                    /\ r = <<r[1], r[2], r[3]>>
  /\ \A i \in Indexings : \A n \in 1..Chunks[FileOf[i]] : <<i, FileOf[i], n>> \in Row
  <1>1. ASSUME NEW r \in Row
        PROVE  r[1] \in Indexings /\ r[2] = FileOf[r[1]] /\ r[3] \in 1..Chunks[r[2]]
               /\ r = <<r[1], r[2], r[3]>>
    <2>1. PICK i \in Indexings : r \in {<<i, FileOf[i], n>> : n \in 1..Chunks[FileOf[i]]}
      BY DEF Row
    <2>2. PICK n \in 1..Chunks[FileOf[i]] : r = <<i, FileOf[i], n>>
      BY <2>1
    <2> QED BY <2>2
  <1>2. ASSUME NEW i \in Indexings, NEW n \in 1..Chunks[FileOf[i]]
        PROVE  <<i, FileOf[i], n>> \in Row
    BY DEF Row
  <1> QED BY <1>1, <1>2

\* A step of one call that leaves the rows of other files alone keeps what is known of calls
\* for those, and of calls for its own file that are not alone.
LEMMA OthersIndexed ==
  ASSUME IndexInv, IndexTypes', NEW i \in Indexings, NEW j \in Indexings, j # i,
         indexing'[j].pc = indexing[j].pc, indexing'[j].ids = indexing[j].ids,
         indexing'[j].next = indexing[j].next, indexing'[j].without = indexing[j].without,
         indexing'[j].alone => indexing[j].alone,
         \A k \in Indexings \ {i} : indexing'[k].pc = indexing[k].pc,
         i \in Rivals(j) /\ indexing'[j].alone => indexing'[i].pc \notin IndexOpen,
         \A r \in Row : r[2] = FileOf[j] /\ i \notin Rivals(j) => row'[r].state = row[r].state,
         i \in Rivals(j) /\ indexing'[j].alone =>
            \A r \in Row : r[2] = FileOf[j] => row'[r].state = row[r].state
  PROVE  Indexed(j)'
  <1>1. Indexed(j)
    BY DEF IndexInv
  <1>2. indexing'[j].alone => In(FileOf[j])' = In(FileOf[j])
    BY DEF In
  <1>3. indexing'[j].alone => \A k \in Rivals(j) : k # j => indexing'[k].pc \notin IndexOpen
    <2> SUFFICES ASSUME indexing'[j].alone, NEW k \in Rivals(j), k # j
                 PROVE  indexing'[k].pc \notin IndexOpen
      OBVIOUS
    <2>1. k \in Indexings
      BY DEF Rivals
    <2>2. CASE k = i
      BY <2>2
    <2>3. CASE k # i
      BY <1>1, <2>1, <2>3 DEF Indexed
    <2> QED BY <2>2, <2>3
  <1>4. \A k \in Rivals(j) : Rivals(j)' = Rivals(j)
    BY DEF Rivals
  <1> QED BY <1>1, <1>2, <1>3 DEF Indexed, RowsOf, Rivals

LEMMA OpenStep ==
  ASSUME IndexInv, IndexTypes', NEW i \in Indexings, indexing[i].pc \in IndexOpen,
         \A j \in Indexings \ {i} : indexing'[j] = indexing[j],
         \A r \in Row : r[2] # FileOf[i] => row'[r].state = row[r].state
  PROVE  \A j \in Indexings : j # i => Indexed(j)'
  <1> SUFFICES ASSUME NEW j \in Indexings, j # i PROVE Indexed(j)'
    OBVIOUS
  <1>1. indexing[j].alone => i \notin Rivals(j)
    BY DEF IndexInv, Indexed
  <1>2. i \notin Rivals(j) => FileOf[i] # FileOf[j]
    BY DEF Rivals
  <1>3. \A r \in Row : r[2] = FileOf[j] /\ i \notin Rivals(j) => row'[r].state = row[r].state
    BY <1>2
  <1> QED BY <1>1, <1>3, OthersIndexed

\* What a step makes of the call itself and of the rows.
LEMMA OwnStep ==
  ASSUME IndexInv, NEW i \in Indexings, NEW STATE x, x \in IndexRecord,
         indexing' = [indexing EXCEPT ![i] = x], now' = now
  PROVE  /\ indexing' \in [Indexings -> IndexRecord] /\ indexing'[i] = x
         /\ \A j \in Indexings \ {i} : indexing'[j] = indexing[j]
         /\ row' \in [Row -> RowState] => IndexTypes'
  BY DEF IndexInv, IndexTypes

LEMMA BeganStep == ASSUME IndexInv, NEW i \in Indexings, BeginIndexing(i) PROVE IndexInv'
  <1> DEFINE free == \A k \in Rivals(i) : indexing[k].pc \notin IndexOpen
             x == [NoIndexing EXCEPT !.pc = "find", !.alone = free]
  <1>1. x \in IndexRecord /\ x.pc = "find" /\ x.ids = {} /\ x.next = 1 /\ x.alone = free
        /\ x.without = {}
    BY NoIndexingType DEF IndexRecord, IndexPc, IndexOpen
  <1>2. indexing' = [j \in Indexings |->
           IF j = i THEN x ELSE [indexing[j] EXCEPT !.alone = @ /\ i \notin Rivals(j)]]
    BY DEF BeginIndexing
  <1> HIDE DEF x
  <1>3. now' = now /\ row' = row /\ indexing'[i] = x
    BY <1>2 DEF BeginIndexing
  <1>4. ASSUME NEW j \in Indexings \ {i}
        PROVE  /\ indexing'[j] \in IndexRecord
               /\ indexing'[j].pc = indexing[j].pc /\ indexing'[j].ids = indexing[j].ids
               /\ indexing'[j].next = indexing[j].next /\ indexing'[j].without = indexing[j].without
               /\ indexing'[j].alone = (indexing[j].alone /\ i \notin Rivals(j))
    <2>1. indexing[j] \in IndexRecord
      BY DEF IndexInv, IndexTypes
    <2>2. indexing'[j] = [indexing[j] EXCEPT !.alone = indexing[j].alone /\ i \notin Rivals(j)]
      BY <1>2
    <2> QED BY <2>1, <2>2 DEF IndexRecord
  <1>5. IndexTypes'
    BY <1>1, <1>2, <1>3, <1>4 DEF IndexInv, IndexTypes
  <1>6. Indexed(i)'
    <2>1. x.alone => \A k \in Rivals(i) : k # i => indexing'[k].pc \notin IndexOpen
      BY <1>1, <1>4 DEF Rivals
    <2> QED BY <1>1, <1>3, <2>1 DEF Indexed, Rivals
  <1>7. \A j \in Indexings : j # i => Indexed(j)'
    <2> SUFFICES ASSUME NEW j \in Indexings, j # i PROVE Indexed(j)'
      OBVIOUS
    <2> QED BY <1>3, <1>4, <1>5, OthersIndexed
  <1> QED BY <1>5, <1>6, <1>7 DEF IndexInv

LEMMA FoundStep == ASSUME IndexInv, NEW i \in Indexings, FindRows(i) PROVE IndexInv'
  <1> DEFINE x == [indexing[i] EXCEPT !.pc = "delete", !.ids = In(FileOf[i])]
  <1>1. /\ x \in IndexRecord /\ x.pc = "delete" /\ x.ids = In(FileOf[i])
        /\ x.next = indexing[i].next /\ x.alone = indexing[i].alone
        /\ x.without = indexing[i].without
    BY DEF IndexInv, IndexTypes, IndexRecord, IndexPc, IndexOpen, In
  <1>2. /\ indexing' = [indexing EXCEPT ![i] = x] /\ now' = now /\ row' = row
        /\ indexing[i].pc = "find"
    BY DEF FindRows
  <1> HIDE DEF x
  <1>3. /\ IndexTypes' /\ indexing'[i] = x /\ \A j \in Indexings \ {i} : indexing'[j] = indexing[j]
    BY <1>1, <1>2, OwnStep DEF IndexInv, IndexTypes
  <1>4. Indexed(i)'
    <2>1. In(FileOf[i])' = In(FileOf[i]) /\ In(FileOf[i]) \subseteq {r \in Row : r[2] = FileOf[i]}
      BY <1>2 DEF In
    <2>2. x.alone => \A k \in Rivals(i) : k # i => indexing'[k].pc \notin IndexOpen
      BY <1>1, <1>3 DEF IndexInv, Indexed, Rivals
    <2>3. indexing[i].next = 1 /\ indexing[i].without = {}
      BY <1>2 DEF IndexInv, Indexed
    <2> QED BY <1>1, <1>3, <2>1, <2>2, <2>3 DEF Indexed, Rivals
  <1>5. \A j \in Indexings : j # i => Indexed(j)'
    BY <1>2, <1>3, OpenStep DEF IndexOpen
  <1> QED BY <1>3, <1>4, <1>5 DEF IndexInv

LEMMA DeletedStep == ASSUME IndexInv, NEW i \in Indexings, DeleteRows(i) PROVE IndexInv'
  <1> DEFINE x == [indexing[i] EXCEPT !.pc = "insert", !.ids = {}]
  <1>1. /\ x \in IndexRecord /\ x.pc = "insert" /\ x.ids = {}
        /\ x.next = indexing[i].next /\ x.alone = indexing[i].alone
        /\ x.without = indexing[i].without
    BY DEF IndexInv, IndexTypes, IndexRecord, IndexPc, IndexOpen
  <1>2. /\ indexing' = [indexing EXCEPT ![i] = x] /\ now' = now /\ indexing[i].pc = "delete"
        /\ row' = [r \in Row |-> IF r \in indexing[i].ids /\ row[r].state = "in"
                                   THEN [state |-> "gone", at |-> now] ELSE row[r]]
    BY DEF DeleteRows
  <1> HIDE DEF x
  <1>3. row' \in [Row -> RowState]
    BY <1>2 DEF IndexInv, IndexTypes, RowState
  <1>4. /\ IndexTypes' /\ indexing'[i] = x /\ \A j \in Indexings \ {i} : indexing'[j] = indexing[j]
    BY <1>1, <1>2, <1>3, OwnStep
  <1>5. Indexed(i)'
    <2>1. x.alone => In(FileOf[i])' = {}
      <3>1. x.alone => indexing[i].ids = {r \in Row : r[2] = FileOf[i] /\ row[r].state = "in"}
        BY <1>1, <1>2 DEF IndexInv, Indexed, In
      <3>2. \A r \in indexing[i].ids : r \in Row => row'[r].state # "in"
        BY <1>2
      <3>3. \A r \in Row : r \notin indexing[i].ids => row'[r] = row[r]
        BY <1>2
      <3> QED BY <3>1, <3>2, <3>3 DEF In
    <2>2. x.alone => \A k \in Rivals(i) : k # i => indexing'[k].pc \notin IndexOpen
      BY <1>1, <1>4 DEF IndexInv, Indexed, Rivals
    <2>3. indexing[i].next = 1 /\ indexing[i].without = {}
      BY <1>2 DEF IndexInv, Indexed
    <2>4. RowsOf(i, 0, {}) = {} /\ Chunks[FileOf[i]] \in Nat
      BY RetrievalAssumption DEF RowsOf
    <2> QED BY <1>1, <1>4, <2>1, <2>2, <2>3, <2>4 DEF Indexed, Rivals, RowsOf
  <1>6. \A r \in Row : r[2] # FileOf[i] => row'[r].state = row[r].state
    BY <1>2 DEF IndexInv, Indexed
  <1>7. \A j \in Indexings : j # i => Indexed(j)'
    BY <1>2, <1>4, <1>6, OpenStep DEF IndexOpen
  <1> QED BY <1>4, <1>5, <1>7 DEF IndexInv

LEMMA InsertedStep == ASSUME IndexInv, NEW i \in Indexings, InsertRow(i) PROVE IndexInv'
  <1> DEFINE n == indexing[i].next
             x == [indexing[i] EXCEPT !.next = n + 1]
             f == FileOf[i]
             without == indexing[i].without
  <1>0. n \in Nat /\ indexing[i] \in IndexRecord
    BY DEF IndexInv, IndexTypes, IndexRecord
  <1>1. /\ x \in IndexRecord /\ x.pc = indexing[i].pc /\ x.ids = indexing[i].ids
        /\ x.next = n + 1 /\ x.alone = indexing[i].alone /\ x.without = without
    BY <1>0 DEF IndexRecord
  <1>2. /\ indexing' = [indexing EXCEPT ![i] = x] /\ now' = now /\ indexing[i].pc = "insert"
        /\ n <= Chunks[f]
        /\ row' = [row EXCEPT ![<<i, f, n>>] = [state |-> "in", at |-> now]]
    BY DEF InsertRow
  <1> HIDE DEF x
  <1>3. row' \in [Row -> RowState]
    BY <1>2 DEF IndexInv, IndexTypes, RowState
  <1>4. /\ IndexTypes' /\ indexing'[i] = x /\ \A j \in Indexings \ {i} : indexing'[j] = indexing[j]
    BY <1>1, <1>2, <1>3, OwnStep
  <1>m. Chunks[f] \in Nat
    BY RetrievalAssumption
  <1>5. Indexed(i)'
    <2>1. ASSUME x.alone
          PROVE  n + 1 \in 1..(Chunks[f] + 1) /\ In(f)' = RowsOf(i, n, without)
      <3>0. n \notin without
        <4>1. \A m \in without : m < n
          BY <1>2 DEF IndexInv, Indexed
        <4> QED BY <1>0, <4>1
      <3>1. /\ n \in 1..(Chunks[f] + 1) /\ In(f) = RowsOf(i, n - 1, without)
            /\ n \notin without
        BY <1>1, <1>2, <2>1, <3>0 DEF IndexInv, Indexed
      <3>2. <<i, f, n>> \in Row
        BY <1>0, <1>2, <1>m, <3>1, RowParts
      <3>3. In(f)' = In(f) \cup {<<i, f, n>>}
        BY <1>2, <3>2 DEF In, IndexInv, IndexTypes
      <3>4. 1..n = (1..(n - 1)) \cup {n}
        BY <1>0, <3>1
      <3>5. RowsOf(i, n, without) = RowsOf(i, n - 1, without) \cup {<<i, f, n>>}
        BY <3>1, <3>4 DEF RowsOf
      <3> QED BY <1>0, <1>2, <1>m, <3>1, <3>3, <3>5
    <2>2. x.alone => \A k \in Rivals(i) : k # i => indexing'[k].pc \notin IndexOpen
      BY <1>1, <1>4 DEF IndexInv, Indexed, Rivals
    <2>3. indexing[i].ids \subseteq {r \in Row : r[2] = FileOf[i]}
      BY DEF IndexInv, Indexed
    <2>4. RowsOf(i, x.next - 1, without) = RowsOf(i, n, without)
      BY <1>0, <1>1 DEF RowsOf
    <2>5. \A m \in without : m \in Nat /\ m < n
      BY <1>0, <1>2 DEF IndexInv, Indexed, IndexRecord
    <2>6. \A m \in without : m < n + 1
      BY <1>0, <2>5
    <2> HIDE DEF n, without
    <2> QED BY <1>1, <1>2, <1>4, <2>1, <2>2, <2>3, <2>4, <2>6 DEF Indexed, Rivals, RowsOf
  <1>6. \A r \in Row : r[2] # FileOf[i] => row'[r].state = row[r].state
    BY <1>2 DEF IndexInv, IndexTypes
  <1>7. \A j \in Indexings : j # i => Indexed(j)'
    BY <1>2, <1>4, <1>6, OpenStep DEF IndexOpen
  <1> QED BY <1>4, <1>5, <1>7 DEF IndexInv

LEMMA SkippedRowStep == ASSUME IndexInv, NEW i \in Indexings, SkipRow(i) PROVE IndexInv'
  <1> DEFINE n == indexing[i].next
             f == FileOf[i]
             without == indexing[i].without
             more == without \cup {n}
             succ == n + 1
             x == [indexing[i] EXCEPT !.next = succ, !.without = more]
  <1>0. n \in Nat /\ indexing[i] \in IndexRecord /\ without \subseteq Nat /\ more \in SUBSET Nat
        /\ succ \in Nat
    BY DEF IndexInv, IndexTypes, IndexRecord
  <1> HIDE DEF more, succ
  <1>1. /\ x \in IndexRecord /\ x.pc = indexing[i].pc /\ x.ids = indexing[i].ids
        /\ x.next = succ /\ x.alone = indexing[i].alone /\ x.without = more
    BY <1>0 DEF IndexRecord
  <1>2. /\ indexing' = [indexing EXCEPT ![i] = x] /\ now' = now /\ indexing[i].pc = "insert"
        /\ n <= Chunks[f] /\ row' = row
    BY DEF SkipRow, more, succ
  <1> USE DEF more, succ
  <1> HIDE DEF x
  <1>3. /\ IndexTypes' /\ indexing'[i] = x /\ \A j \in Indexings \ {i} : indexing'[j] = indexing[j]
    BY <1>1, <1>2, OwnStep DEF IndexInv, IndexTypes
  <1>m. Chunks[f] \in Nat
    BY RetrievalAssumption
  <1>4. Indexed(i)'
    <2>1. ASSUME x.alone
          PROVE  n + 1 \in 1..(Chunks[f] + 1) /\ In(f)' = RowsOf(i, n, without \cup {n})
      <3>1. n \in 1..(Chunks[f] + 1) /\ In(f) = RowsOf(i, n - 1, without)
        BY <1>1, <1>2, <2>1 DEF IndexInv, Indexed
      <3>2. (1..n) \ (without \cup {n}) = (1..(n - 1)) \ without
        <4>1. \A m \in without : m < n
          BY <1>2 DEF IndexInv, Indexed
        <4>2. (1..n) \ {n} = 1..(n - 1)
          BY <1>0, <3>1
        <4> QED BY <4>2
      <3>3. In(f)' = In(f)
        BY <1>2 DEF In
      <3> QED BY <1>0, <1>2, <1>m, <3>1, <3>2, <3>3 DEF RowsOf
    <2>2. x.alone => \A k \in Rivals(i) : k # i => indexing'[k].pc \notin IndexOpen
      BY <1>1, <1>3 DEF IndexInv, Indexed, Rivals
    <2>3. indexing[i].ids \subseteq {r \in Row : r[2] = FileOf[i]}
      BY DEF IndexInv, Indexed
    <2>4. x.next - 1 = n
      BY <1>0, <1>1
    <2>5. \A m \in without : m < n + 1
      <3>1. \A m \in without : m \in Nat /\ m < n
        BY <1>0, <1>2 DEF IndexInv, Indexed
      <3> QED BY <1>0, <3>1
    <2>6. \A m \in without \cup {n} : m < n + 1
      BY <1>0, <2>5
    <2> HIDE DEF n, without
    <2> QED BY <1>1, <1>2, <1>3, <2>1, <2>2, <2>3, <2>4, <2>6 DEF Indexed, Rivals, RowsOf
  <1>5. \A j \in Indexings : j # i => Indexed(j)'
    BY <1>2, <1>3, OpenStep DEF IndexOpen
  <1> QED BY <1>3, <1>4, <1>5 DEF IndexInv

\* A call that ends for want of text changes nothing.
LEMMA SkippedStep == ASSUME IndexInv, NEW i \in Indexings, SkipIndexing(i) PROVE IndexInv'
  <1> DEFINE x == [indexing[i] EXCEPT !.pc = "skipped"]
  <1>1. /\ x \in IndexRecord /\ x.pc = "skipped" /\ x.ids = indexing[i].ids
        /\ x.alone = indexing[i].alone
    BY DEF IndexInv, IndexTypes, IndexRecord, IndexPc
  <1>2. /\ indexing' = [indexing EXCEPT ![i] = x] /\ now' = now /\ row' = row
        /\ indexing[i].pc = "unused"
    BY DEF SkipIndexing
  <1> HIDE DEF x
  <1>3. /\ IndexTypes' /\ indexing'[i] = x /\ \A j \in Indexings \ {i} : indexing'[j] = indexing[j]
    BY <1>1, <1>2, OwnStep DEF IndexInv, IndexTypes
  <1>4. ~indexing[i].alone /\ indexing[i].ids \subseteq {r \in Row : r[2] = FileOf[i]}
    BY <1>2 DEF IndexInv, Indexed
  <1>5. Indexed(i)'
    BY <1>1, <1>3, <1>4 DEF Indexed
  <1>6. \A k \in Indexings : indexing'[k].pc \in IndexOpen => indexing[k].pc \in IndexOpen
    BY <1>1, <1>3 DEF IndexOpen
  <1>7. \A j \in Indexings : j # i => Indexed(j)'
    <2> SUFFICES ASSUME NEW j \in Indexings, j # i PROVE Indexed(j)'
      OBVIOUS
    <2>1. indexing'[j] = indexing[j] /\ In(FileOf[j])' = In(FileOf[j]) /\ Indexed(j)
      BY <1>2, <1>3 DEF In, IndexInv
    <2>2. indexing[j].alone => \A k \in Rivals(j) : k # j => indexing'[k].pc \notin IndexOpen
      BY <1>6, <2>1 DEF Indexed, Rivals
    <2> QED BY <2>1, <2>2 DEF Indexed, Rivals, RowsOf
  <1> QED BY <1>3, <1>5, <1>7 DEF IndexInv

LEMMA EndedStep ==
  ASSUME IndexInv, NEW i \in Indexings, EndIndexing(i) \/ IndexingFails(i) PROVE IndexInv'
  <1>0. PICK y \in IndexRecord :
          /\ y.pc \in {"ended", "failed"} /\ y.ids \subseteq indexing[i].ids
          /\ indexing' = [indexing EXCEPT ![i] = y]
          /\ y.pc = "failed" => ~y.alone
          /\ y.alone => indexing[i].alone /\ y.without = indexing[i].without
          /\ y.pc = "ended" => indexing[i].pc = "insert" /\ indexing[i].next > Chunks[FileOf[i]]
    <2>1. CASE EndIndexing(i)
      <3> DEFINE y == [indexing[i] EXCEPT !.pc = "ended", !.next = 1]
      <3>1. y \in IndexRecord /\ y.pc = "ended" /\ y.ids = indexing[i].ids /\ y.alone = indexing[i].alone
            /\ y.without = indexing[i].without
        BY DEF IndexInv, IndexTypes, IndexRecord, IndexPc
      <3>2. indexing' = [indexing EXCEPT ![i] = y]
        BY <2>1 DEF EndIndexing
      <3> HIDE DEF y
      <3> QED BY <2>1, <3>1, <3>2 DEF EndIndexing
    <2>2. CASE IndexingFails(i)
      <3> DEFINE y == [NoIndexing EXCEPT !.pc = "failed"]
      <3>1. y \in IndexRecord /\ y.pc = "failed" /\ y.ids = {} /\ ~y.alone
        BY NoIndexingType DEF IndexRecord, IndexPc
      <3>2. indexing' = [indexing EXCEPT ![i] = y]
        BY <2>2 DEF IndexingFails
      <3> HIDE DEF y
      <3> QED BY <3>1, <3>2
    <2> QED BY <2>1, <2>2
  <1>1. now' = now /\ row' = row /\ indexing[i].pc \in IndexOpen
    BY DEF EndIndexing, IndexingFails, IndexOpen
  <1>2. IndexTypes' /\ indexing'[i] = y /\ \A j \in Indexings \ {i} : indexing'[j] = indexing[j]
    BY <1>0, <1>1 DEF IndexInv, IndexTypes
  <1>3. Indexed(i)'
    <2>1. In(FileOf[i])' = In(FileOf[i])
      BY <1>1 DEF In
    <2>2. y.alone => \A k \in Rivals(i) : k # i => indexing'[k].pc \notin IndexOpen
      BY <1>0, <1>2 DEF IndexInv, Indexed, Rivals
    <2>3. y.alone => In(FileOf[i]) = RowsOf(i, Chunks[FileOf[i]], y.without)
      <3> SUFFICES ASSUME y.alone PROVE In(FileOf[i]) = RowsOf(i, Chunks[FileOf[i]], y.without)
        OBVIOUS
      <3>1. /\ indexing[i].next \in 1..(Chunks[FileOf[i]] + 1)
            /\ indexing[i].next > Chunks[FileOf[i]]
            /\ In(FileOf[i]) = RowsOf(i, indexing[i].next - 1, y.without)
        BY <1>0 DEF IndexInv, Indexed
      <3>2. indexing[i].next - 1 = Chunks[FileOf[i]]
        BY <3>1, RetrievalAssumption
      <3> QED BY <3>1, <3>2
    <2>4. y.ids \subseteq {r \in Row : r[2] = FileOf[i]}
      BY <1>0 DEF IndexInv, Indexed
    <2> QED BY <1>0, <1>2, <2>1, <2>2, <2>3, <2>4 DEF Indexed, Rivals, RowsOf
  <1>4. \A j \in Indexings : j # i => Indexed(j)'
    BY <1>1, <1>2, OpenStep
  <1> QED BY <1>2, <1>3, <1>4 DEF IndexInv

LEMMA IndexStepKeeps == ASSUME IndexInv, NEW i \in Indexings, IndexStep(i) PROVE IndexInv'
  BY SkippedStep, BeganStep, FoundStep, DeletedStep, InsertedStep, SkippedRowStep, EndedStep
     DEF IndexStep

\* No other step changes the calls, or more of the rows than when they came or went.
LEMMA OtherStepKeeps ==
  ASSUME IndexInv, now' \in Time, indexing' = indexing, row' \in [Row -> RowState],
         \A r \in Row : row'[r].state = row[r].state
  PROVE  IndexInv'
  <1>1. \A f \in Files : In(f)' = In(f)
    BY DEF In
  <1>2. IndexTypes'
    BY DEF IndexInv, IndexTypes
  <1>3. \A i \in Indexings : In(FileOf[i])' = In(FileOf[i])
    BY DEF In
  <1>4. \A i \in Indexings : Indexed(i)'
    BY <1>3 DEF IndexInv, Indexed, Rivals, RowsOf
  <1> QED BY <1>2, <1>4 DEF IndexInv

LEMMA RowsAged ==
  ASSUME RPass, row \in [Row -> RowState]
  PROVE  /\ row' \in [Row -> RowState]
         /\ \A r \in Row : /\ row'[r].state = row[r].state
                           /\ row'[r].at = IF row[r].at + Age < now + 1 THEN 0 ELSE row[r].at
  <1>1. 0 \in Time
    BY ClockAssumption DEF Time
  <1>2. row' = [r \in Row |-> IF row[r].at + Age < now + 1 THEN [row[r] EXCEPT !.at = 0] ELSE row[r]]
    BY DEF RPass
  <1>3. \A r \in Row : row[r] \in RowState
    OBVIOUS
  <1> QED BY <1>1, <1>2, <1>3 DEF RowState

LEMMA IndexStepAny == IndexInv /\ [Next]_vars => IndexInv'
  <1> SUFFICES ASSUME IndexInv, [Next]_vars PROVE IndexInv'
    OBVIOUS
  <1>0. IndexTypes
    BY DEF IndexInv
  <1>1. ASSUME NEW i \in used \cap Indexings, IndexStep(i) PROVE IndexInv'
    BY <1>1, IndexStepKeeps
  <1>2. ASSUME NEW c \in used \cap Fields, FieldStep(c) PROVE IndexInv'
    <2>1. now' = now /\ row' = row /\ indexing' = indexing
      BY <1>2 DEF FieldStep, Look, EmbeddingFails, Search, Store
    <2> QED BY <1>0, <2>1, OtherStepKeeps DEF IndexTypes
  <1>3. ASSUME NEW c \in used \cap Lists, ListStep(c) /\ UNCHANGED <<rvars, used>> PROVE IndexInv'
    <2>1. now' = now /\ row' = row /\ indexing' = indexing
      BY <1>3 DEF ListStep, Begin, Get, DeleteGlobal, DeleteOwn, Find, Set, ListFails, rvars
    <2> QED BY <1>0, <2>1, OtherStepKeeps DEF IndexTypes
  <1>4. CASE ChangeRuleSets /\ UNCHANGED <<rvars, used>>
    <2>1. now' = now /\ row' = row /\ indexing' = indexing
      BY <1>4 DEF ChangeRuleSets, rvars
    <2> QED BY <1>0, <2>1, OtherStepKeeps DEF IndexTypes
  <1>5. CASE Tick
    <2>1. now' \in Time /\ indexing' = indexing
      BY <1>0, <1>5, ClockAssumption DEF Tick, RPass, Time, IndexTypes
    <2>2. row' \in [Row -> RowState] /\ \A r \in Row : row'[r].state = row[r].state
      BY <1>0, <1>5, RowsAged DEF Tick, IndexTypes
    <2> QED BY <2>1, <2>2, OtherStepKeeps
  <1>6. CASE UNCHANGED vars
    <2>1. now' = now /\ row' = row /\ indexing' = indexing
      BY <1>6 DEF vars, rvars
    <2> QED BY <1>0, <2>1, OtherStepKeeps DEF IndexTypes
  <1> QED BY <1>1, <1>2, <1>3, <1>4, <1>5, <1>6 DEF Next

(***************************************************************************)
(* Lists of rule sets.  What is behind the current version, in the cache,  *)
(* in a call or in its answer, has become so within the hour and the time  *)
(* a call takes.                                                           *)
(***************************************************************************)
Versions == 0..MaxVersion
ListPc == ListOpen \cup {"unused", "ended", "failed"}
ListRecord == [pc : ListPc, key : CacheKeys, forced : BOOLEAN, read : Versions, born : Time,
               at : Time, floor : Versions]
CachedRecord == [there : BOOLEAN, version : Versions, expires : 0..(MaxNow + Hour)]

ListTypes ==
    /\ now \in Time
    /\ version \in Versions
    /\ since \in [Versions -> Time]
    /\ cached \in [CacheKeys -> CachedRecord]
    /\ list \in [Lists -> ListRecord]

\* Version v was current at least until then.
CurrentUntil(v, then) == v <= version /\ (v < version => since[v + 1] >= then)

Kept(k) ==
    LET e == cached[k] IN
    /\ e.version <= version
    /\ e.there => /\ e.expires >= now /\ e.expires <= now + Hour
                  /\ e.version < version => since[e.version + 1] + Hour + MaxListing >= e.expires

Listed(c) ==
    LET x == list[c] IN
    /\ x.pc \in ListOpen => x.born <= now /\ now <= x.born + MaxListing
    /\ x.read <= version /\ x.floor <= version
    /\ x.pc = "get" => ~x.forced
    /\ x.pc = "set" => /\ x.forced => x.read >= x.floor
                       /\ CurrentUntil(x.read, x.born)
    /\ x.pc = "ended" /\ x.at = now =>
          /\ x.forced => x.read >= x.floor
          /\ x.read < version => since[x.read + 1] + Hour + MaxListing >= now

ListInv ==
    /\ ListTypes
    /\ \A k \in CacheKeys : Kept(k)
    /\ \A c \in Lists : Listed(c)

LEMMA ListConstants ==
  /\ 0 \in Time /\ 0 \in Versions /\ Hour \in Nat /\ MaxListing \in Nat /\ MaxVersion \in Nat
  /\ MaxNow \in Nat /\ Time \subseteq Nat /\ Versions \subseteq Nat
  BY ClockAssumption, RuleSetCacheAssumption DEF Time, Versions

LEMMA ListStarts ==
  /\ NewList \in ListRecord /\ NewList.pc = "unused" /\ NewList.read = 0 /\ NewList.floor = 0
  /\ NoList \in CachedRecord /\ ~NoList.there /\ NoList.version = 0
  BY ListConstants DEF NewList, NoList, ListRecord, CachedRecord, ListPc, CacheKeys

LEMMA InitList == Init => ListInv
  <1> SUFFICES ASSUME Init PROVE ListInv
    OBVIOUS
  <1>1. /\ now = 0 /\ version = 0 /\ since = [v \in Versions |-> 0]
        /\ cached = [k \in CacheKeys |-> NoList] /\ list = [c \in Lists |-> NewList]
    BY DEF Init, SInit, Versions
  <1>2. ListTypes
    BY <1>1, ListConstants, ListStarts DEF ListTypes
  <1>3. \A k \in CacheKeys : Kept(k)
    BY <1>1, ListStarts DEF Kept
  <1>4. \A c \in Lists : Listed(c)
    BY <1>1, ListStarts DEF Listed, ListOpen
  <1> QED BY <1>2, <1>3, <1>4 DEF ListInv

\* A step that leaves time and versions alone and changes one call, or none.
LEMMA ListOne ==
  ASSUME ListInv, NEW c \in Lists, NEW STATE x, x \in ListRecord, list' = [list EXCEPT ![c] = x],
         now' = now, version' = version, since' = since,
         cached' \in [CacheKeys -> CachedRecord],
         \A k \in CacheKeys : cached'[k] = cached[k] \/ Kept(k)',
         (list'[c] = x) => Listed(c)'
  PROVE  ListInv'
  <1>1. ListTypes' /\ list'[c] = x /\ \A d \in Lists \ {c} : list'[d] = list[d]
    BY DEF ListInv, ListTypes
  <1>2. \A k \in CacheKeys : Kept(k)'
    BY DEF ListInv, Kept
  <1>3. \A d \in Lists \ {c} : Listed(d)'
    BY <1>1 DEF ListInv, Listed, CurrentUntil
  <1> QED BY <1>1, <1>2, <1>3 DEF ListInv

LEMMA SinceTime ==
  ASSUME ListTypes, NEW v \in Versions, v < version
  PROVE  since[v + 1] \in Nat
  <1>1. v + 1 \in Versions
    BY ListConstants DEF ListTypes, Versions
  <1> QED BY <1>1, ListConstants DEF ListTypes

LEMMA ListStepKeeps == ASSUME ListInv, NEW c \in Lists, ListStep(c) PROVE ListInv'
  <1>0. /\ ListTypes /\ Listed(c) /\ list[c] \in ListRecord /\ \A k \in CacheKeys : Kept(k)
        /\ now' = now /\ version' = version /\ since' = since
    BY DEF ListInv, ListTypes, ListStep, Begin, Get, DeleteGlobal, DeleteOwn, Find, Set, ListFails
  <1>n. now \in Nat /\ now <= now + MaxListing /\ version \in Versions
    BY <1>0, ListConstants DEF ListTypes
  <1>1. ASSUME NEW k \in CacheKeys, NEW forced \in BOOLEAN, Begin(c, k, forced) PROVE ListInv'
    <2> DEFINE x == [NewList EXCEPT !.pc = IF forced THEN "global" ELSE "get", !.key = k,
                       !.forced = forced, !.born = now, !.floor = version]
    <2>1. /\ x \in ListRecord /\ x.pc = (IF forced THEN "global" ELSE "get") /\ x.read = 0
          /\ x.forced = forced /\ x.born = now /\ x.floor = version
      BY <1>0, ListStarts DEF ListTypes, ListRecord, ListPc, ListOpen
    <2>2. list' = [list EXCEPT ![c] = x] /\ cached' = cached
      BY <1>1 DEF Begin
    <2> HIDE DEF x
    <2>3. list'[c] = x => Listed(c)'
      BY <1>0, <1>n, <2>1, ListConstants DEF Listed, Versions
    <2> QED BY <1>0, <2>1, <2>2, <2>3, ListOne DEF ListTypes
  \* A step to another statement; the answer is not given yet.
  <1>2. ASSUME NEW pc \in ListOpen \ {"get", "set"}, list[c].pc \in ListOpen,
               list' = [list EXCEPT ![c].pc = pc],
               cached' \in [CacheKeys -> CachedRecord],
               \A k \in CacheKeys : cached'[k] = cached[k] \/ cached'[k] = NoList
        PROVE  ListInv'
    <2> DEFINE x == [list[c] EXCEPT !.pc = pc]
    <2>1. /\ x \in ListRecord /\ x.pc = pc /\ x.read = list[c].read /\ x.forced = list[c].forced
          /\ x.born = list[c].born /\ x.floor = list[c].floor
      BY <1>0 DEF ListRecord, ListPc
    <2>2. list' = [list EXCEPT ![c] = x]
      BY <1>2
    <2> HIDE DEF x
    <2>3. list'[c] = x => Listed(c)'
      BY <1>0, <1>2, <2>1 DEF Listed, ListOpen
    <2>4. \A k \in CacheKeys : cached'[k] = cached[k] \/ Kept(k)'
      BY <1>0, <1>2, <1>n, ListStarts, ListConstants DEF Kept
    <2> QED BY <1>0, <1>2, <2>1, <2>2, <2>3, <2>4, ListOne
  <1>3. ASSUME NEW k \in CacheKeys, cached' = [cached EXCEPT ![k] = NoList]
        PROVE  /\ cached' \in [CacheKeys -> CachedRecord]
               /\ \A l \in CacheKeys : cached'[l] = cached[l] \/ cached'[l] = NoList
    BY <1>0, <1>3, ListStarts DEF ListTypes
  <1>4. ASSUME Get(c) PROVE ListInv'
    <2>1. list[c].pc = "get" /\ cached' = cached /\ cached \in [CacheKeys -> CachedRecord]
      BY <1>0, <1>4 DEF Get, ListTypes
    <2> DEFINE hit == cached[list[c].key]
    <2>2. CASE ~(hit.there /\ hit.expires >= now)
      <3>1. list' = [list EXCEPT ![c].pc = "find"]
        BY <1>4, <2>2 DEF Get
      <3> QED BY <1>2, <2>1, <3>1 DEF ListOpen
    <2>3. CASE hit.there /\ hit.expires >= now
      <3>1. list[c].key \in CacheKeys
        BY <1>0 DEF ListRecord
      <3>2. /\ hit.version \in Versions /\ hit.version <= version
            /\ hit.version < version => since[hit.version + 1] + Hour + MaxListing >= hit.expires
            /\ hit.expires \in Nat
        BY <1>0, <2>1, <2>3, <3>1 DEF Kept, CachedRecord
      <3>3. hit.version < version => since[hit.version + 1] \in Nat
        BY <1>0, <3>2, SinceTime
      <3> DEFINE x == [list[c] EXCEPT !.pc = "ended", !.read = hit.version, !.at = now, !.born = 0]
      <3>4. /\ x \in ListRecord /\ x.pc = "ended" /\ x.read = hit.version /\ x.at = now
            /\ x.forced = list[c].forced /\ x.floor = list[c].floor
        BY <1>0, <3>2, ListConstants DEF ListRecord, ListPc, ListTypes
      <3>5. list' = [list EXCEPT ![c] = x]
        BY <1>4, <2>3 DEF Get, Answer
      <3> HIDE DEF x
      <3>6. hit.version < version => since[hit.version + 1] + Hour + MaxListing >= now
        BY <1>n, <2>3, <3>2, <3>3, ListConstants
      <3>7. list'[c] = x => Listed(c)'
        BY <1>0, <2>1, <3>2, <3>4, <3>6 DEF Listed, ListOpen
      <3> QED BY <1>0, <2>1, <3>4, <3>5, <3>7, ListOne
    <2> QED BY <2>2, <2>3
  <1>5. ASSUME DeleteGlobal(c) \/ DeleteOwn(c) PROVE ListInv'
    <2>1. /\ list[c].pc \in ListOpen /\ list[c].key \in CacheKeys /\ Global \in CacheKeys
          /\ \E k \in {Global, list[c].key} : cached' = [cached EXCEPT ![k] = NoList]
          /\ \E pc \in {"find", "own"} : list' = [list EXCEPT ![c].pc = pc]
      BY <1>0, <1>5 DEF DeleteGlobal, DeleteOwn, ListOpen, ListRecord, CacheKeys
    <2> QED BY <1>2, <1>3, <2>1 DEF ListOpen
  <1>6. ASSUME Find(c) PROVE ListInv'
    <2> DEFINE x == [list[c] EXCEPT !.pc = "set", !.read = version]
    <2>1. /\ x \in ListRecord /\ x.pc = "set" /\ x.read = version /\ x.forced = list[c].forced
          /\ x.born = list[c].born /\ x.floor = list[c].floor
      BY <1>0 DEF ListRecord, ListPc, ListOpen, ListTypes
    <2>2. list' = [list EXCEPT ![c] = x] /\ cached' = cached /\ list[c].pc = "find"
      BY <1>6 DEF Find
    <2> HIDE DEF x
    <2>3. list'[c] = x => Listed(c)'
      BY <1>0, <1>n, <2>1, <2>2, ListConstants DEF Listed, CurrentUntil, ListOpen
    <2> QED BY <1>0, <2>1, <2>2, <2>3, ListOne DEF ListTypes
  <1>7. ASSUME Set(c) PROVE ListInv'
    <2> DEFINE k == list[c].key
               v == list[c].read
               e == [there |-> TRUE, version |-> v, expires |-> now + Hour]
               x == [list[c] EXCEPT !.pc = "ended", !.read = v, !.at = now, !.born = 0]
    <2>1. /\ list[c].pc = "set" /\ cached' = [cached EXCEPT ![k] = e]
          /\ list' = [list EXCEPT ![c] = x] /\ k \in CacheKeys /\ v \in Versions
      BY <1>0, <1>7 DEF Set, Answer, ListRecord
    <2>2. e \in CachedRecord
      <3>1. now + Hour \in 0..(MaxNow + Hour)
        BY <1>0, <1>n, ListConstants DEF ListTypes, Time
      <3> QED BY <2>1, <3>1 DEF CachedRecord
    <2>3. v < version => since[v + 1] \in Nat /\ since[v + 1] + MaxListing >= now
      <3>1. list[c].born \in Nat /\ now <= list[c].born + MaxListing
            /\ (v < version => since[v + 1] >= list[c].born)
        BY <1>0, <2>1, ListConstants DEF Listed, ListOpen, CurrentUntil, ListRecord
      <3>2. v < version => since[v + 1] \in Nat
        BY <1>0, <2>1, SinceTime
      <3> QED BY <1>n, <3>1, <3>2, ListConstants
    <2>4. v <= version
      BY <1>0 DEF Listed
    <2>5. Kept(k)' /\ cached' \in [CacheKeys -> CachedRecord]
      BY <1>0, <1>n, <2>1, <2>2, <2>3, <2>4, ListConstants DEF Kept, ListTypes
    <2>6. /\ x \in ListRecord /\ x.pc = "ended" /\ x.read = v /\ x.at = now
          /\ x.forced = list[c].forced /\ x.floor = list[c].floor
      BY <1>0, <2>1, ListConstants DEF ListRecord, ListPc, ListTypes
    <2>7. x.forced => v >= x.floor
      BY <1>0, <2>1, <2>6 DEF Listed
    <2>8. v < version => since[v + 1] + Hour + MaxListing >= now
      BY <1>n, <2>3, ListConstants
    <2>9. \A l \in CacheKeys : cached'[l] = cached[l] \/ Kept(l)'
      BY <1>0, <2>1, <2>5 DEF ListTypes
    <2>10. list[c].floor <= version
      BY <1>0 DEF Listed
    <2> HIDE DEF x, e
    <2>11. list'[c] = x => Listed(c)'
      BY <1>0, <2>4, <2>6, <2>7, <2>8, <2>10 DEF Listed, ListOpen
    <2> QED BY <1>0, <2>1, <2>5, <2>6, <2>9, <2>11, ListOne
  <1>8. ASSUME ListFails(c) PROVE ListInv'
    <2> DEFINE x == [NewList EXCEPT !.pc = "failed"]
    <2>1. x \in ListRecord /\ x.pc = "failed" /\ x.read = 0 /\ x.floor = 0
      BY ListStarts DEF ListRecord, ListPc
    <2>2. list' = [list EXCEPT ![c] = x] /\ cached' = cached
      BY <1>8 DEF ListFails
    <2> HIDE DEF x
    <2>3. list'[c] = x => Listed(c)'
      BY <1>0, <1>n, <2>1, ListConstants DEF Listed, ListOpen, Versions
    <2> QED BY <1>0, <2>1, <2>2, <2>3, ListOne DEF ListTypes
  <1> QED BY <1>1, <1>4, <1>5, <1>6, <1>7, <1>8 DEF ListStep

LEMMA ChangeKeeps == ASSUME ListInv, ChangeRuleSets PROVE ListInv'
  <1>0. /\ ListTypes /\ version < MaxVersion /\ version' = version + 1
        /\ since' = [since EXCEPT ![version + 1] = now]
        /\ now' = now /\ cached' = cached /\ list' = list
    BY DEF ListInv, ChangeRuleSets
  <1>1. version \in Nat /\ version + 1 \in Versions /\ now \in Nat
    BY <1>0, ListConstants DEF ListTypes, Versions
  <1>2. ListTypes'
    BY <1>0, <1>1 DEF ListTypes
  <1>3. \A v \in Versions : v <= version =>
           /\ v < version => since'[v + 1] = since[v + 1]
           /\ ~(v < version) => since'[v + 1] = now
    BY <1>0, <1>1, ListConstants DEF ListTypes, Versions
  <1>4. ASSUME NEW k \in CacheKeys PROVE Kept(k)'
    <2>1. /\ cached[k].version \in Versions /\ cached[k].expires \in Nat
          /\ cached[k].version <= version /\ Kept(k)
      BY <1>0 DEF ListInv, ListTypes, CachedRecord, Kept
    <2> DEFINE v == cached[k].version
    <2>2. cached[k].there => since'[v + 1] + Hour + MaxListing >= cached[k].expires
      <3>1. CASE v < version
        <4>1. since'[v + 1] = since[v + 1]
          BY <1>3, <2>1, <3>1
        <4> QED BY <2>1, <3>1, <4>1 DEF Kept
      <3>2. CASE ~(v < version)
        <4>1. since'[v + 1] = now
          BY <1>3, <2>1, <3>2
        <4>2. cached[k].there => cached[k].expires <= now + Hour
          BY <2>1 DEF Kept
        <4> QED BY <1>1, <2>1, <4>1, <4>2, ListConstants
      <3> QED BY <3>1, <3>2
    <2>3. v <= version + 1
      <3>1. v \in Nat /\ v <= version
        BY <2>1 DEF Versions
      <3> HIDE DEF v
      <3> QED BY <1>1, <3>1
    <2> QED BY <1>0, <2>1, <2>2, <2>3 DEF Kept
  <1>5. ASSUME NEW c \in Lists PROVE Listed(c)'
    <2>1. /\ list[c].read \in Versions /\ list[c].born \in Nat /\ list[c].floor \in Nat
          /\ list[c].read <= version /\ Listed(c)
      BY <1>0, ListConstants DEF ListInv, ListTypes, ListRecord, Listed
    <2>2. list[c].pc = "set" => list[c].born <= now
      BY <2>1 DEF Listed, ListOpen
    <2> DEFINE v == list[c].read
    <2>3. v < version => since'[v + 1] = since[v + 1]
      BY <1>3, <2>1
    <2>4. ~(v < version) => since'[v + 1] = now
      BY <1>3, <2>1
    <2>5. list[c].pc = "set" => since'[v + 1] >= list[c].born
      BY <2>1, <2>2, <2>3, <2>4 DEF Listed, CurrentUntil
    <2>6. list[c].pc = "ended" /\ list[c].at = now => since'[v + 1] + Hour + MaxListing >= now
      <3>1. CASE v < version
        BY <2>1, <2>3, <3>1 DEF Listed
      <3>2. CASE ~(v < version)
        BY <1>1, <2>4, <3>2, ListConstants
      <3> QED BY <3>1, <3>2
    <2>7. v <= version + 1 /\ list[c].floor <= version + 1
      <3>1. v \in Nat /\ v <= version /\ list[c].floor <= version
        BY <2>1 DEF Listed, Versions
      <3> HIDE DEF v
      <3> QED BY <1>1, <2>1, <3>1
    <2> QED BY <1>0, <2>1, <2>5, <2>6, <2>7 DEF Listed, CurrentUntil
  <1> QED BY <1>2, <1>4, <1>5 DEF ListInv

LEMMA ListPassKeeps == ASSUME ListInv, Tick PROVE ListInv'
  <1>0. /\ ListTypes /\ now' = now + 1 /\ now < MaxNow /\ version' = version
        /\ list' = [c \in Lists |-> IF list[c].pc = "ended" THEN [NewList EXCEPT !.pc = "ended"]
                                                            ELSE list[c]]
        /\ cached' = [k \in CacheKeys |-> IF cached[k].expires < now + 1 THEN NoList ELSE cached[k]]
        /\ since' = [v \in Versions |->
             IF v > 0 /\ v <= version /\ since[v] + Hour + MaxListing < now + 1 THEN 0 ELSE since[v]]
        /\ \A c \in Lists : list[c].pc \in ListOpen => now < list[c].born + MaxListing
    BY DEF ListInv, Tick, SPass, SInTime, Versions
  <1>1. now \in Nat /\ now + 1 \in Time
    BY <1>0, ListConstants DEF ListTypes, Time
  <1> DEFINE idle == [NewList EXCEPT !.pc = "ended"]
  <1>2. idle \in ListRecord /\ idle.pc = "ended" /\ idle.read = 0 /\ idle.floor = 0 /\ idle.at = 0
    <2>1. NewList.at = 0
      BY DEF NewList
    <2> QED BY <2>1, ListStarts DEF ListRecord, ListPc
  <1> HIDE DEF idle
  <1>3. ListTypes'
    <2>1. cached' \in [CacheKeys -> CachedRecord]
      BY <1>0, ListStarts DEF ListTypes
    <2>2. list' \in [Lists -> ListRecord]
      BY <1>0, <1>2 DEF ListTypes, idle
    <2>3. since' \in [Versions -> Time]
      BY <1>0, ListConstants DEF ListTypes
    <2> QED BY <1>0, <1>1, <2>1, <2>2, <2>3 DEF ListTypes
  \* What has become outdated late enough is remembered.
  <1>4. ASSUME NEW v \in Versions, v < version, since[v + 1] + Hour + MaxListing >= now + 1
        PROVE  since'[v + 1] = since[v + 1]
    <2>1. v + 1 \in Versions /\ since[v + 1] \in Nat
      BY <1>0, <1>4, ListConstants, SinceTime DEF ListTypes, Versions
    <2> QED BY <1>0, <1>1, <1>4, <2>1, ListConstants
  <1>5. ASSUME NEW k \in CacheKeys PROVE Kept(k)'
    <2>1. /\ cached[k].version \in Versions /\ cached[k].expires \in Nat
          /\ cached[k].version <= version /\ Kept(k)
      BY <1>0 DEF ListInv, ListTypes, CachedRecord, Kept
    <2>2. CASE cached[k].expires < now + 1
      <3>1. cached'[k] = NoList
        BY <1>0, <2>2
      <3>2. version \in Nat
        BY <1>0, ListConstants DEF ListTypes
      <3> QED BY <1>0, <3>1, <3>2, ListStarts DEF Kept
    <2>3. CASE ~(cached[k].expires < now + 1)
      <3>1. cached'[k] = cached[k]
        BY <1>0, <2>3
      <3>2. cached[k].there /\ cached[k].version < version =>
               since[cached[k].version + 1] + Hour + MaxListing >= cached[k].expires
        BY <2>1 DEF Kept
      <3>3. cached[k].there /\ cached[k].version < version =>
               since'[cached[k].version + 1] = since[cached[k].version + 1]
        <4> SUFFICES ASSUME cached[k].there, cached[k].version < version
                     PROVE  since'[cached[k].version + 1] = since[cached[k].version + 1]
          OBVIOUS
        <4>1. since[cached[k].version + 1] \in Nat
          BY <1>0, <2>1, SinceTime
        <4>2. since[cached[k].version + 1] + Hour + MaxListing >= now + 1
          BY <1>1, <2>1, <2>3, <3>2, <4>1, ListConstants
        <4> QED BY <1>4, <2>1, <4>2
      <3>4. cached[k].there => cached[k].expires >= now + 1 /\ cached[k].expires <= now + 1 + Hour
        BY <1>1, <2>1, <2>3, ListConstants DEF Kept
      <3> QED BY <1>0, <2>1, <3>1, <3>2, <3>3, <3>4 DEF Kept
    <2> QED BY <2>2, <2>3
  <1>6. ASSUME NEW c \in Lists PROVE Listed(c)'
    <2>1. /\ list[c].read \in Versions /\ list[c].born \in Nat /\ list[c].floor \in Nat
          /\ list[c].read <= version /\ Listed(c)
      BY <1>0, ListConstants DEF ListInv, ListTypes, ListRecord, Listed
    <2>2. CASE list[c].pc = "ended"
      <3>1. list'[c] = idle
        BY <1>0, <2>2 DEF idle
      <3>2. now' # 0 /\ version' \in Nat
        BY <1>0, <1>1, ListConstants DEF ListTypes
      <3>3. /\ list'[c].pc = "ended" /\ list'[c].pc \notin ListOpen /\ list'[c].at # now'
            /\ list'[c].read <= version' /\ list'[c].floor <= version'
        BY <1>2, <3>1, <3>2 DEF ListOpen
      <3> QED BY <3>3 DEF Listed
    <2>3. CASE list[c].pc # "ended"
      <3>1. list'[c] = list[c]
        BY <1>0, <2>3
      <3>2. list[c].pc \in ListOpen => list[c].born <= now + 1 /\ now + 1 <= list[c].born + MaxListing
        BY <1>0, <1>1, <2>1, ListConstants DEF Listed
      <3>3. list[c].pc = "set" /\ list[c].read < version =>
               since'[list[c].read + 1] = since[list[c].read + 1]
        <4> SUFFICES ASSUME list[c].pc = "set", list[c].read < version
                     PROVE  since'[list[c].read + 1] = since[list[c].read + 1]
          OBVIOUS
        <4>1. since[list[c].read + 1] \in Nat
          BY <1>0, <2>1, SinceTime
        <4>2. since[list[c].read + 1] >= list[c].born
          BY <2>1 DEF Listed, CurrentUntil
        <4>3. since[list[c].read + 1] + Hour + MaxListing >= now + 1
          BY <1>1, <2>1, <3>2, <4>1, <4>2, ListConstants DEF ListOpen
        <4> QED BY <1>4, <2>1, <4>3
      <3> QED BY <1>0, <2>1, <2>3, <3>1, <3>2, <3>3 DEF Listed, CurrentUntil
    <2> QED BY <2>2, <2>3
  <1> QED BY <1>3, <1>5, <1>6 DEF ListInv

LEMMA ListStepAny == ListInv /\ [Next]_vars => ListInv'
  <1> SUFFICES ASSUME ListInv, [Next]_vars PROVE ListInv'
    OBVIOUS
  <1>1. ASSUME now' = now, UNCHANGED svars PROVE ListInv'
    BY <1>1 DEF svars, ListInv, ListTypes, Kept, Listed, CurrentUntil
  <1>2. ASSUME NEW c \in used \cap Fields, FieldStep(c), UNCHANGED <<svars, used>> PROVE ListInv'
    <2>1. now' = now
      BY <1>2 DEF FieldStep, Look, EmbeddingFails, Search, Store
    <2> QED BY <1>1, <1>2, <2>1
  <1>3. ASSUME NEW i \in used \cap Indexings, IndexStep(i), UNCHANGED <<svars, used>> PROVE ListInv'
    <2>1. now' = now
      BY <1>3 DEF IndexStep, SkipIndexing, BeginIndexing, FindRows, DeleteRows, InsertRow, SkipRow,
                  EndIndexing, IndexingFails
    <2> QED BY <1>1, <1>3, <2>1
  <1>4. CASE UNCHANGED vars
    BY <1>1, <1>4 DEF vars
  <1> QED BY <1>2, <1>3, <1>4, ListStepKeeps, ChangeKeeps, ListPassKeeps DEF Next

(***************************************************************************)
(* Answers.  What a search has found was there since the call began, and   *)
(* what was there before is found; an entry is as good until it expires.   *)
(***************************************************************************)
FieldPc == {"unused", "search", "ended", "failed"}
FieldRecord == [pc : FieldPc, query : Queries \cup {NoField.query}, allowed : Filters \cup {{}},
                born : Time, done : SUBSET Searches, found : [Searches -> SUBSET Row],
                whole : BOOLEAN, answer : SUBSET Row, at : Time]

AnswerTypes ==
    /\ entry \in [Queries -> Entry]
    /\ field \in [Fields -> FieldRecord]

\* No row of these was gone before then.
NotGone(rows, then) == \A r \in rows : row[r].state = "gone" => row[r].at >= then

\* The rows are full, or they hold those close to the query that were there before then and
\* that all may see.
HoldsAll(rows, q, then) ==
    Cardinality(rows) # TopK =>
        \A r \in There : /\ row[r].at < then /\ Close(q, Chunk(r))
                         /\ \A allowed \in Filters : Class[r[2]] \in allowed
                         => r \in rows

Fresh(q) ==
    LET e == entry[q] IN
    e.there => /\ e.expires >= now /\ e.expires <= now + Ttl
               /\ NotGone(e.chunks, e.expires - Age)
               /\ e.whole => HoldsAll(e.chunks, q, e.expires - Age)

Searching(c) ==
    LET x == field[c] IN
    /\ x.born <= now
    /\ x.pc = "search" =>
        /\ x.query \in Queries /\ x.allowed \in Filters
        /\ now <= x.born + MaxFlight
        /\ \A s \in Searches : NotGone(x.found[s], x.born)
        /\ x.whole => \A s \in x.done, r \in There :
              row[r].at < x.born /\ s = "vector" => r \in x.found[s]

Answered(c) ==
    LET x == field[c] IN
    x.pc = "ended" /\ x.at = now =>
        /\ x.allowed \in Filters
        /\ NotGone(x.answer, now - Age)
        /\ x.whole => HoldsAll(x.answer, x.query, now - Age)

AnswerInv ==
    /\ AnswerTypes
    /\ \A q \in Queries : Fresh(q)
    /\ \A c \in Fields : Searching(c) /\ Answered(c)

LEMMA AnswerConstants ==
  /\ Ttl \in Nat /\ MaxFlight \in Nat /\ Age \in Nat /\ Age = Ttl + MaxFlight
  /\ 0 \in Time /\ Time \subseteq Nat /\ MaxNow \in Nat
  BY ClockAssumption, RetrievalAssumption DEF Time, Age

LEMMA AnswerStarts ==
  /\ NoField \in FieldRecord /\ NoField.pc = "unused" /\ NoField.at = 0 /\ NoField.born = 0
  /\ \A s \in Searches : NoField.found[s] = {}
  /\ NoEntry \in Entry /\ ~NoEntry.there
  <1>1. NoField \in FieldRecord
    BY AnswerConstants DEF NoField, FieldRecord, FieldPc
  <1>2. NoEntry \in Entry
    BY AnswerConstants DEF NoEntry, Entry
  <1> QED BY <1>1, <1>2 DEF NoField, NoEntry

LEMMA InitAnswer == Init => AnswerInv
  <1> SUFFICES ASSUME Init PROVE AnswerInv
    OBVIOUS
  <1>1. entry = [q \in Queries |-> NoEntry] /\ field = [c \in Fields |-> NoField]
    BY DEF Init, RInit
  <1>2. now = 0
    BY DEF Init
  <1> QED BY <1>1, <1>2, AnswerStarts DEF AnswerInv, AnswerTypes, Fresh, Searching, Answered

\* Rows come and go now.
RowsMoved == \A r \in Row :
    row'[r] = row[r] \/ (row'[r].at = now /\ row'[r].state \in {"in", "gone"})

LEMMA IndexMovesRows ==
  ASSUME IndexInv, NEW i \in Indexings, IndexStep(i)
  PROVE  RowsMoved
  <1>1. row \in [Row -> RowState]
    BY DEF IndexInv, IndexTypes
  <1>2. CASE \/ SkipIndexing(i) \/ BeginIndexing(i) \/ FindRows(i) \/ SkipRow(i) \/ EndIndexing(i)
             \/ IndexingFails(i)
    BY <1>2 DEF SkipIndexing, BeginIndexing, FindRows, SkipRow, EndIndexing, IndexingFails, RowsMoved
  <1>3. CASE DeleteRows(i)
    BY <1>3 DEF DeleteRows, RowsMoved
  <1>4. CASE InsertRow(i)
    BY <1>1, <1>4 DEF InsertRow, RowsMoved
  <1> QED BY <1>2, <1>3, <1>4 DEF IndexStep

LEMMA ThereRows ==
  /\ There = {r \in Row : row[r].state = "in"}
  /\ There' = {r \in Row : row'[r].state = "in"}
  <1>1. \A r \in Row : r[2] \in Files
    BY RowParts, RetrievalAssumption
  <1> QED BY <1>1 DEF There, In

\* Rows that come and go now make nothing of the past untrue.
LEMMA MovedKeeps ==
  ASSUME IndexInv, IndexInv', AnswerInv, RowsMoved, now' = now, entry' = entry, field' = field
  PROVE  AnswerInv'
  <1>0. /\ now \in Nat
        /\ \A r \in Row : row[r].at \in Nat /\ row'[r].at \in Nat
    BY AnswerConstants DEF IndexInv, IndexTypes, RowState
  <1>1. ASSUME NEW r \in Row, NEW then \in Int, then <= now
        PROVE  /\ row'[r].state = "gone" /\ row'[r].at < then =>
                     row[r].state = "gone" /\ row[r].at = row'[r].at
               /\ row'[r].state = "in" /\ row'[r].at < then =>
                     row[r].state = "in" /\ row[r].at = row'[r].at
    BY <1>0, <1>1 DEF RowsMoved
  <1>2. ASSUME NEW rows \in SUBSET Row, NEW then \in Int, then <= now, NotGone(rows, then)
        PROVE  \A r \in rows : row'[r].state = "gone" => row'[r].at >= then
    BY <1>0, <1>1, <1>2 DEF NotGone
  <1>3. ASSUME NEW rows, NEW q, NEW then \in Int, then <= now, HoldsAll(rows, q, then)
        PROVE  Cardinality(rows) # TopK =>
                 \A r \in There' : /\ row'[r].at < then /\ Close(q, Chunk(r))
                                   /\ \A allowed \in Filters : Class[r[2]] \in allowed
                                   => r \in rows
    BY <1>0, <1>1, <1>3, ThereRows DEF HoldsAll
  <1>4. ASSUME NEW q \in Queries PROVE Fresh(q)'
    <2>1. Fresh(q) /\ entry[q] \in Entry
      BY DEF AnswerInv, AnswerTypes
    <2>2. entry[q].expires \in Nat /\ entry[q].chunks \in SUBSET Row
      BY <2>1, AnswerConstants DEF Entry
    <2>3. entry[q].there => entry[q].expires - Age \in Int /\ entry[q].expires - Age <= now
      BY <1>0, <2>1, <2>2, AnswerConstants DEF Fresh
    <2> QED BY <1>2, <1>3, <2>1, <2>2, <2>3 DEF Fresh, NotGone, HoldsAll
  <1>5. ASSUME NEW c \in Fields PROVE Searching(c)' /\ Answered(c)'
    <2>1. Searching(c) /\ Answered(c) /\ field[c] \in FieldRecord
      BY DEF AnswerInv, AnswerTypes
    <2>2. /\ field[c].born \in Nat /\ field[c].answer \in SUBSET Row
          /\ \A s \in Searches : field[c].found[s] \in SUBSET Row
          /\ now - Age \in Int /\ now - Age <= now
      <3>1. /\ field[c].born \in Time /\ field[c].answer \in SUBSET Row
            /\ field[c].found \in [Searches -> SUBSET Row]
        BY <2>1 DEF FieldRecord
      <3>2. now - Age \in Int /\ now - Age <= now
        BY <1>0, AnswerConstants
      <3> QED BY <3>1, <3>2, AnswerConstants
    <2>3. Answered(c)'
      BY <1>2, <1>3, <2>1, <2>2 DEF Answered, NotGone, HoldsAll
    <2>4. ASSUME field[c].pc = "search" PROVE Searching(c)'
      <3>1. field[c].born <= now
        BY <2>1, <2>4 DEF Searching
      <3>2. \A s \in Searches : NotGone(field[c].found[s], field[c].born)'
        <4> SUFFICES ASSUME NEW s \in Searches PROVE NotGone(field[c].found[s], field[c].born)'
          OBVIOUS
        <4>1. NotGone(field[c].found[s], field[c].born) /\ field[c].born \in Int
              /\ field[c].found[s] \in SUBSET Row
          BY <2>1, <2>2, <2>4 DEF Searching
        <4> QED BY <1>2, <3>1, <4>1 DEF NotGone
      <3>3. \A r \in There' : row'[r].at < field[c].born => r \in There /\ row[r].at < field[c].born
        BY <1>1, <2>2, <3>1, ThereRows
      <3> QED BY <2>1, <2>4, <3>2, <3>3 DEF Searching, NotGone
    <2>5. field'[c].born <= now'
      BY <2>1 DEF Searching
    <2> QED BY <2>3, <2>4, <2>5 DEF Searching
  <1> QED BY <1>4, <1>5 DEF AnswerInv, AnswerTypes

\* A call's step: one call changes, and the entry of a query at most.
LEMMA FieldOne ==
  ASSUME AnswerInv, NEW c \in Fields, NEW STATE x, x \in FieldRecord,
         field' = [field EXCEPT ![c] = x], now' = now, row' = row,
         entry' \in [Queries -> Entry],
         \A q \in Queries : entry'[q] = entry[q] \/ Fresh(q)',
         field'[c] = x => Searching(c)' /\ Answered(c)'
  PROVE  AnswerInv'
  <1>1. AnswerTypes' /\ field'[c] = x /\ \A d \in Fields \ {c} : field'[d] = field[d]
    BY DEF AnswerInv, AnswerTypes
  <1>2. There' = There
    BY ThereRows
  <1>3. \A q \in Queries : Fresh(q)'
    BY <1>2 DEF AnswerInv, Fresh, NotGone, HoldsAll
  <1>4. \A d \in Fields \ {c} : Searching(d)' /\ Answered(d)'
    BY <1>1, <1>2 DEF AnswerInv, Searching, Answered, NotGone, HoldsAll
  <1> QED BY <1>1, <1>3, <1>4 DEF AnswerInv

LEMMA BestRows ==
  ASSUME NEW rows, NEW n, NEW score, NEW best \in Best(rows, n, score)
  PROVE  best \subseteq rows /\ (best = rows \/ Cardinality(best) = n)
  BY DEF Best

\* A close row that the vector search found passes, whatever else is found.
LEMMA ClosePasses ==
  ASSUME NEW q \in Queries, NEW found \in [Searches -> SUBSET Row],
         NEW divisor \in Divisors(q, found["lexical"]), NEW r \in found["vector"], Close(q, Chunk(r))
  PROVE  Similarity(q, found, divisor)[r] >= MinScore * (VectorWeight + LexicalWeight) * divisor
  <1>0. found["vector"] \in SUBSET Row /\ found["lexical"] \in SUBSET Row /\ r \in Row
    BY DEF Searches
  <1> DEFINE v == Vector[q][Chunk(r)]
             w == Words[q][Chunk(r)]
             need == MinScore * (VectorWeight + LexicalWeight)
             close == VectorWeight * v
             more == IF r \in found["lexical"] THEN LexicalWeight * Scale * w ELSE 0
  <1>1. v \in Nat /\ w \in Nat /\ VectorWeight \in Nat /\ LexicalWeight \in Nat /\ MinScore \in Nat
    BY <1>0, RetrievalAssumption DEF Scale
  <1>2. divisor \in Nat
    BY <1>0, RetrievalAssumption DEF Divisors
  <1>3. need \in Nat /\ close \in Nat /\ more \in Nat
    <2>1. LexicalWeight * Scale * w \in Nat
      BY <1>1 DEF Scale
    <2> QED BY <1>1, <2>1
  <1>4. close >= need
    BY DEF Close
  <1>5. Similarity(q, found, divisor)[r] = close * divisor + more
    BY <1>0 DEF Similarity
  <1> HIDE DEF need, close, more
  <1>6. close * divisor + more >= need * divisor
    <2>1. \A a, b, d \in Nat : a >= b => a * d >= b * d /\ a * d \in Nat
      OBVIOUS
    <2>2. close * divisor >= need * divisor /\ close * divisor \in Nat /\ need * divisor \in Nat
      BY <1>2, <1>3, <1>4, <2>1
    <2> QED BY <1>3, <2>2
  <1> QED BY <1>5, <1>6 DEF need

\* What both searches have found and the filters let through.
LEMMA StoredRows ==
  ASSUME AnswerInv, IndexInv, NEW c \in Fields, field[c].pc = "search", field[c].done = Searches,
         NEW a \in Answers(field[c].query, field[c].found, field[c].allowed)
  PROVE  /\ a.chunks \in SUBSET Row /\ a.whole \in BOOLEAN /\ NotGone(a.chunks, field[c].born)
         /\ field[c].whole /\ a.whole => HoldsAll(a.chunks, field[c].query, field[c].born)
  <1> DEFINE x == field[c]
             rows == UNION {x.found[s] : s \in Searches}
  <1>1. /\ x.query \in Queries /\ x.allowed \in Filters
        /\ \A s \in Searches : NotGone(x.found[s], x.born)
        /\ x.whole => \A r \in There : row[r].at < x.born => r \in x.found["vector"]
    BY DEF AnswerInv, Searching, Searches
  <1>2. x.found \in [Searches -> SUBSET Row]
    BY DEF AnswerInv, AnswerTypes, FieldRecord
  <1>3. PICK divisor \in Divisors(x.query, x.found["lexical"]) :
          a \in AnswersFor(rows, Similarity(x.query, x.found, divisor), divisor, x.allowed)
    BY DEF Answers
  <1> DEFINE similarity == Similarity(x.query, x.found, divisor)
  <1> HIDE DEF similarity
  <1>p. PICK combined \in Best(rows, Limit, similarity) :
          \E chunks \in Best(Passes(FilterByLegalAccess(combined, x.allowed), similarity, divisor),
                             TopK, similarity) :
             a = [chunks |-> chunks, whole |-> combined = rows]
    BY <1>3 DEF AnswersFor, similarity
  <1> DEFINE chunks == a.chunks
             passes == Passes(FilterByLegalAccess(combined, x.allowed), similarity, divisor)
  <1>q. chunks \in Best(passes, TopK, similarity) /\ a.whole = (combined = rows)
    BY <1>p
  <1> HIDE DEF chunks
  <1>4. combined \subseteq rows /\ chunks \subseteq passes
          /\ (chunks = passes \/ Cardinality(chunks) = TopK)
    BY <1>p, <1>q, BestRows
  <1>5. passes \subseteq combined
    BY DEF Passes, FilterByLegalAccess
  <1>6. chunks \in SUBSET Row /\ NotGone(chunks, x.born)
    <2>1. \A s \in Searches : x.found[s] \in SUBSET Row
      BY <1>2
    <2>2. \A r \in chunks : \E s \in Searches : r \in x.found[s]
      BY <1>4, <1>5
    <2> QED BY <1>1, <2>1, <2>2 DEF NotGone
  <1>7. ASSUME x.whole, a.whole PROVE HoldsAll(chunks, x.query, x.born)
    <2> SUFFICES ASSUME Cardinality(chunks) # TopK,
                        NEW r \in There, row[r].at < x.born, Close(x.query, Chunk(r)),
                        \A allowed \in Filters : Class[r[2]] \in allowed
                 PROVE  r \in chunks
      BY DEF HoldsAll
    <2>1. r \in x.found["vector"]
      BY <1>1, <1>7
    <2>2. r \in combined
      BY <1>7, <1>q, <2>1 DEF Searches
    <2>3. similarity[r] >= MinScore * (VectorWeight + LexicalWeight) * divisor
      BY <1>1, <1>2, <1>3, <2>1, ClosePasses DEF similarity
    <2>4. r \in passes
      BY <1>1, <2>2, <2>3 DEF Passes, FilterByLegalAccess
    <2> QED BY <1>4, <2>4
  <1> QED BY <1>6, <1>7, <1>q DEF chunks

\* Less is asked of an earlier time.
LEMMA Earlier ==
  ASSUME IndexInv, NEW rows \in SUBSET Row, NEW q, NEW then \in Int, NEW before \in Int, before <= then
  PROVE  /\ NotGone(rows, then) => NotGone(rows, before)
         /\ HoldsAll(rows, q, then) => HoldsAll(rows, q, before)
  <1>1. \A r \in Row : row[r].at \in Nat
    BY AnswerConstants DEF IndexInv, IndexTypes, RowState
  <1>2. NotGone(rows, then) => NotGone(rows, before)
    BY <1>1 DEF NotGone
  <1>3. HoldsAll(rows, q, then) => HoldsAll(rows, q, before)
    BY <1>1, ThereRows DEF HoldsAll
  <1> QED BY <1>2, <1>3

LEMMA FieldStepKeeps == ASSUME AnswerInv, IndexInv, NEW c \in Fields, FieldStep(c) PROVE AnswerInv'
  <1>0. /\ AnswerTypes /\ field[c] \in FieldRecord /\ Searching(c) /\ Answered(c)
        /\ \A q \in Queries : Fresh(q)
        /\ now \in Time /\ now \in Nat /\ now' = now /\ row' = row
    BY AnswerConstants DEF AnswerInv, AnswerTypes, IndexInv, IndexTypes, FieldStep, Look, EmbeddingFails,
                           Search, Store
  <1>t. There' = There
    BY <1>0, ThereRows
  <1>e. entry \in [Queries -> Entry]
    BY <1>0 DEF AnswerTypes
  <1>1. ASSUME NEW q \in Queries, NEW allowed \in Filters, Look(c, q, allowed) PROVE AnswerInv'
    <2>1. CASE Cached(q)
      <3> DEFINE x == [NoField EXCEPT !.pc = "ended", !.query = q, !.allowed = allowed, !.at = now,
                         !.answer = entry[q].chunks, !.whole = entry[q].whole]
      <3>1. entry[q] \in Entry /\ entry[q].there /\ entry[q].expires \in Nat
            /\ entry[q].chunks \in SUBSET Row /\ entry[q].whole \in BOOLEAN
        BY <1>e, <2>1, AnswerConstants DEF Entry, Cached
      <3>2. /\ x \in FieldRecord /\ x.pc = "ended" /\ x.query = q /\ x.allowed = allowed /\ x.at = now
            /\ x.answer = entry[q].chunks /\ x.whole = entry[q].whole /\ x.born = NoField.born
        BY <1>0, <3>1, AnswerStarts DEF FieldRecord, FieldPc
      <3>3. field' = [field EXCEPT ![c] = x] /\ entry' = entry
        BY <1>1, <2>1 DEF Look
      <3> HIDE DEF x
      <3>4. /\ entry[q].expires >= now /\ NotGone(entry[q].chunks, entry[q].expires - Age)
            /\ entry[q].whole => HoldsAll(entry[q].chunks, q, entry[q].expires - Age)
        BY <1>0, <3>1 DEF Fresh
      <3>5. /\ entry[q].expires - Age \in Int /\ now - Age \in Int
            /\ now - Age <= entry[q].expires - Age
        BY <1>0, <3>1, <3>4, AnswerConstants
      <3>6. /\ NotGone(entry[q].chunks, now - Age)
            /\ entry[q].whole => HoldsAll(entry[q].chunks, q, now - Age)
        BY <3>1, <3>4, <3>5, Earlier
      <3>7. field'[c] = x => Searching(c)' /\ Answered(c)'
        BY AnswerStarts, <1>0, <1>t, <3>2, <3>6 DEF Searching, Answered, NotGone, HoldsAll
      <3> QED BY <1>0, <1>e, <3>2, <3>3, <3>7, FieldOne
    <2>2. CASE ~Cached(q)
      <3> DEFINE x == [NoField EXCEPT !.pc = "search", !.query = q, !.allowed = allowed, !.born = now]
      <3>1. /\ x \in FieldRecord /\ x.pc = "search" /\ x.query = q /\ x.allowed = allowed
            /\ x.born = now /\ x.done = {} /\ \A s \in Searches : x.found[s] = {}
        BY <1>0, AnswerStarts DEF FieldRecord, FieldPc, NoField
      <3>2. field' = [field EXCEPT ![c] = x] /\ entry' = entry
        BY <1>1, <2>2 DEF Look
      <3> HIDE DEF x
      <3>3. now <= now + MaxFlight
        BY <1>0, AnswerConstants
      <3>4. field'[c] = x => Searching(c)' /\ Answered(c)'
        BY <1>0, <3>1, <3>3 DEF Searching, Answered, NotGone
      <3> QED BY <1>0, <1>e, <3>1, <3>2, <3>4, FieldOne
    <2> QED BY <2>1, <2>2
  <1>2. ASSUME EmbeddingFails(c) PROVE AnswerInv'
    <2> DEFINE x == [NoField EXCEPT !.pc = "failed"]
    <2>1. x \in FieldRecord /\ x.pc = "failed" /\ x.born <= now
      BY <1>0, AnswerStarts DEF FieldRecord, FieldPc
    <2>2. field' = [field EXCEPT ![c] = x] /\ entry' = entry
      BY <1>2 DEF EmbeddingFails
    <2> HIDE DEF x
    <2>3. field'[c] = x => Searching(c)' /\ Answered(c)'
      BY <1>0, <2>1 DEF Searching, Answered
    <2> QED BY <1>0, <1>e, <2>1, <2>2, <2>3, FieldOne
  <1>3. ASSUME NEW s \in Searches, Search(c, s) PROVE AnswerInv'
    <2>0. field[c].pc = "search" /\ entry' = entry
      BY <1>3 DEF Search
    <2>1. PICK x \in FieldRecord :
            /\ field' = [field EXCEPT ![c] = x] /\ x.pc = "search" /\ x.query = field[c].query
            /\ x.allowed = field[c].allowed /\ x.born = field[c].born
            /\ x.done = field[c].done \cup {s}
            /\ \A t \in Searches : t # s => x.found[t] = field[c].found[t]
            /\ x.found[s] = field[c].found[s] \/ x.found[s] \subseteq There
            /\ x.whole => field[c].whole /\ x.found[s] = Hits(field[c].query, s)
      <3>2. ASSUME NEW best \in Finds(field[c].query, s),
                   field' = [field EXCEPT ![c].done = @ \cup {s}, ![c].found[s] = best,
                                          ![c].whole = @ /\ best = Hits(field[c].query, s)]
            PROVE  \E x \in FieldRecord :
                      /\ field' = [field EXCEPT ![c] = x] /\ x.pc = "search" /\ x.query = field[c].query
                      /\ x.allowed = field[c].allowed /\ x.born = field[c].born
                      /\ x.done = field[c].done \cup {s}
                      /\ \A t \in Searches : t # s => x.found[t] = field[c].found[t]
                      /\ x.found[s] = field[c].found[s] \/ x.found[s] \subseteq There
                      /\ x.whole => field[c].whole /\ x.found[s] = Hits(field[c].query, s)
        <4> DEFINE f == [field[c].found EXCEPT ![s] = best]
                   w == field[c].whole /\ best = Hits(field[c].query, s)
                   x == [field[c] EXCEPT !.done = @ \cup {s}, !.found = f, !.whole = w]
        <4>0. best \subseteq There /\ best \in SUBSET Row
          BY BestRows, ThereRows DEF Finds, Hits
        <4>1. /\ f \in [Searches -> SUBSET Row] /\ f[s] = best
              /\ \A t \in Searches : t # s => f[t] = field[c].found[t]
          BY <1>0, <4>0 DEF FieldRecord
        <4>2. field' = [field EXCEPT ![c] = x]
          BY <3>2
        <4>w. w \in BOOLEAN
          BY <1>0 DEF FieldRecord
        <4> HIDE DEF f, w
        <4>3. /\ x \in FieldRecord /\ x.pc = field[c].pc /\ x.query = field[c].query
              /\ x.allowed = field[c].allowed /\ x.born = field[c].born
              /\ x.done = field[c].done \cup {s} /\ x.found = f /\ x.whole = w
          BY <1>0, <4>1, <4>w DEF FieldRecord
        <4> HIDE DEF x
        <4>4. x.whole => field[c].whole /\ x.found[s] = Hits(field[c].query, s)
          BY <4>1, <4>3 DEF w
        <4> QED BY <2>0, <4>0, <4>1, <4>2, <4>3, <4>4
      <3>3. CASE field' = [field EXCEPT ![c].done = @ \cup {s}, ![c].whole = FALSE]
        <4> DEFINE x == [field[c] EXCEPT !.done = @ \cup {s}, !.whole = FALSE]
        <4>1. field' = [field EXCEPT ![c] = x]
          BY <3>3
        <4>2. /\ x \in FieldRecord /\ x.pc = field[c].pc /\ x.query = field[c].query
              /\ x.allowed = field[c].allowed /\ x.born = field[c].born
              /\ x.done = field[c].done \cup {s} /\ x.found = field[c].found /\ ~x.whole
          BY <1>0 DEF FieldRecord
        <4> HIDE DEF x
        <4> QED BY <2>0, <4>1, <4>2
      <3> QED BY <1>3, <3>2, <3>3 DEF Search
    <2>2. \A rows \in SUBSET There : NotGone(rows, field[c].born)
      BY ThereRows DEF NotGone
    <2>3. \A t \in Searches : NotGone(x.found[t], x.born)
      BY <1>0, <2>0, <2>1, <2>2 DEF Searching
    <2>4. ASSUME x.whole, NEW t \in x.done, NEW r \in There, row[r].at < x.born, t = "vector"
          PROVE  r \in x.found[t]
      <3>1. field[c].whole /\ x.found[s] = Hits(x.query, s) /\ t \in Searches
        BY <1>0, <2>1, <2>4 DEF FieldRecord
      <3>2. CASE t = s
        BY <2>4, <3>1, <3>2 DEF Hits
      <3>3. CASE t # s
        BY <1>0, <2>0, <2>1, <2>4, <3>1, <3>3 DEF Searching
      <3> QED BY <3>2, <3>3
    <2>5. field'[c] = x => Searching(c)' /\ Answered(c)'
      BY <1>0, <1>t, <2>0, <2>1, <2>3, <2>4 DEF Searching, Answered, NotGone
    <2> QED BY <1>0, <1>e, <2>0, <2>1, <2>5, FieldOne
  <1>4. ASSUME Store(c) PROVE AnswerInv'
    <2>q. PICK q \in Queries : q = field[c].query
      BY <1>0, <1>4 DEF Store, Searching
    <2>a. PICK a \in Answers(q, field[c].found, field[c].allowed) :
            /\ entry' = IF Ttl = 0 THEN entry ELSE [entry EXCEPT ![q] =
                          [chunks |-> a.chunks, expires |-> now + Ttl,
                           whole |-> field[c].whole /\ a.whole, there |-> TRUE]]
            /\ field' = [field EXCEPT ![c] = [NoField EXCEPT !.pc = "ended", !.at = now, !.query = q,
                           !.allowed = field[c].allowed, !.answer = a.chunks,
                           !.whole = field[c].whole /\ a.whole]]
      BY <1>4, <2>q DEF Store
    <2>h. /\ a.chunks \in SUBSET Row /\ NotGone(a.chunks, field[c].born)
          /\ field[c].whole /\ a.whole => HoldsAll(a.chunks, q, field[c].born)
      BY <1>4, <2>q, StoredRows DEF Store
    <2>p. PICK rows, whole : rows = a.chunks /\ whole = (field[c].whole /\ a.whole)
      OBVIOUS
    <2> DEFINE e == [chunks |-> rows, expires |-> now + Ttl, whole |-> whole, there |-> TRUE]
               x == [NoField EXCEPT !.pc = "ended", !.at = now, !.query = q,
                       !.allowed = field[c].allowed, !.answer = rows, !.whole = whole]
    <2>1. /\ field[c].pc = "search" /\ field[c].done = Searches
          /\ entry' = IF Ttl = 0 THEN entry ELSE [entry EXCEPT ![q] = e]
          /\ field' = [field EXCEPT ![c] = x]
      BY <1>4, <2>a, <2>p DEF Store
    <2>2. /\ q \in Queries /\ field[c].allowed \in Filters /\ whole \in BOOLEAN
          /\ field[c].born \in Nat /\ now <= field[c].born + MaxFlight
      BY <1>0, <2>1, <2>q, <2>p, AnswerConstants DEF Searching, FieldRecord
    <2>3. /\ rows \in SUBSET Row /\ NotGone(rows, field[c].born)
          /\ whole => HoldsAll(rows, q, field[c].born)
      BY <2>h, <2>p
    <2>4. e \in Entry /\ e.there /\ e.expires = now + Ttl /\ e.chunks = rows /\ e.whole = whole
      BY <1>0, <2>2, <2>3, AnswerConstants DEF Entry, Time
    <2>5. /\ x \in FieldRecord /\ x.pc = "ended" /\ x.at = now /\ x.query = q
          /\ x.allowed = field[c].allowed /\ x.answer = rows /\ x.whole = whole
          /\ x.born = NoField.born
      BY <1>0, <2>2, <2>3, AnswerStarts DEF FieldRecord, FieldPc
    <2> HIDE DEF e, x
    <2>6. /\ now - Age \in Int /\ now + Ttl - Age \in Int /\ now + Ttl >= now
          /\ now - Age <= field[c].born /\ now + Ttl - Age <= field[c].born
      BY <1>0, <2>2, AnswerConstants
    <2>7. /\ NotGone(rows, now - Age) /\ NotGone(rows, now + Ttl - Age)
          /\ whole => HoldsAll(rows, q, now - Age) /\ HoldsAll(rows, q, now + Ttl - Age)
      <3>1. NotGone(rows, now - Age) /\ (whole => HoldsAll(rows, q, now - Age))
        BY <2>2, <2>3, <2>6, Earlier
      <3>2. NotGone(rows, now + Ttl - Age) /\ (whole => HoldsAll(rows, q, now + Ttl - Age))
        BY <2>2, <2>3, <2>6, Earlier
      <3> QED BY <3>1, <3>2
    <2>8. ASSUME entry'[q] = e PROVE Fresh(q)'
      <3>1. /\ NotGone(rows, now + Ttl - Age)'
            /\ whole => HoldsAll(rows, q, now + Ttl - Age)'
        BY <1>0, <1>t, <2>7 DEF NotGone, HoldsAll
      <3>2. /\ entry'[q].there /\ entry'[q].expires = now' + Ttl /\ entry'[q].chunks = rows
            /\ entry'[q].whole = whole /\ now' + Ttl >= now' /\ now' + Ttl <= now' + Ttl
        BY <1>0, <2>4, <2>6, <2>8, AnswerConstants
      <3>3. entry'[q].expires - Age = now' + Ttl - Age
        BY <1>0, <3>2, AnswerConstants
      <3> QED BY <3>1, <3>2, <3>3 DEF Fresh, NotGone, HoldsAll
    <2>9. entry' \in [Queries -> Entry] /\ \A p \in Queries : entry'[p] = entry[p] \/ Fresh(p)'
      BY <1>e, <2>1, <2>2, <2>4, <2>8
    <2>10. field'[c] = x => Searching(c)' /\ Answered(c)'
      BY AnswerStarts, <1>0, <1>t, <2>2, <2>5, <2>7 DEF Searching, Answered, NotGone, HoldsAll
    <2> QED BY <1>0, <2>1, <2>5, <2>9, <2>10, FieldOne
  <1> QED BY <1>1, <1>2, <1>3, <1>4 DEF FieldStep

\* Time passes: what is no longer remembered of rows is too old to matter.
LEMMA AnswerPassKeeps == ASSUME AnswerInv, IndexInv, Tick PROVE AnswerInv'
  <1>0. /\ AnswerTypes /\ now \in Nat /\ now' = now + 1
        /\ field' = [c \in Fields |-> IF field[c].pc = "ended" THEN [NoField EXCEPT !.pc = "ended"]
                                                               ELSE field[c]]
        /\ entry' = [q \in Queries |-> IF Expired(entry[q], now + 1) THEN NoEntry ELSE entry[q]]
        /\ \A c \in Fields : field[c].pc = "search" => now < field[c].born + MaxFlight
    BY AnswerConstants DEF AnswerInv, IndexInv, IndexTypes, Tick, RPass, RInTime
  <1>1. /\ There' = There
        /\ \A r \in Row : /\ row'[r].state = row[r].state /\ row[r].at \in Nat
                          /\ row'[r].at = IF row[r].at + Age < now + 1 THEN 0 ELSE row[r].at
    <2>1. row \in [Row -> RowState] /\ RPass
      BY DEF IndexInv, IndexTypes, Tick
    <2>2. \A r \in Row : row[r].at \in Nat
      BY <2>1, AnswerConstants DEF RowState
    <2> QED BY <2>1, <2>2, RowsAged, ThereRows
  <1> DEFINE idle == [NoField EXCEPT !.pc = "ended"]
  <1>2. idle \in FieldRecord /\ idle.pc = "ended" /\ idle.at = 0 /\ idle.born = 0
    BY AnswerStarts DEF FieldRecord, FieldPc
  <1> HIDE DEF idle
  <1>3. AnswerTypes'
    <2>1. entry' \in [Queries -> Entry]
      BY <1>0, AnswerStarts DEF AnswerTypes
    <2>2. field' \in [Fields -> FieldRecord]
      BY <1>0, <1>2 DEF AnswerTypes, idle
    <2> QED BY <2>1, <2>2 DEF AnswerTypes
  <1>a. ASSUME NEW then \in Int, now + 1 <= then + Age, NEW r \in Row
        PROVE  /\ row[r].at >= then => row'[r].at = row[r].at
               /\ row'[r].at < then => row[r].at < then
    <2>1. row[r].at >= then => row'[r].at = row[r].at
      BY <1>0, <1>1, <1>a, AnswerConstants
    <2> QED BY <1>1, <1>a, <2>1
  <1>4. ASSUME NEW rows \in SUBSET Row, NEW then \in Int, now + 1 <= then + Age, NotGone(rows, then)
        PROVE  \A r \in rows : row'[r].state = "gone" => row'[r].at >= then
    BY <1>1, <1>4, <1>a DEF NotGone
  <1>b. ASSUME NEW rows \in SUBSET Row, NEW q, NEW then \in Int, now + 1 <= then + Age,
               HoldsAll(rows, q, then)
        PROVE  Cardinality(rows) # TopK =>
                 \A r \in There' : /\ row'[r].at < then /\ Close(q, Chunk(r))
                                   /\ \A allowed \in Filters : Class[r[2]] \in allowed
                                   => r \in rows
    <2>1. \A r \in There' : r \in There /\ r \in Row
      BY <1>1, ThereRows
    <2> QED BY <1>a, <1>b, <2>1 DEF HoldsAll
  <1>5. ASSUME NEW q \in Queries PROVE Fresh(q)'
    <2>1. Fresh(q) /\ entry[q].expires \in Nat /\ entry[q].chunks \in SUBSET Row
      BY <1>0, AnswerConstants DEF AnswerInv, AnswerTypes, Entry
    <2>2. CASE Expired(entry[q], now + 1)
      <3>1. entry'[q] = NoEntry
        BY <1>0, <2>2
      <3> QED BY <3>1, AnswerStarts DEF Fresh
    <2>3. CASE ~Expired(entry[q], now + 1)
      <3>1. entry'[q] = entry[q] /\ entry[q].expires >= now + 1
        BY <1>0, <2>1, <2>3 DEF Expired
      <3>2. entry[q].expires - Age \in Int /\ now + 1 <= (entry[q].expires - Age) + Age
        BY <1>0, <2>1, <3>1, AnswerConstants
      <3>3. entry[q].there => entry[q].expires <= now + 1 + Ttl
        BY <1>0, <2>1, AnswerConstants DEF Fresh
      <3>4. ASSUME entry[q].there
            PROVE  \A r \in entry[q].chunks :
                      row'[r].state = "gone" => row'[r].at >= entry[q].expires - Age
        BY <1>4, <2>1, <3>2, <3>4 DEF Fresh
      <3>5. ASSUME entry[q].there, entry[q].whole
            PROVE  Cardinality(entry[q].chunks) # TopK =>
                     \A r \in There' : /\ row'[r].at < entry[q].expires - Age
                                       /\ Close(q, Chunk(r))
                                       /\ \A allowed \in Filters : Class[r[2]] \in allowed
                                       => r \in entry[q].chunks
        BY <1>b, <2>1, <3>2, <3>5 DEF Fresh
      <3> QED BY <1>0, <3>1, <3>3, <3>4, <3>5 DEF Fresh, NotGone, HoldsAll
    <2> QED BY <2>2, <2>3
  <1>6. ASSUME NEW c \in Fields PROVE Searching(c)' /\ Answered(c)'
    <2>1. CASE field[c].pc = "ended"
      <3>1. field'[c] = idle /\ now' # 0 /\ 0 <= now'
        BY <1>0, <2>1 DEF idle
      <3> QED BY <1>2, <3>1 DEF Searching, Answered
    <2>2. CASE field[c].pc # "ended"
      <3>1. field'[c] = field[c]
        BY <1>0, <2>2
      <3>2. ASSUME field[c].pc = "search" PROVE Searching(c)'
        <4>1. /\ Searching(c) /\ field[c].born \in Nat
              /\ \A s \in Searches : field[c].found[s] \in SUBSET Row
          BY <1>0, AnswerConstants DEF AnswerInv, AnswerTypes, FieldRecord
        <4>2. field[c].born <= now + 1 /\ now + 1 <= field[c].born + MaxFlight
          BY <1>0, <3>2, <4>1, AnswerConstants DEF Searching
        <4>3. now + 1 <= field[c].born + Age
          BY <1>0, <4>1, <4>2, AnswerConstants
        <4>4. ASSUME NEW s \in Searches
              PROVE  \A r \in field[c].found[s] : row'[r].state = "gone" => row'[r].at >= field[c].born
          <5>1. /\ NotGone(field[c].found[s], field[c].born) /\ field[c].born \in Int
                /\ field[c].found[s] \in SUBSET Row
            BY <3>2, <4>1 DEF Searching
          <5> QED BY <1>4, <4>3, <5>1
        <4>5. \A r \in There' : row'[r].at < field[c].born => r \in There /\ row[r].at < field[c].born
          <5>1. \A r \in Row : row[r].at >= field[c].born => row'[r].at = row[r].at
            BY <1>0, <1>1, <4>1, <4>3, AnswerConstants
          <5> QED BY <1>1, <4>1, <5>1, ThereRows
        <4> QED BY <1>0, <3>1, <3>2, <4>1, <4>2, <4>4, <4>5 DEF Searching, NotGone
      <3>3. field[c].born <= now + 1
        <4>1. field[c].born \in Nat /\ field[c].born <= now
          BY <1>0, AnswerConstants DEF AnswerInv, AnswerTypes, FieldRecord, Searching
        <4> QED BY <1>0, <4>1
      <3> QED BY <1>0, <2>2, <3>1, <3>2, <3>3 DEF Searching, Answered
    <2> QED BY <2>1, <2>2
  <1> QED BY <1>3, <1>5, <1>6 DEF AnswerInv

LEMMA AnswerStepAny == AnswerInv /\ IndexInv /\ [Next]_vars => AnswerInv'
  <1> SUFFICES ASSUME AnswerInv, IndexInv, [Next]_vars PROVE AnswerInv'
    OBVIOUS
  <1>1. IndexInv'
    BY IndexStepAny
  <1>2. ASSUME now' = now, row' = row, entry' = entry, field' = field PROVE AnswerInv'
    BY <1>1, <1>2, MovedKeeps DEF RowsMoved
  <1>3. ASSUME NEW i \in used \cap Indexings, IndexStep(i) PROVE AnswerInv'
    <2>1. now' = now /\ entry' = entry /\ field' = field
      BY <1>3 DEF IndexStep, SkipIndexing, BeginIndexing, FindRows, DeleteRows, InsertRow, SkipRow,
                  EndIndexing, IndexingFails
    <2> QED BY <1>1, <1>3, <2>1, IndexMovesRows, MovedKeeps
  <1>4. ASSUME NEW c \in used \cap Lists, ListStep(c), UNCHANGED <<rvars, used>> PROVE AnswerInv'
    <2>1. now' = now
      BY <1>4 DEF ListStep, Begin, Get, DeleteGlobal, DeleteOwn, Find, Set, ListFails
    <2> QED BY <1>2, <1>4, <2>1 DEF rvars
  <1>5. CASE ChangeRuleSets /\ UNCHANGED <<rvars, used>>
    BY <1>2, <1>5 DEF ChangeRuleSets, rvars
  <1>6. CASE UNCHANGED vars
    BY <1>2, <1>6 DEF vars, rvars
  <1> QED BY <1>3, <1>4, <1>5, <1>6, FieldStepKeeps, AnswerPassKeeps DEF Next

----------------------------------------------------------------------------

CacheInv == IndexInv /\ ListInv /\ AnswerInv /\ used \in Used

LEMMA InitCache == Init => CacheInv
  BY InitIndex, InitList, InitAnswer DEF Init, CacheInv

LEMMA CacheStep == CacheInv /\ [Next]_vars => CacheInv'
  <1> SUFFICES ASSUME CacheInv, [Next]_vars PROVE CacheInv'
    OBVIOUS
  <1>1. used' = used
    BY DEF Next, Tick, vars
  <1> QED BY <1>1, IndexStepAny, ListStepAny, AnswerStepAny DEF CacheInv

\* The segments, the two caches and the calls at work on them are well typed in every
\* reachable state.
THEOREM TypeCorrect == Spec => []TypeOK
  <1>1. CacheInv => TypeOK
    <2> SUFFICES ASSUME CacheInv PROVE RTypeOK /\ STypeOK
      BY DEF CacheInv, TypeOK
    <2>1. /\ now \in Time /\ row \in [Row -> RowState] /\ entry \in [Queries -> Entry]
          /\ field \in [Fields -> FieldRecord] /\ indexing \in [Indexings -> IndexRecord]
          /\ \A c \in Fields : field[c].born <= now
      BY DEF CacheInv, IndexInv, IndexTypes, AnswerInv, AnswerTypes, Searching
    <2>2. RTypeOK
      BY <2>1 DEF RTypeOK, FieldRecord, IndexRecord
    <2>3. /\ version \in Versions /\ since \in [Versions -> Time]
          /\ cached \in [CacheKeys -> CachedRecord] /\ list \in [Lists -> ListRecord]
          /\ \A k \in CacheKeys : Kept(k) /\ cached[k] \in CachedRecord
          /\ \A c \in Lists : Listed(c)
      BY DEF CacheInv, ListInv, ListTypes
    <2>4. STypeOK
      BY <2>3, ListConstants DEF STypeOK, Versions, Listed, Kept, CachedRecord
    <2> QED BY <2>2, <2>4
  <1> QED BY <1>1, InitCache, CacheStep, PTL DEF Spec

\* Whatever indexings of a file fail half way or overlap: of those that had text, one that
\* ended, had the file to itself and was the last leaves each chunk it got an embedding for
\* once and nothing else.
THEOREM LastIndexingRepairs == Spec => []IndexingRepairs
  <1>1. CacheInv => IndexingRepairs
    BY DEF CacheInv, IndexInv, Indexed, IndexingRepairs, RowsOf
  <1> QED BY <1>1, InitCache, CacheStep, PTL DEF Spec

\* However lists, deletions and changes of rule sets overlap and the cache fails: a forced
\* list is as new as its call, and no list is older than an hour and the time a call takes.
THEOREM ListsNotOld == Spec => []ListsRecent
  <1>1. CacheInv => ListsRecent
    BY DEF CacheInv, ListInv, Listed, ListsRecent
  <1> QED BY <1>1, InitCache, CacheStep, PTL DEF Spec

\* If all callers may see the same classes: however calls, indexings and expiry interleave,
\* an answer is no older than an entry lives and a search takes, in what it holds and, unless
\* it is full, failed or was cut, in what it lacks.
THEOREM AnswersNotOld ==
  ASSUME \A a, b \in Filters : a = b
  PROVE  Spec => []AnswersRecent
  <1>1. CacheInv => AnswersRecent
    <2> SUFFICES ASSUME CacheInv, NEW c \in Fields, field[c].pc = "ended", field[c].at = now
                 PROVE  /\ \A r \in field[c].answer : row[r].state = "gone" => row[r].at + Age >= now
                        /\ field[c].whole /\ Cardinality(field[c].answer) # TopK => \A r \in There :
                             /\ row[r].at + Age < now
                             /\ Close(field[c].query, Chunk(r))
                             /\ Class[r[2]] \in field[c].allowed
                             => r \in field[c].answer
      BY DEF AnswersRecent
    <2>1. Answered(c) /\ field[c].answer \in SUBSET Row
      BY DEF CacheInv, AnswerInv, AnswerTypes, FieldRecord
    <2>2. \A r \in Row : row[r].at \in Nat
      BY AnswerConstants DEF CacheInv, IndexInv, IndexTypes, RowState
    <2>3. now \in Nat
      BY AnswerConstants DEF CacheInv, IndexInv, IndexTypes
    <2>4. \A r \in Row : /\ row[r].at >= now - Age => row[r].at + Age >= now
                         /\ row[r].at + Age < now => row[r].at < now - Age
      BY <2>2, <2>3, AnswerConstants
    <2>5. \A r \in There : Class[r[2]] \in field[c].allowed =>
                              \A allowed \in Filters : Class[r[2]] \in allowed
      BY <2>1 DEF Answered
    <2>6. There \subseteq Row
      BY ThereRows
    <2> QED BY <2>1, <2>4, <2>5, <2>6 DEF Answered, NotGone, HoldsAll
  <1> QED BY <1>1, InitCache, CacheStep, PTL DEF Spec
=============================================================================
