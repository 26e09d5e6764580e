----------------------------- MODULE Retrieval -----------------------------
(***************************************************************************)
(* Retrieval of context for the fields of a document (rag.service.ts) and  *)
(* the indexing it searches (document-indexing.service.ts).                *)
(*                                                                         *)
(* queryField looks into a cache in memory, whose entries expire and are   *)
(* never invalidated; else it embeds the query, searches the segments by   *)
(* vector and by words side by side, weighs the two scores, and stores the *)
(* best that pass the filters.  indexPlainTextVariant deletes a file's     *)
(* segments and inserts new ones, one statement each, unless it returns    *)
(* before for want of text.  What a search scores a chunk is a constant.   *)
(***************************************************************************)
EXTENDS Clock, FiniteSets

CONSTANTS
    Queries,        \* texts, with all else that is part of a cache key
    Files,          \* the files whose text is indexed
    Chunks,         \* per file, how many chunks its text has
    Class,          \* per file, its legal class
    Vector,         \* per query and chunk of a file, its vectorScore, of Scale
    Words,          \* and its lexical rank, 0 where no word matches
    VectorWeight, LexicalWeight,    \* the weights: where both are 0, the first counts as 1
    MinScore,       \* minScore, of Scale
    TopK,           \* how many segments an answer has, at most
    Limit,          \* oversample: how many a search returns, at most
    Filters,        \* the sets of legal classes that callers allow
    Fields,         \* the calls of queryField
    Indexings,      \* the calls of indexPlainTextVariant
    FileOf,         \* per such call, the file whose text it indexes
    Ttl,            \* cacheTtlMs
    MaxFlight,      \* how long a call takes, at most
    RetrievalFaults \* a subset of {"embed", "search", "index"}

Searches == {"vector", "lexical"}
Scale    == 100

\* A row is told apart by the call that inserts it, for its id is random.
Row == UNION {{<<i, FileOf[i], n>> : n \in 1..Chunks[FileOf[i]]} : i \in Indexings}
Chunk(r) == <<r[2], r[3]>>

ASSUME RetrievalAssumption ==
    /\ Chunks \in [Files -> Nat] /\ FileOf \in [Indexings -> Files]
    /\ Ttl \in Nat /\ MaxFlight \in Nat
    /\ \A q \in Queries, r \in Row :
          Vector[q][Chunk(r)] \in 0..Scale /\ Words[q][Chunk(r)] \in Nat
    /\ VectorWeight \in Nat /\ LexicalWeight \in Nat /\ VectorWeight + LexicalWeight # 0
    /\ MinScore \in 0..Scale
    /\ TopK \in Nat /\ Limit \in Nat
    /\ RetrievalFaults \subseteq {"embed", "search", "index"}

VARIABLES
    row,        \* the segments: one for each chunk of each indexing
    entry,      \* the cache: one entry per query, or none
    field,      \* the calls of queryField
    indexing    \* the calls of indexPlainTextVariant

rvars == <<row, entry, field, indexing>>

\* Calls for the same file.
Rivals(i) == {j \in Indexings : FileOf[j] = FileOf[i]}
\* at is history: when the row came, or went.
RowState == [state : {"none", "in", "gone"}, at : Time]

\* whole is history: no search behind the entry failed or left out rows beyond the limit.
NoEntry == [chunks |-> {}, expires |-> 0, whole |-> FALSE, there |-> FALSE]
Entry   == [chunks : SUBSET Row, expires : 0..(MaxNow + Ttl), whole : BOOLEAN, there : BOOLEAN]

\* found is what each search has found so far; answer, at, whole and by say what was
\* answered, when, whether from searches that were whole, and for which filter.
NoField == [pc |-> "unused", query |-> CHOOSE q \in Queries : TRUE, allowed |-> {},
            born |-> 0, done |-> {}, found |-> [s \in Searches |-> {}], whole |-> TRUE,
            answer |-> {}, at |-> 0]

IndexOpen == {"find", "delete", "insert"}
\* alone is history: no other call for the file was under way since this one began, and
\* none has begun after it.  without is history: the chunks it got no embedding for.
NoIndexing == [pc |-> "unused", ids |-> {}, next |-> 1, alone |-> FALSE, without |-> {}]

In(f) == {r \in Row : r[2] = f /\ row[r].state = "in"}
There == UNION {In(f) : f \in Files}

RInit ==
    /\ row = [r \in Row |-> [state |-> "none", at |-> 0]]
    /\ entry = [q \in Queries |-> NoEntry]
    /\ field = [c \in Fields |-> NoField]
    /\ indexing = [i \in Indexings |-> NoIndexing]

----------------------------------------------------------------------------
(* What a search and the filters make of the rows *)

\* ORDER BY score DESC LIMIT n, and sort and slice: the n best, ties either way.
Best(rows, n, score) ==
    {best \in SUBSET rows :
        /\ Cardinality(best) <= n
        /\ best # rows => Cardinality(best) = n
        /\ \A r \in best, s \in rows \ best : score[r] >= score[s]}

Hits(q, s) == IF s = "vector" THEN There ELSE {r \in There : Words[q][Chunk(r)] > 0}

Scores(q, s) == [r \in Row |-> IF s = "vector" THEN Vector[q][Chunk(r)] ELSE Words[q][Chunk(r)]]

\* fetchVectorSegments, fetchLexicalSegments
Finds(q, s) == Best(Hits(q, s), Limit, Scores(q, s))

\* lexicalDivisor: the highest rank among the rows found by words, or 1.
Divisors(q, rows) ==
    LET ranks == {1} \cup {Words[q][Chunk(r)] : r \in rows}
    IN  {d \in ranks : \A rank \in ranks : rank <= d}

\* combineHybridRows: similarity, of Scale * (VectorWeight + LexicalWeight) * divisor.
Similarity(q, found, divisor) ==
    [r \in Row |->
        (IF r \in found["vector"] THEN VectorWeight * Vector[q][Chunk(r)] * divisor ELSE 0)
      + (IF r \in found["lexical"] THEN LexicalWeight * Scale * Words[q][Chunk(r)] ELSE 0)]

Passes(rows, similarity, divisor) ==
    {r \in rows : similarity[r] >= MinScore * (VectorWeight + LexicalWeight) * divisor}

\* filterByLegalAccess
FilterByLegalAccess(rows, allowed) == {r \in rows : Class[r[2]] \in allowed}

\* The rows of both searches are cut to the limit again and filtered, and of those that pass
\* the best are the answer.
AnswersFor(rows, similarity, divisor, allowed) ==
    UNION {{[chunks |-> chunks, whole |-> combined = rows] :
                chunks \in Best(Passes(FilterByLegalAccess(combined, allowed), similarity, divisor),
                                TopK, similarity)} :
           combined \in Best(rows, Limit, similarity)}

Answers(q, found, allowed) ==
    UNION {AnswersFor(UNION {found[s] : s \in Searches}, Similarity(q, found, divisor), divisor,
                      allowed) :
           divisor \in Divisors(q, found["lexical"])}

\* Broken variant of Expired: an entry is never too old.
ExpiredNever(e, t) == FALSE

\* getCached: an entry lives to the end of its last millisecond.
Expired(e, t) == e.expires < t

Cached(q) == entry[q].there /\ ~Expired(entry[q], now)

----------------------------------------------------------------------------
\* Broken variant of DeleteRows: only the rows of the first chunk are deleted.
DeleteRowsOfFirst(i) ==
    /\ indexing[i].pc = "delete"
    /\ row' = [r \in Row |-> IF r \in indexing[i].ids /\ row[r].state = "in" /\ r[3] = 1
                               THEN [state |-> "gone", at |-> now] ELSE row[r]]
    /\ indexing' = [indexing EXCEPT ![i].pc = "insert", ![i].ids = {}]
    /\ UNCHANGED <<now, entry, field>>

----------------------------------------------------------------------------
(* queryField *)

\* The cache is looked up before anything is awaited.
Look(c, q, allowed) ==
    /\ field[c].pc = "unused"
    /\ field' = [field EXCEPT ![c] =
                   IF Cached(q)
                     THEN [NoField EXCEPT !.pc = "ended", !.query = q, !.allowed = allowed,
                             !.at = now, !.answer = entry[q].chunks, !.whole = entry[q].whole]
                     ELSE [NoField EXCEPT !.pc = "search", !.query = q, !.allowed = allowed,
                             !.born = now]]
    /\ UNCHANGED <<now, row, entry, indexing>>

\* The embedding of the query comes before the searches and touches nothing: it is part of
\* them, except that it may throw.
EmbeddingFails(c) ==
    /\ "embed" \in RetrievalFaults
    /\ field[c].pc = "search" /\ field[c].done = {}
    /\ field' = [field EXCEPT ![c] = [NoField EXCEPT !.pc = "failed"]]
    /\ UNCHANGED <<now, row, entry, indexing>>

\* The two searches run side by side, and one that fails has found nothing.
Search(c, s) ==
    /\ field[c].pc = "search" /\ s \notin field[c].done
    /\ \/ \E best \in Finds(field[c].query, s) :
            field' = [field EXCEPT ![c].done = @ \cup {s}, ![c].found[s] = best,
                                   ![c].whole = @ /\ best = Hits(field[c].query, s)]
       \/ "search" \in RetrievalFaults
          /\ field' = [field EXCEPT ![c].done = @ \cup {s}, ![c].whole = FALSE]
    /\ UNCHANGED <<now, row, entry, indexing>>

\* The answer is stored under a key that does not hold the filter, also when it is empty.
Store(c) ==
    /\ field[c].pc = "search" /\ field[c].done = Searches
    /\ \E a \in Answers(field[c].query, field[c].found, field[c].allowed) :
       LET whole == field[c].whole /\ a.whole
       IN  /\ entry' = IF Ttl = 0 THEN entry ELSE [entry EXCEPT ![field[c].query] =
                         [chunks |-> a.chunks, expires |-> now + Ttl, whole |-> whole,
                          there |-> TRUE]]
           /\ field' = [field EXCEPT ![c] = [NoField EXCEPT !.pc = "ended", !.at = now,
                          !.query = field[c].query, !.allowed = field[c].allowed,
                          !.answer = a.chunks, !.whole = whole]]
    /\ UNCHANGED <<now, row, indexing>>

----------------------------------------------------------------------------
(* indexPlainTextVariant *)

BeginIndexing(i) ==
    /\ indexing[i].pc = "unused"
    /\ indexing' = [j \in Indexings |->
         IF j = i THEN [NoIndexing EXCEPT !.pc = "find", !.alone =
                          \A k \in Rivals(i) : indexing[k].pc \notin IndexOpen]
                  ELSE [indexing[j] EXCEPT !.alone = @ /\ i \notin Rivals(j)]]
    /\ UNCHANGED <<now, row, entry, field>>

\* The file is linked to no node, or gone, or there is no text left to index: the call ends,
\* and the segments of an earlier text stay.
SkipIndexing(i) ==
    /\ indexing[i].pc = "unused"
    /\ indexing' = [indexing EXCEPT ![i].pc = "skipped"]
    /\ UNCHANGED <<now, row, entry, field>>

FindRows(i) ==
    /\ indexing[i].pc = "find"
    /\ indexing' = [indexing EXCEPT ![i].pc = "delete", ![i].ids = In(FileOf[i])]
    /\ UNCHANGED <<now, row, entry, field>>

\* deleteMany, of the provenance and of the segments
DeleteRows(i) ==
    /\ indexing[i].pc = "delete"
    /\ row' = [r \in Row |-> IF r \in indexing[i].ids /\ row[r].state = "in"
                               THEN [state |-> "gone", at |-> now] ELSE row[r]]
    /\ indexing' = [indexing EXCEPT ![i].pc = "insert", ![i].ids = {}]
    /\ UNCHANGED <<now, entry, field>>

\* The embedding of the chunks, which touches nothing, is part of the first insertion.
InsertRow(i) ==
    /\ indexing[i].pc = "insert" /\ indexing[i].next <= Chunks[FileOf[i]]
    /\ row' = [row EXCEPT ![<<i, FileOf[i], indexing[i].next>>] = [state |-> "in", at |-> now]]
    /\ indexing' = [indexing EXCEPT ![i].next = @ + 1]
    /\ UNCHANGED <<now, entry, field>>

\* A chunk that got no embedding is left out.
SkipRow(i) ==
    /\ indexing[i].pc = "insert" /\ indexing[i].next <= Chunks[FileOf[i]]
    /\ indexing' = [indexing EXCEPT ![i].next = @ + 1, ![i].without = @ \cup {indexing[i].next}]
    /\ UNCHANGED <<now, row, entry, field>>

EndIndexing(i) ==
    /\ indexing[i].pc = "insert" /\ indexing[i].next > Chunks[FileOf[i]]
    /\ indexing' = [indexing EXCEPT ![i].pc = "ended", ![i].next = 1]
    /\ UNCHANGED <<now, row, entry, field>>

\* A statement or the embedding throws, or the process dies: what was deleted stays deleted.
IndexingFails(i) ==
    /\ "index" \in RetrievalFaults
    /\ indexing[i].pc \in IndexOpen
    /\ indexing' = [indexing EXCEPT ![i] = [NoIndexing EXCEPT !.pc = "failed"]]
    /\ UNCHANGED <<now, row, entry, field>>

----------------------------------------------------------------------------

FieldStep(c) ==
    \/ \E q \in Queries, allowed \in Filters : Look(c, q, allowed)
    \/ EmbeddingFails(c) \/ (\E s \in Searches : Search(c, s)) \/ Store(c)

IndexStep(i) ==
    \/ SkipIndexing(i) \/ BeginIndexing(i) \/ FindRows(i) \/ DeleteRows(i)
    \/ InsertRow(i) \/ SkipRow(i) \/ EndIndexing(i) \/ IndexingFails(i)

\* How old may be what a cache answers with.
Age == Ttl + MaxFlight

\* Time passes.  Of answers of the past, entries that have expired and rows that came or went
\* longer ago than Age, the model keeps no more than that.
RPass ==
    /\ field' = [c \in Fields |-> IF field[c].pc = "ended" THEN [NoField EXCEPT !.pc = "ended"]
                                                          ELSE field[c]]
    /\ entry' = [q \in Queries |-> IF Expired(entry[q], now + 1) THEN NoEntry ELSE entry[q]]
    /\ row' = [r \in Row |-> IF row[r].at + Age < now + 1 THEN [row[r] EXCEPT !.at = 0] ELSE row[r]]
    /\ UNCHANGED indexing

\* No query for a field outlasts MaxFlight.
RInTime == \A c \in Fields : field[c].pc = "search" => now < field[c].born + MaxFlight

----------------------------------------------------------------------------
(* What the code keeps *)

RTypeOK ==
    /\ now \in Time
    /\ row \in [Row -> RowState]
    /\ entry \in [Queries -> Entry]
    /\ \A c \in Fields : field[c].answer \subseteq Row /\ field[c].born <= now
    /\ \A i \in Indexings : indexing[i].ids \subseteq Row

\* The vector score alone makes it similar enough, whatever else is found.
Close(q, chunk) == VectorWeight * Vector[q][chunk] >= MinScore * (VectorWeight + LexicalWeight)

\* However calls, indexings and expiry interleave, an answer is of the recent past.  It holds
\* no segment that was gone for longer than an entry lives and a search takes.  And it lacks
\* none that was there for as long, is close and allowed, unless it is full or a search
\* behind it failed or left out rows beyond its limit.  (Of a segment that needs its words
\* to pass nothing is said: its rank counts by the best one found.)
AnswersRecent ==
    \A c \in Fields : field[c].pc = "ended" /\ field[c].at = now =>
        /\ \A r \in field[c].answer : row[r].state = "gone" => row[r].at + Age >= now
        /\ field[c].whole /\ Cardinality(field[c].answer) # TopK => \A r \in There :
               /\ row[r].at + Age < now
               /\ Close(field[c].query, Chunk(r)) /\ Class[r[2]] \in field[c].allowed
               => r \in field[c].answer

\* Of the indexings of a file that had text, one that ended, had the file to itself and was
\* the last leaves each chunk it got an embedding for once and nothing else, whatever
\* indexings that failed half way, or overlapped, left before it.
IndexingRepairs ==
    \A i \in Indexings : indexing[i].pc = "ended" /\ indexing[i].alone =>
        In(FileOf[i]) = {<<i, FileOf[i], n>> : n \in (1..Chunks[FileOf[i]]) \ indexing[i].without}

----------------------------------------------------------------------------
(* What the documentation says and the code does not keep *)

\* docs/LEGAL_STANDARDS_POLICY.md:34: the query layer filters by legal class, for customers
\* by class A; only internal agents may ask for more.
AnswersFiltered ==
    \A c \in Fields : \A r \in field[c].answer : Class[r[2]] \in field[c].allowed
=============================================================================
