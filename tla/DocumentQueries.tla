--------------------------- MODULE DocumentQueries ---------------------------
(***************************************************************************)
(* The query and update language of the in-process store                    *)
(* (src/lib/db/memory.ts) against MongoDB's, over the filters, updates and  *)
(* sorts the program uses: db/driver.ts calls the store a faithful subset   *)
(* that can be trusted.  A call is served by the store, and its outcome is  *)
(* held against what MongoDB may answer, which does not say in which order  *)
(* it finds documents.                                                      *)
(*                                                                         *)
(* Of a document there is a date or name that may be null or missing (mark: *)
(* an expiry, an email address) and a number that is set or missing (rank:  *)
(* a balance, a count, a priority, the date of the next poll).              *)
(***************************************************************************)
EXTENDS Integers, FiniteSets, SequencesExt

CONSTANTS
    DocumentIds,
    Missing,   \* a field the document does not have
    Null,      \* a field that is null
    NoRow,     \* an identifier without a document
    MaxRank    \* bound: the number, and what it is compared with

VARIABLES
    rows,     \* the documents by identifier
    before,   \* the pairs of identifiers of which the store's Map yields the first first
    indexed,  \* the unique index of the collection
    asMongo   \* history: MongoDB could have answered the last call so

queryVars == <<rows, before, indexed, asMongo>>

Marks == 1..2
Ranks == 1..MaxRank
Documents == [mark : Marks \cup {Missing, Null}, rank : Ranks \cup {Missing}]
ASSUME QueryAssumption ==
    /\ IsFiniteSet(DocumentIds) /\ MaxRank \in Nat
    /\ Missing # Null /\ {Missing, Null} \cap (DocumentIds \cup Int) = {}
    /\ NoRow \notin Documents

Found(table) == {id \in DocumentIds : table[id] # NoRow}

(***************************************************************************)
(* Filters: alternatives of conditions                                      *)
(***************************************************************************)
\* What is asked of one field; values holds one value, or those of $nin.
Cond(field, op, values) == [field |-> field, op |-> op, values |-> values]

ById(id) == {{Cond("id", "eq", {id})}}
Everything == {{}}
\* catalog.ts: a code that has not expired; tasks: due for a poll, and not over.
Unexpired(now) == {{Cond("mark", "missing", {})}, {Cond("mark", "eq", {Null})}, {Cond("mark", "gt", {now})}}
Due(now, over) ==
    {{Cond("mark", "nin", over), condition} :
        condition \in {Cond("rank", "missing", {}), Cond("rank", "eq", {Null}), Cond("rank", "lte", {now})}}
\* quota: the account holds enough; store.ts: the balance is the one expected.
Enough(id, need) == {{Cond("id", "eq", {id}), Cond("rank", "gte", {need})}}
Expected(id, value) == {{Cond("id", "eq", {id}), Cond("rank", "eq", {value})}}
\* redis/mongo.ts: a stretch of a list, and what lies outside one.
Stretch(from, upto) == {{Cond("rank", "gte", {from}), Cond("rank", "lt", {upto})}}
Outside(from, upto) == {{Cond("rank", "lt", {from})}, {Cond("rank", "gt", {upto})}}
\* catalog.ts, migrate.ts: not flagged, not upgraded.
Unlike(value) == {{Cond("mark", "ne", {value})}}

Filters ==
    {Everything} \cup {ById(id) : id \in DocumentIds}
    \cup {Unexpired(v) : v \in Marks} \cup {Unlike(v) : v \in Marks}
    \cup {Due(v, over) : v \in Ranks, over \in {{}, {1}}}
    \cup {Enough(id, v) : id \in DocumentIds, v \in Ranks}
    \cup {Expected(id, v) : id \in DocumentIds, v \in Ranks}
    \cup {Stretch(a, b) : a \in Ranks, b \in Ranks} \cup {Outside(a, b) : a \in Ranks, b \in Ranks}

\* matchOperator, over compare and valueEquals.
Comparable(actual) == actual \notin {Missing, Null}
Satisfies(actual, op, values) ==
    CASE op = "eq" -> actual \in values
      [] op \in {"ne", "nin"} -> actual \notin values
      [] op = "missing" -> actual = Missing           \* $exists: false
      [] op = "gt"  -> Comparable(actual) /\ \A v \in values : actual > v
      [] op = "gte" -> Comparable(actual) /\ \A v \in values : actual >= v
      [] op = "lt"  -> Comparable(actual) /\ \A v \in values : actual < v
      [] op = "lte" -> Comparable(actual) /\ \A v \in values : actual <= v

Read(table, id, field) == IF field = "id" THEN id ELSE table[id][field]

\* matchesFilter
MatchesFilter(table, id, filter) ==
    \E alternative \in filter : \A condition \in alternative :
        Satisfies(Read(table, id, condition.field), condition.op, condition.values)

\* MongoDB takes a field that is missing for null, except where it asks for it.
AsNull(value) == IF value = Missing THEN Null ELSE value
MongoMatches(table, id, filter) ==
    \E alternative \in filter : \A condition \in alternative :
        LET actual == Read(table, id, condition.field) IN
        IF condition.op = "missing" THEN actual = Missing
        ELSE Satisfies(AsNull(actual), condition.op, condition.values)

(***************************************************************************)
(* query: filter, stable sort, skip, limit                                  *)
(***************************************************************************)
Directions == {"none", "up", "down"}

\* A slip: rows without the field sort above the others.
BadLess(table, a, b) ==
    /\ table[a].rank # Missing
    /\ table[b].rank = Missing \/ table[a].rank < table[b].rank
Less(table, a, b) ==
    /\ table[b].rank # Missing
    /\ table[a].rank = Missing \/ table[a].rank < table[b].rank

Precedes(table, direction, a, b) ==
    \/ direction = "up" /\ Less(table, a, b)
    \/ direction = "down" /\ Less(table, b, a)

\* Where the sort does not tell, the order of the Map does.
Ahead(direction, a, b) ==
    \/ Precedes(rows, direction, a, b)
    \/ ~Precedes(rows, direction, b, a) /\ <<a, b>> \in before

\* Each behind as many as are ahead of it.
Listed(ids, direction) ==
    [i \in 1..Cardinality(ids) |->
       CHOOSE id \in ids : Cardinality({other \in ids : Ahead(direction, other, id)}) = i - 1]

Query(filter, direction, skip, limit) ==
    LET matching == Listed({id \in Found(rows) : MatchesFilter(rows, id, filter)}, direction)
    IN SubSeq(matching, skip + 1,
              IF Len(matching) < skip + limit THEN Len(matching) ELSE skip + limit)

\* MongoDB sorts null, and what it takes for null, below every number; ties in
\* any order.
MongoRank(id) == IF Comparable(rows[id].rank) THEN rows[id].rank ELSE 0
MongoSorted(s, direction) ==
    \A i, j \in 1..Len(s) : i < j =>
        /\ direction = "up" => MongoRank(s[i]) <= MongoRank(s[j])
        /\ direction = "down" => MongoRank(s[i]) >= MongoRank(s[j])
MongoMayFind(s, filter, direction, skip, limit) ==
    LET matching == {id \in Found(rows) : MongoMatches(rows, id, filter)} IN
    \E all \in SetToSeqs(matching) :
        /\ MongoSorted(all, direction)
        /\ s = SubSeq(all, skip + 1, IF Len(all) < skip + limit THEN Len(all) ELSE skip + limit)

(***************************************************************************)
(* Updates                                                                  *)
(***************************************************************************)
\* $set or $unset of the mark, $set or $inc of the rank.
Keep == 0
Updates == {u \in [mark : Marks \cup {Null, Missing, Keep}, rank : Ranks \cup {Keep}, plus : {0, 1}] :
                u.rank = Keep \/ (u.plus = 0 /\ u.mark = Keep)}

\* applyUpdate: $inc counts from 0 where there is no number.
Updated(doc, update) ==
    LET rank == IF update.rank = Keep THEN doc.rank ELSE update.rank IN
    [mark |-> IF update.mark = Keep THEN doc.mark ELSE update.mark,
     rank |-> IF update.plus = 0 THEN rank ELSE IF rank = Missing THEN update.plus ELSE rank + update.plus]

\* uniqueGuard: the mark under a sparse unique index, or the rank under a plain one.
Clashes(id, doc) ==
    \/ indexed = "sparse" /\ doc.mark # Missing
       /\ \E other \in Found(rows) \ {id} : rows[other].mark = doc.mark
    \/ indexed = "plain" /\ \E other \in Found(rows) \ {id} : rows[other].rank = doc.rank
MongoClashes(id, doc) ==
    \/ indexed = "sparse" /\ doc.mark # Missing
       /\ \E other \in Found(rows) \ {id} : rows[other].mark # Missing /\ rows[other].mark = doc.mark
    \/ indexed = "plain" /\ \E other \in Found(rows) \ {id} : AsNull(rows[other].rank) = AsNull(doc.rank)

(***************************************************************************)
(* Calls                                                                    *)
(***************************************************************************)
QueryInit ==
    /\ rows = [id \in DocumentIds |-> NoRow] /\ before = {}
    /\ indexed \in {"none", "sparse", "plain"}
    /\ asMongo = TRUE

\* Map.set keeps the place of an entry there is, and appends a new one.
Keeping(table) ==
    /\ rows' = table
    /\ before' = (before \cap (Found(table) \X Found(table)))
                    \cup ((Found(rows) \cap Found(table)) \X (Found(table) \ Found(rows)))

\* find, findOne (a limit of one) and countDocuments change nothing: all at once.
Find ==
    /\ asMongo' = (\A filter \in Filters :
         /\ \A direction \in Directions, skip \in 0..1, limit \in 1..2 :
              MongoMayFind(Query(filter, direction, skip, limit), filter, direction, skip, limit)
         /\ Len(Query(filter, "none", 0, Cardinality(DocumentIds))) =
              Cardinality({id \in Found(rows) : MongoMatches(rows, id, filter)}))
    /\ UNCHANGED <<rows, before, indexed>>

Insert ==
    /\ \E id \in DocumentIds, doc \in Documents :
         /\ asMongo' = (Clashes(id, doc) = MongoClashes(id, doc))
         /\ Keeping(IF rows[id] # NoRow \/ Clashes(id, doc) THEN rows ELSE [rows EXCEPT ![id] = doc])
    /\ UNCHANGED indexed

\* updateOne and findOneAndUpdate of the first row found: the row as it is then,
\* nothing found, or a duplicate.
UpdateFirst ==
    /\ \E filter \in Filters, update \in Updates :
         LET found == Query(filter, "none", 0, 1) IN
         IF found = <<>>
         THEN /\ asMongo' = \A id \in Found(rows) : ~MongoMatches(rows, id, filter)
              /\ UNCHANGED <<rows, before>>
         ELSE LET id == found[1]  doc == Updated(rows[id], update) IN
              /\ doc.rank \in Ranks \cup {Missing}
              /\ asMongo' = /\ MongoMatches(rows, id, filter)
                            /\ Clashes(id, doc) = MongoClashes(id, doc)
              /\ Keeping(IF Clashes(id, doc) THEN rows ELSE [rows EXCEPT ![id] = doc])
    /\ UNCHANGED indexed

\* An upsert, as the program has them: by identifier.  seedFromFilter leaves
\* the identifier, and the update does the rest.
Upsert ==
    /\ \E id \in DocumentIds, update \in Updates :
         LET found == Query(ById(id), "none", 0, 1)
             seed == [mark |-> Missing, rank |-> Missing]
             doc == Updated(IF found = <<>> THEN seed ELSE rows[id], update) IN
         /\ doc.rank \in Ranks \cup {Missing}
         /\ asMongo' = /\ (found = <<>>) = (rows[id] = NoRow)
                       /\ Clashes(id, doc) = MongoClashes(id, doc)
         /\ Keeping(IF Clashes(id, doc) THEN rows ELSE [rows EXCEPT ![id] = doc])
    /\ UNCHANGED indexed

\* updateMany, which the program uses where no unique index is concerned.
UpdateAll ==
    /\ indexed = "none"
    /\ \E filter \in Filters, mark \in Marks :
         LET matching == Range(Query(filter, "none", 0, Cardinality(DocumentIds))) IN
         /\ asMongo' = (matching = {id \in Found(rows) : MongoMatches(rows, id, filter)})
         /\ Keeping([id \in DocumentIds |->
                     IF id \in matching THEN [rows[id] EXCEPT !.mark = mark] ELSE rows[id]])
    /\ UNCHANGED indexed

\* deleteOne and deleteMany
DeleteRows ==
    /\ \E filter \in Filters, limit \in {1, Cardinality(DocumentIds)} :
         LET gone == Range(Query(filter, "none", 0, limit))
             matching == {id \in Found(rows) : MongoMatches(rows, id, filter)} IN
         /\ asMongo' = /\ gone \subseteq matching
                       /\ Cardinality(gone) = limit \/ gone = matching
         /\ Keeping([id \in DocumentIds |-> IF id \in gone THEN NoRow ELSE rows[id]])
    /\ UNCHANGED indexed

QueryNext == Find \/ Insert \/ UpdateFirst \/ Upsert \/ UpdateAll \/ DeleteRows

QuerySpec == QueryInit /\ [][QueryNext]_queryVars

(***************************************************************************)
(* Properties                                                               *)
(***************************************************************************)
(* db/driver.ts: "small enough that the memory twin can be trusted".  After  *)
(* any calls of the program, whatever order the store keeps its documents    *)
(* in, the next call finds, changes and refuses what MongoDB may find,       *)
(* change and refuse.                                                        *)
QueriesAgree == asMongo
=============================================================================
