----------------------------- MODULE SqliteStore -----------------------------
(***************************************************************************)
(* src/src/sqlitedb.py: the collections of the standalone build.  A row    *)
(* keeps a document as JSON; filters become SQL over json_extract and      *)
(* json_type, with SQL's NULL and its third truth value; indexes are over  *)
(* generated columns and have names that are the database's, not the       *)
(* collection's.                                                           *)
(*                                                                         *)
(* Every call yields once and then runs its statements without an await,   *)
(* so it is one step; `replace_one` with upsert calls `insert_one` if it   *)
(* finds nothing, which yields again, so that is two.  `connect` asks for  *)
(* the indexes one by one; it may die between two, and may find what an    *)
(* earlier version left.                                                   *)
(***************************************************************************)
EXTENDS Integers, Sequences, FiniteSets, SequencesExt

CONSTANTS
  Tables, Ids, Fields, Documents, Filters, Updates, Upserts, Callers,
  Unique,    \* see Collection, for this and the above
  Flags,     \* fields that hold booleans, as is_dir does
  Earlier,   \* index definitions an earlier version may have left
  Stocks     \* Tables -> sequences of rows a database may hold at first

VARIABLES
  rows,       \* Tables -> rows [id, doc] in the order of rowid
  indexes,    \* sqlite_master: index names -> definition
  asked,      \* index requests `_ensure_indexes` has made since the start
  connection, \* "connecting", "ready" or "closed"
  answer,     \* what the last call returned
  upserts     \* Callers -> the upsert that missed and has not inserted yet

store == <<rows, indexes, asked, connection, answer, upserts>>

-----------------------------------------------------------------------------
(* What the callers put into the store and ask of it.                      *)
NULL == <<"null">>
Missing == <<"missing">>

Booleans == {<<"true">>, <<"false">>}
Numbers == {"integer"} \X Int
Texts == {"text"} \X STRING

\* A field is a flag or it is not, so that json_extract's 1 is never a true.
Values(f) == {NULL, Missing} \cup (IF f \in Flags THEN Booleans ELSE Numbers \cup Texts)

LegalDocuments ==
  {d \in [Fields -> {NULL, Missing} \cup Booleans \cup Numbers \cup Texts] :
     \A f \in Fields : d[f] \in Values(f)}

TableRows == [id : Ids, doc : LegalDocuments]

\* The conditions `_clause` and `_operator_clause` are asked for.
IsFilter(flt) ==
  /\ DOMAIN flt \subseteq Fields
  /\ \A f \in DOMAIN flt : \A c \in flt[f] :
       \/ c.op = "eq" /\ c.value \in Values(f) \ {Missing}
       \/ c.op = "ne" /\ c.value \in Values(f) \ ({Missing} \cup Booleans)
       \/ c.op \in {"gt", "lte"} /\ c.value \in Numbers

ASSUME TablesAssumption ==
  /\ DOMAIN Unique = Tables /\ DOMAIN Documents = Tables
  /\ DOMAIN Filters = Tables /\ DOMAIN Updates = Tables /\ DOMAIN Stocks = Tables
  /\ DOMAIN Upserts = Tables
  /\ Flags \subseteq Fields

\* No two indexes of a table are over the same fields, and an index of an
\* earlier version is over fields that this version has an index over.
ASSUME IndexesAssumption ==
  /\ \A t \in Tables : \A ix \in Unique[t] :
       /\ ix.fields \subseteq Fields /\ IsFilter(ix.partial)
       /\ \A other \in Unique[t] : other.fields = ix.fields => other = ix
  /\ \A x \in Earlier :
       x.table \in Tables /\ \E ix \in Unique[x.table] : ix.fields = x.fields

ASSUME CallersAssumption ==
  \A t \in Tables :
    /\ Documents[t] \subseteq LegalDocuments
    /\ \A flt \in Filters[t] : IsFilter(flt)
    /\ \A u \in Upserts[t] : IsFilter(u.filter) /\ u.doc \in LegalDocuments
    /\ \A u \in Updates[t] : \A f \in Fields \cap DOMAIN u.set : u.set[f] \in Values(f)
    /\ \A s \in Stocks[t] :
         /\ s \in Seq(TableRows)
         /\ \A j, k \in 1 .. Len(s) : s[j].id = s[k].id => j = k

-----------------------------------------------------------------------------
(* SQL.                                                                    *)

\* json_extract: a missing field and a null are NULL, and true is the integer 1.
Column(d, f) ==
  CASE d[f] \in {NULL, Missing} -> NULL
    [] d[f] = <<"true">> -> <<"integer", 1>>
    [] d[f] = <<"false">> -> <<"integer", 0>>
    [] OTHER -> d[f]

\* json_type: NULL for a missing field, 'null' for a null.
Type(d, f) == IF d[f] = Missing THEN NULL ELSE <<"text", d[f][1]>>

Sql(b) == IF b THEN "yes" ELSE "no"
IsNull(v) == Sql(v = NULL)
Not(a) == CASE a = "yes" -> "no" [] a = "no" -> "yes" [] OTHER -> "unknown"
Or(a, b) == IF "yes" \in {a, b} THEN "yes"
            ELSE IF "unknown" \in {a, b} THEN "unknown" ELSE "no"
And(a, b) == Not(Or(Not(a), Not(b)))

Equals(v, w) == IF NULL \in {v, w} THEN "unknown" ELSE Sql(v = w)

\* NULL < numbers < text, across storage classes.
Greater(v, w) ==
  IF NULL \in {v, w} THEN "unknown"
  ELSE IF v[1] = w[1] THEN Sql(v[2] > w[2]) ELSE Sql(v[1] = "text")

-----------------------------------------------------------------------------
(* Filters.                                                                *)

\* `_clause` and `_operator_clause`.
Clause(d, f, c) ==
  LET v == Column(d, f) IN
  CASE c.op = "eq" ->
         IF c.value = NULL THEN IsNull(v)
         ELSE IF c.value \in Booleans THEN Equals(Type(d, f), <<"text", c.value[1]>>)
         ELSE Equals(v, c.value)
    [] c.op = "ne" ->
         IF c.value = NULL THEN Not(IsNull(v)) ELSE Or(IsNull(v), Not(Equals(v, c.value)))
    [] c.op = "gt" -> And(Equals(Type(d, f), <<"text", "integer">>), Greater(v, c.value))
    [] c.op = "lte" -> And(Equals(Type(d, f), <<"text", "integer">>),
                           Not(Greater(v, c.value)))

\* MUTANT: a row is dropped only if the clause says no.
KeptUnlessNo(d, flt) ==
  \A f \in DOMAIN flt : \A c \in flt[f] : Clause(d, f, c) # "no"
\* `_where`: the conjunction, and WHERE keeps what it says yes to.
Kept(d, flt) ==
  \A f \in DOMAIN flt : \A c \in flt[f] : Clause(d, f, c) = "yes"

-----------------------------------------------------------------------------
(* Indexes.                                                                *)

\* MUTANT: MongoDB's own name, which another table may have taken.
MongoIndexName(t, fields) == <<fields>>
\* `_sql_index_name`.
SqlIndexName(t, fields) == <<t, fields>>

Definition(t, ix) == [table |-> t, fields |-> ix.fields, partial |-> ix.partial,
                      unique |-> TRUE]
Requests == UNION {{<<t, ix>> : ix \in Unique[t]} : t \in Tables}

Enforced(t) == {x \in {indexes[n] : n \in DOMAIN indexes} : x.table = t /\ x.unique}

\* NULL is distinct from NULL.
SameColumns(d, e, x) ==
  /\ Kept(d, x.partial) /\ Kept(e, x.partial)
  /\ \A f \in x.fields : Equals(Column(d, f), Column(e, f)) = "yes"

Violates(others, d, x) == \E k \in 1 .. Len(others) : SameColumns(others[k].doc, d, x)

Rejected(t, others, d) == \E x \in Enforced(t) : Violates(others, d, x)

\* The table has two rows that an index would not allow.
Duplicated(t, x) ==
  \E k \in 1 .. Len(rows[t]) :
    Violates(SubSeq(rows[t], 1, k - 1), rows[t][k].doc, x)

\* `create_index`: nothing if the definition is there, otherwise the old one is
\* dropped and the new one built, or refused for what the table holds.
CreateIndex(t, ix) ==
  LET name == SqlIndexName(t, ix.fields)
      def == Definition(t, ix)
      Without == [n \in DOMAIN indexes \ {name} |-> indexes[n]]
  IN
  /\ connection = "connecting" /\ <<t, ix>> \notin asked
  /\ \/ /\ name \in DOMAIN indexes /\ indexes[name] = def
        /\ asked' = asked \cup {<<t, ix>>}
        /\ UNCHANGED <<indexes, connection>>
     \/ /\ ~(name \in DOMAIN indexes /\ indexes[name] = def)
        /\ ~Duplicated(t, def)
        /\ indexes' = [n \in DOMAIN Without \cup {name} |->
                         IF n = name THEN def ELSE Without[n]]
        /\ asked' = asked \cup {<<t, ix>>}
        /\ UNCHANGED connection
     \/ /\ ~(name \in DOMAIN indexes /\ indexes[name] = def)
        /\ Duplicated(t, def)
        /\ indexes' = Without
        /\ connection' = "closed" /\ asked' = {}
  /\ UNCHANGED <<rows, answer, upserts>>

Connected ==
  /\ connection = "connecting" /\ asked = Requests
  /\ connection' = "ready"
  /\ UNCHANGED <<rows, indexes, asked, answer, upserts>>

Connect ==
  /\ connection = "closed" /\ connection' = "connecting"
  /\ UNCHANGED <<rows, indexes, asked, answer, upserts>>

NoUpsert == <<>>

\* In good order or not: what a statement wrote is there (synchronous = FULL).
Close ==
  /\ connection \in {"connecting", "ready"} /\ connection' = "closed" /\ asked' = {}
  /\ answer' = <<"none">> /\ upserts' = [c \in Callers |-> NoUpsert]
  /\ UNCHANGED <<rows, indexes>>

-----------------------------------------------------------------------------
(* The calls.                                                              *)
InUse(t) == {rows[t][k].id : k \in 1 .. Len(rows[t])}

\* `_fetch_one`: 0, or the first row by rowid.
First(t, flt) == SelectInSeq(rows[t], LAMBDA r : Kept(r.doc, flt))

Said(what) == answer' = what /\ UNCHANGED <<indexes, asked, connection>>

Insert(t, d) ==
  \E i \in Ids \ InUse(t) :
    IF Rejected(t, rows[t], d)
    THEN Said(<<"duplicate">>) /\ UNCHANGED rows
    ELSE /\ rows' = [rows EXCEPT ![t] = Append(@, [id |-> i, doc |-> d])]
         /\ Said(<<"inserted">>)

\* `_replace_row`, row k.
ReplaceRow(t, k, d) ==
  IF Rejected(t, RemoveAt(rows[t], k), d)
  THEN Said(<<"duplicate">>) /\ UNCHANGED rows
  ELSE rows' = [rows EXCEPT ![t][k].doc = d] /\ Said(<<"matched", 1>>)

InsertOne(t, d) == connection = "ready" /\ Insert(t, d) /\ UNCHANGED upserts

\* $set, then $unset; no statement if that changes nothing.
Changed(d, u) ==
  [f \in Fields |-> IF f \in u.unset THEN Missing
                    ELSE IF f \in DOMAIN u.set THEN u.set[f] ELSE d[f]]

UpdateOne(t, flt, u) ==
  LET k == First(t, flt) IN
  /\ connection = "ready"
  /\ IF k = 0 THEN Said(<<"matched", 0>>) /\ UNCHANGED rows
     ELSE IF Changed(rows[t][k].doc, u) = rows[t][k].doc
     THEN Said(<<"matched", 1>>) /\ UNCHANGED rows
     ELSE ReplaceRow(t, k, Changed(rows[t][k].doc, u))
  /\ UNCHANGED upserts

\* _id stays.
ReplaceOne(t, flt, d) ==
  LET k == First(t, flt) IN
  /\ connection = "ready"
  /\ IF k = 0 THEN Said(<<"matched", 0>>) /\ UNCHANGED rows ELSE ReplaceRow(t, k, d)
  /\ UNCHANGED upserts

\* `replace_one` with upsert: what matches is replaced, or the call goes on to
\* `insert_one`, whose first line yields.
Upsert(c, t, u) ==
  LET k == First(t, u.filter) IN
  /\ connection = "ready" /\ upserts[c] = NoUpsert
  /\ IF k # 0 THEN ReplaceRow(t, k, u.doc) /\ UNCHANGED upserts
     ELSE /\ upserts' = [upserts EXCEPT ![c] = <<t, u>>]
          /\ UNCHANGED <<rows, indexes, asked, connection, answer>>

\* It does not look again.
UpsertInserts(c) ==
  /\ connection = "ready" /\ upserts[c] # NoUpsert
  /\ Insert(upserts[c][1], upserts[c][2].doc)
  /\ upserts' = [upserts EXCEPT ![c] = NoUpsert]

DeleteOne(t, flt) ==
  LET k == First(t, flt) IN
  /\ connection = "ready"
  /\ IF k = 0 THEN Said(<<"deleted", 0>>) /\ UNCHANGED rows
     ELSE rows' = [rows EXCEPT ![t] = RemoveAt(@, k)] /\ Said(<<"deleted", 1>>)
  /\ UNCHANGED upserts

Shown(t, ks) == {<<rows[t][k].id, rows[t][k].doc>> : k \in ks}

FindOne(t, flt) ==
  /\ connection = "ready"
  /\ Said(<<"found", Shown(t, {First(t, flt)} \ {0})>>)
  /\ UNCHANGED <<rows, upserts>>

Find(t, flt) ==
  /\ connection = "ready"
  /\ Said(<<"found", Shown(t, {k \in 1 .. Len(rows[t]) : Kept(rows[t][k].doc, flt)})>>)
  /\ UNCHANGED <<rows, upserts>>

-----------------------------------------------------------------------------
StoreInit ==
  /\ rows \in {r \in [Tables -> UNION {Stocks[t] : t \in Tables}] :
                 \A t \in Tables : r[t] \in Stocks[t]}
  /\ \E S \in SUBSET Earlier :
       indexes = [n \in {SqlIndexName(x.table, x.fields) : x \in S} |->
                    CHOOSE x \in S : SqlIndexName(x.table, x.fields) = n]
  \* SQLite keeps no index that the rows are against.
  /\ \A n \in DOMAIN indexes : indexes[n].unique => ~Duplicated(indexes[n].table, indexes[n])
  /\ asked = {} /\ connection = "closed" /\ answer = <<"none">>
  /\ upserts = [c \in Callers |-> NoUpsert]

Call(t) ==
  \/ \E d \in Documents[t] : InsertOne(t, d)
  \/ \E flt \in Filters[t] :
       \/ FindOne(t, flt) \/ Find(t, flt) \/ DeleteOne(t, flt)
       \/ \E u \in Updates[t] : UpdateOne(t, flt, u)
       \/ \E d \in Documents[t] : ReplaceOne(t, flt, d)

StoreNext ==
  \/ Connect \/ Connected \/ Close
  \/ \E t \in Tables : \E ix \in Unique[t] : CreateIndex(t, ix)
  \/ \E t \in Tables : Call(t)
  \/ \E c \in Callers : \/ UpsertInserts(c)
                         \/ \E t \in Tables : \E u \in Upserts[t] : Upsert(c, t, u)

StoreSpec == StoreInit /\ [][StoreNext]_store

-----------------------------------------------------------------------------
StoreTypeOK ==
  /\ rows \in [Tables -> Seq(TableRows)]
  /\ connection \in {"closed", "connecting", "ready"} /\ asked \subseteq Requests

Pending == UNION {{t} \X Upserts[t] : t \in Tables}
UpsertsOK == upserts \in [Callers -> {NoUpsert} \cup Pending]

\* Whatever an earlier version or a start that died left behind: a server that
\* runs has no two documents under one id, and no two live nodes under one name,
\* in any of its collections (_sql_index_name, src/src/sqlitedb.py).
IdsAndNamesAreUnique ==
  connection = "ready" =>
    \A t \in Tables : \A ix \in Unique[t] : ~Duplicated(t, Definition(t, ix))

\* The rows of a table as a map from _id to document.
AsDocuments(s) ==
  [i \in {s[k].id : k \in 1 .. Len(s)} |-> s[CHOOSE k \in 1 .. Len(s) : s[k].id = i].doc]

\* The store keeps the contract the rest of the program is written against: what
\* a filter finds, what is changed and what is refused is what MongoDB would do,
\* null keys apart, and an upsert that missed inserts whatever came in between.
Contract == INSTANCE Collection WITH docs <- [t \in Tables |-> AsDocuments(rows[t])]
ContractKept == Contract!Spec
=============================================================================
