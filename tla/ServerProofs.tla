---------------------------- MODULE ServerProofs ----------------------------
(***************************************************************************)
(* What a server is started on and started with, for any number of tables, *)
(* documents, users, passwords and keys.                                   *)
(*                                                                         *)
(* First the store: the SQL of a filter says what the filter means, a      *)
(* table is a map from _id to document, and so every call is the call of   *)
(* the contract; a server that runs has every unique index it asks for.    *)
(* Then the start: the wrapped master key survives every start, whatever   *)
(* dies.  Then signing in: how long a session may keep its key, whatever   *)
(* clients ask for, use or forget, and how many guesses a lock-out leaves. *)
(***************************************************************************)
EXTENDS SqliteStore, Startup, Login, FiniteSetTheorems, SequenceTheorems,
        NaturalsInduction, WellFoundedInduction, TLAPS


-----------------------------------------------------------------------------
(* Values, and what a condition says of them.                              *)

LEMMA ValueIs ==
  ASSUME NEW f, NEW v \in Values(f)
  PROVE  \/ v \in {NULL, Missing}
         \/ f \in Flags /\ v \in Booleans
         \/ f \notin Flags /\ v \in Numbers
         \/ f \notin Flags /\ v \in Texts
  BY DEF Values

LEMMA Kinds ==
  /\ NULL # Missing /\ \A b \in Booleans : b # NULL /\ b # Missing
  /\ \A n \in Numbers : n # NULL /\ n # Missing /\ n \notin Booleans /\ n[1] = "integer" /\ n[2] \in Int
                        /\ n = <<"integer", n[2]>>
  /\ \A s \in Texts : s # NULL /\ s # Missing /\ s \notin Booleans /\ s \notin Numbers /\ s[1] = "text"
  /\ <<"true">> # <<"false">> /\ <<"true">>[1] = "true" /\ <<"false">>[1] = "false" /\ NULL[1] = "null"
  <1>1. \A n \in Numbers : n[1] = "integer" /\ n[2] \in Int /\ n = <<"integer", n[2]>>
    BY DEF Numbers
  <1>2. \A s \in Texts : s[1] = "text"
    BY DEF Texts
  <1>3. <<"true">>[1] = "true" /\ <<"false">>[1] = "false" /\ NULL[1] = "null" /\ Missing[1] = "missing"
    BY DEF NULL, Missing
  <1>4. \A b \in Booleans : b[1] \in {"true", "false"}
    BY <1>3 DEF Booleans
  <1> QED
    BY <1>1, <1>2, <1>3, <1>4

LEMMA ColumnIs ==
  ASSUME NEW d, NEW f, d[f] \in Values(f)
  PROVE  /\ Column(d, f) = NULL <=> d[f] \in {NULL, Missing}
         /\ d[f] \notin Booleans /\ d[f] \notin {NULL, Missing} => Column(d, f) = d[f]
         /\ d[f] = <<"true">> => Column(d, f) = <<"integer", 1>>
         /\ d[f] = <<"false">> => Column(d, f) = <<"integer", 0>>
  <1>1. <<"integer", 1>> # NULL /\ <<"integer", 0>> # NULL
    BY Kinds DEF Numbers
  <1>2. NULL = <<"null">>
    BY DEF NULL
  <1>3. CASE d[f] \in {NULL, Missing}
    BY <1>2, <1>3, Kinds DEF Column, Booleans
  <1>4. CASE d[f] = <<"true">>
    BY <1>1, <1>2, <1>4, Kinds DEF Column, Booleans
  <1>5. CASE d[f] = <<"false">>
    BY <1>1, <1>2, <1>5, Kinds DEF Column, Booleans
  <1>6. CASE d[f] \in Numbers \cup Texts
    BY <1>2, <1>6, Kinds DEF Column, Booleans
  <1>7. Booleans = {<<"true">>, <<"false">>}
    BY DEF Booleans
  <1> QED
    BY <1>3, <1>4, <1>5, <1>6, <1>7, ValueIs

LEMMA TypeIs ==
  ASSUME NEW d, NEW f, d[f] \in Values(f)
  PROVE  /\ Equals(Type(d, f), <<"text", "true">>) = "yes" <=> d[f] = <<"true">>
         /\ Equals(Type(d, f), <<"text", "false">>) = "yes" <=> d[f] = <<"false">>
         /\ Equals(Type(d, f), <<"text", "integer">>) = "yes" <=> d[f] \in Numbers
  <1>1. \A w : <<"text", w>> # NULL /\ <<"text", w>>[2] = w
    <2>1. \A w : <<"text", w>>[1] = "text"
      OBVIOUS
    <2> QED
      BY <2>1 DEF NULL
  <1>2. CASE d[f] = Missing
    BY <1>2, Kinds DEF Type, Equals, Booleans
  <1>3. CASE d[f] # Missing
    <2>1. Type(d, f) = <<"text", d[f][1]>>
      BY <1>3 DEF Type
    <2>2. \A w : Equals(Type(d, f), <<"text", w>>) = "yes" <=> d[f][1] = w
      BY <1>1, <2>1 DEF Equals, Sql
    <2>3. CASE d[f] \in {NULL, Missing}
      BY <1>3, <2>2, <2>3, Kinds DEF Booleans
    <2>4. CASE d[f] \in Booleans
      BY <2>2, <2>4, Kinds DEF Booleans
    <2>5. CASE d[f] \in Numbers \cup Texts
      BY <2>2, <2>5, Kinds DEF Booleans
    <2> QED
      BY <2>3, <2>4, <2>5, ValueIs
  <1> QED
    BY <1>2, <1>3

-----------------------------------------------------------------------------
(* The third truth value.                                                  *)
Truth == {"yes", "no", "unknown"}

LEMMA SqlIs ==
  ASSUME NEW b \in BOOLEAN
  PROVE  Sql(b) \in Truth /\ (Sql(b) = "yes" <=> b) /\ (Sql(b) = "no" <=> ~b)
  BY DEF Sql, Truth

LEMMA NotIs ==
  ASSUME NEW a \in Truth
  PROVE  /\ Not(a) \in Truth
         /\ Not(a) = "yes" <=> a = "no"
         /\ Not(a) = "no" <=> a = "yes"
  BY DEF Not, Truth

LEMMA OrIs ==
  ASSUME NEW a \in Truth, NEW b \in Truth
  PROVE  /\ Or(a, b) \in Truth
         /\ Or(a, b) = "yes" <=> a = "yes" \/ b = "yes"
         /\ Or(a, b) = "no" <=> a = "no" /\ b = "no"
  <1>1. CASE "yes" \in {a, b}
    BY <1>1 DEF Or, Truth
  <1>2. CASE "yes" \notin {a, b} /\ "unknown" \in {a, b}
    BY <1>2 DEF Or, Truth
  <1>3. CASE "yes" \notin {a, b} /\ "unknown" \notin {a, b}
    BY <1>3 DEF Or, Truth
  <1> QED
    BY <1>1, <1>2, <1>3

LEMMA AndIs ==
  ASSUME NEW a \in Truth, NEW b \in Truth
  PROVE  And(a, b) \in Truth /\ (And(a, b) = "yes" <=> a = "yes" /\ b = "yes")
  <1>1. Not(a) \in Truth /\ Not(b) \in Truth
    BY NotIs
  <1>2. Or(Not(a), Not(b)) \in Truth
    BY <1>1, OrIs
  <1> QED
    BY <1>1, <1>2, NotIs, OrIs DEF And

LEMMA EqualsIs ==
  ASSUME NEW v, NEW w
  PROVE  /\ Equals(v, w) \in Truth
         /\ Equals(v, w) = "yes" <=> v # NULL /\ w # NULL /\ v = w
         /\ Equals(v, w) = "no" <=> v # NULL /\ w # NULL /\ v # w
  <1>1. (v = w) \in BOOLEAN
    OBVIOUS
  <1> QED
    BY <1>1, SqlIs DEF Equals, Truth

LEMMA GreaterIs ==
  ASSUME NEW v \in Numbers, NEW w \in Numbers
  PROVE  Greater(v, w) \in Truth /\ (Greater(v, w) = "yes" <=> v[2] > w[2])
                                  /\ (Greater(v, w) = "no" <=> ~(v[2] > w[2]))
  <1>1. v # NULL /\ w # NULL /\ v[1] = w[1]
    BY Kinds
  <1>2. (v[2] > w[2]) \in BOOLEAN
    OBVIOUS
  <1> QED
    BY <1>1, <1>2, SqlIs DEF Greater

\* The SQL of a condition says yes where the condition holds.
LEMMA ClauseIs ==
  ASSUME NEW d, NEW f, d[f] \in Values(f), NEW c,
         \/ c.op = "eq" /\ c.value \in Values(f) \ {Missing}
         \/ c.op = "ne" /\ c.value \in Values(f) \ ({Missing} \cup Booleans)
         \/ c.op \in {"gt", "lte"} /\ c.value \in Numbers
  PROVE  Clause(d, f, c) = "yes" <=> Contract!Holds(d[f], c)
  <1> PICK v : v = Column(d, f)
    OBVIOUS
  <1>a. NULL = <<"null">> /\ Contract!Null = NULL /\ Contract!Missing = Missing
    BY DEF NULL, Missing, Contract!Null, Contract!Missing
  <1>b. /\ v = NULL <=> d[f] \in {NULL, Missing}
        /\ d[f] \notin Booleans /\ d[f] \notin {NULL, Missing} => v = d[f]
        /\ d[f] = <<"true">> => v = <<"integer", 1>>
        /\ d[f] = <<"false">> => v = <<"integer", 0>>
    BY ColumnIs
  <1>c. IsNull(v) \in Truth /\ (IsNull(v) = "yes" <=> v = NULL) /\ (IsNull(v) = "no" <=> v # NULL)
    BY SqlIs DEF IsNull
  <1>d. Equals(v, c.value) \in Truth
    BY EqualsIs
  <1>1. CASE c.op = "eq" /\ c.value = NULL
    <2>1. Clause(d, f, c) = IsNull(v)
      BY <1>1, <1>a DEF Clause
    <2>2. Contract!Holds(d[f], c) <=> d[f] \in {NULL, Missing}
      BY <1>1, <1>a DEF Contract!Holds
    <2> QED
      BY <2>1, <2>2, <1>b, <1>c
  <1>2. CASE c.op = "eq" /\ c.value \in Booleans
    <2>1. Clause(d, f, c) = Equals(Type(d, f), <<"text", c.value[1]>>)
      BY <1>2, <1>a, Kinds DEF Clause, Booleans
    <2>2. Contract!Holds(d[f], c) <=> d[f] = c.value
      BY <1>2, <1>a, Kinds DEF Contract!Holds
    <2> QED
      BY <1>2, <2>1, <2>2, TypeIs, Kinds DEF Booleans
  <1>3. CASE c.op = "eq" /\ c.value \in Values(f) \ ({NULL, Missing} \cup Booleans)
    <2>1. Clause(d, f, c) = Equals(v, c.value)
      BY <1>3, <1>a, Kinds DEF Clause, Booleans
    <2>2. Contract!Holds(d[f], c) <=> d[f] = c.value
      BY <1>3, <1>a, Kinds DEF Contract!Holds
    <2>3. f \notin Flags /\ d[f] \notin Booleans
      BY <1>3, ValueIs, Kinds
    <2> QED
      BY <1>3, <1>b, <2>1, <2>2, <2>3, EqualsIs
  <1>4. CASE c.op = "ne" /\ c.value = NULL
    <2>1. Clause(d, f, c) = Not(IsNull(v))
      BY <1>4, <1>a DEF Clause
    <2>2. Contract!Holds(d[f], c) <=> d[f] \notin {NULL, Missing}
      BY <1>4, <1>a DEF Contract!Holds
    <2> QED
      BY <2>1, <2>2, <1>b, <1>c, NotIs
  <1>5. CASE c.op = "ne" /\ c.value \in Values(f) \ ({NULL, Missing} \cup Booleans)
    <2>1. Clause(d, f, c) = Or(IsNull(v), Not(Equals(v, c.value)))
      BY <1>5, <1>a DEF Clause
    <2>2. Contract!Holds(d[f], c) <=> d[f] # c.value
      BY <1>5, <1>a, Kinds DEF Contract!Holds
    <2>3. f \notin Flags /\ d[f] \notin Booleans
      BY <1>5, ValueIs, Kinds
    <2>4. Clause(d, f, c) = "yes" <=> v = NULL \/ Equals(v, c.value) = "no"
      BY <1>c, <1>d, <2>1, NotIs, OrIs
    <2> QED
      BY <1>5, <1>b, <2>2, <2>3, <2>4, EqualsIs
  <1>6. CASE c.op \in {"gt", "lte"} /\ c.value \in Numbers
    <2> PICK typed : typed = Equals(Type(d, f), <<"text", "integer">>)
      OBVIOUS
    <2>1. typed \in Truth /\ (typed = "yes" <=> d[f] \in Numbers)
      BY TypeIs, EqualsIs
    <2>2. Contract!Number(d[f]) <=> d[f] \in Numbers
      <3>1. d[f] \in Booleans => d[f][1] # "integer"
        BY Kinds DEF Booleans
      <3>2. d[f] \in {NULL, Missing} => d[f][1] # "integer"
        BY DEF NULL, Missing
      <3> QED
        BY <3>1, <3>2, Kinds, ValueIs DEF Contract!Number
    <2>3. CASE d[f] \in Numbers
      <3>1. v = d[f]
        BY <1>b, <2>3, Kinds
      <3>2. Greater(v, c.value) \in Truth /\ (Greater(v, c.value) = "yes" <=> d[f][2] > c.value[2])
             /\ (Greater(v, c.value) = "no" <=> ~(d[f][2] > c.value[2]))
        BY <1>6, <2>3, <3>1, GreaterIs
      <3>3. d[f][2] \in Int /\ c.value[2] \in Int
        BY <1>6, <2>3, Kinds
      <3>4. CASE c.op = "gt"
        <4>1. Clause(d, f, c) = And(typed, Greater(v, c.value))
          BY <3>4 DEF Clause
        <4>2. Contract!Holds(d[f], c) <=> d[f][2] > c.value[2]
          BY <2>2, <2>3, <3>4 DEF Contract!Holds
        <4> QED
          BY <2>1, <2>3, <3>2, <4>1, <4>2, AndIs
      <3>5. CASE c.op = "lte"
        <4>1. Clause(d, f, c) = And(typed, Not(Greater(v, c.value)))
          BY <3>5 DEF Clause
        <4>2. Contract!Holds(d[f], c) <=> d[f][2] <= c.value[2]
          BY <2>2, <2>3, <3>5 DEF Contract!Holds
        <4>3. Contract!Holds(d[f], c) <=> ~(d[f][2] > c.value[2])
          BY <3>3, <4>2
        <4> QED
          BY <2>1, <2>3, <3>2, <4>1, <4>3, AndIs, NotIs
      <3> QED
        BY <1>6, <3>4, <3>5
    <2>4. CASE d[f] \notin Numbers
      <3>1. ~Contract!Holds(d[f], c)
        BY <1>6, <2>2, <2>4 DEF Contract!Holds
      <3>2. \A b \in Truth : And(typed, b) # "yes"
        BY <2>1, <2>4, AndIs
      <3>3. Greater(v, c.value) \in Truth /\ Not(Greater(v, c.value)) \in Truth
        <4>1. Greater(v, c.value) \in Truth
          BY DEF Greater, Sql, Truth
        <4> QED
          BY <4>1, NotIs
      <3>4. Clause(d, f, c) \in {And(typed, Greater(v, c.value)), And(typed, Not(Greater(v, c.value)))}
        <4>1. CASE c.op = "gt"
          BY <4>1 DEF Clause
        <4>2. CASE c.op = "lte"
          BY <4>2 DEF Clause
        <4> QED
          BY <1>6, <4>1, <4>2
      <3> QED
        BY <3>1, <3>2, <3>3, <3>4
    <2> QED
      BY <2>3, <2>4
  <1> QED
    BY <1>1, <1>2, <1>3, <1>4, <1>5, <1>6

-----------------------------------------------------------------------------
(* Filters and indexes.                                                    *)

LEMMA KeptIs ==
  ASSUME NEW d \in LegalDocuments, NEW flt, IsFilter(flt)
  PROVE  Kept(d, flt) <=> Contract!Matches(d, flt)
  <1>1. ASSUME NEW f \in DOMAIN flt, NEW c \in flt[f]
        PROVE  Clause(d, f, c) = "yes" <=> Contract!Holds(d[f], c)
    <2>1. d[f] \in Values(f)
      BY DEF IsFilter, LegalDocuments
    <2>2. \/ c.op = "eq" /\ c.value \in Values(f) \ {Missing}
          \/ c.op = "ne" /\ c.value \in Values(f) \ ({Missing} \cup Booleans)
          \/ c.op \in {"gt", "lte"} /\ c.value \in Numbers
      BY DEF IsFilter
    <2> QED
      BY <2>1, <2>2, ClauseIs
  <1> QED
    BY <1>1 DEF Kept, Contract!Matches

\* Two rows have one value in a column if their documents have one, not null.
LEMMA OneColumn ==
  ASSUME NEW d, NEW e, NEW f, d[f] \in Values(f), e[f] \in Values(f)
  PROVE  Equals(Column(d, f), Column(e, f)) = "yes"
           <=> d[f] = e[f] /\ d[f] \notin {NULL, Missing}
  <1>1. Equals(Column(d, f), Column(e, f)) = "yes"
          <=> Column(d, f) # NULL /\ Column(d, f) = Column(e, f)
    BY EqualsIs
  <1>2. CASE f \in Flags
    <2>1. d[f] \in {NULL, Missing} \cup Booleans /\ e[f] \in {NULL, Missing} \cup Booleans
      BY <1>2, ValueIs
    <2>2. <<"integer", 1>> # <<"integer", 0>>
      <3>1. <<"integer", 1>>[2] = 1 /\ <<"integer", 0>>[2] = 0
        OBVIOUS
      <3> QED
        BY <3>1
    <2>3. d[f] = e[f] => Column(d, f) = Column(e, f)
      BY DEF Column
    <2> QED
      BY <1>1, <2>1, <2>2, <2>3, ColumnIs, Kinds DEF Booleans
  <1>3. CASE f \notin Flags
    <2>1. d[f] \notin Booleans /\ e[f] \notin Booleans
      BY <1>3, ValueIs, Kinds
    <2> QED
      BY <1>1, <2>1, ColumnIs
  <1> QED
    BY <1>2, <1>3

\* A unique index is against a document where the contract has one key.
LEMMA SameColumnsIs ==
  ASSUME NEW t \in Tables, NEW ix \in Unique[t],
         NEW d \in LegalDocuments, NEW e \in LegalDocuments
  PROVE  SameColumns(e, d, Definition(t, ix))
           <=> Contract!SameKey(d, e, ix) /\ \A f \in ix.fields : ~Contract!Absent(d[f])
  <1> PICK x : x = Definition(t, ix)
    OBVIOUS
  <1>1. x.partial = ix.partial /\ x.fields = ix.fields
    BY DEF Definition
  <1>2. ix.fields \subseteq Fields /\ IsFilter(ix.partial)
    BY IndexesAssumption
  <1>3. /\ Kept(d, ix.partial) <=> Contract!Matches(d, ix.partial)
        /\ Kept(e, ix.partial) <=> Contract!Matches(e, ix.partial)
    BY <1>2, KeptIs
  <1>4. ASSUME NEW f \in ix.fields
        PROVE  Equals(Column(e, f), Column(d, f)) = "yes"
                 <=> (d[f] = e[f] \/ (Contract!Absent(d[f]) /\ Contract!Absent(e[f])))
                     /\ ~Contract!Absent(d[f])
    <2>1. d[f] \in Values(f) /\ e[f] \in Values(f)
      BY <1>2 DEF LegalDocuments
    <2>2. \A v : Contract!Absent(v) <=> v \in {NULL, Missing}
      BY DEF Contract!Absent, Contract!Null, Contract!Missing, NULL, Missing
    <2> QED
      BY <2>1, <2>2, OneColumn
  <1>5. SameColumns(e, d, x) <=>
          /\ Kept(e, ix.partial) /\ Kept(d, ix.partial)
          /\ \A f \in ix.fields : Equals(Column(e, f), Column(d, f)) = "yes"
    BY <1>1 DEF SameColumns
  <1> QED
    BY <1>3, <1>4, <1>5 DEF Contract!SameKey

LEMMA SameColumnsSymmetric ==
  ASSUME NEW d, NEW e, NEW x
  PROVE  SameColumns(d, e, x) <=> SameColumns(e, d, x)
  BY EqualsIs DEF SameColumns

-----------------------------------------------------------------------------
(* Rows.                                                                   *)
Distinct(s) == \A j, k \in 1 .. Len(s) : s[j].id = s[k].id => j = k

\* No two rows are against index x.
Clean(s, x) ==
  \A j, k \in 1 .. Len(s) : j # k => ~SameColumns(s[j].doc, s[k].doc, x)

LEMMA DuplicatedIs ==
  ASSUME NEW t, rows[t] \in Seq(TableRows), NEW x
  PROVE  ~Duplicated(t, x) <=> Clean(rows[t], x)
  <1> PICK s : s = rows[t]
    OBVIOUS
  <1>1. s \in Seq(TableRows) /\ Len(s) \in Nat
    BY LenProperties
  <1>2. ASSUME NEW k \in 1 .. Len(s)
        PROVE  /\ Len(SubSeq(s, 1, k - 1)) = k - 1
               /\ \A j \in 1 .. k - 1 : SubSeq(s, 1, k - 1)[j] = s[j]
    <2>1. \A j \in 1 .. k - 1 : s[j] \in TableRows
      BY <1>1, ElementOfSeq
    <2>2. /\ Len(SubSeq(s, 1, k - 1)) = IF 1 <= k - 1 THEN (k - 1) - 1 + 1 ELSE 0
          /\ \A j \in 1 .. (k - 1) - 1 + 1 : SubSeq(s, 1, k - 1)[j] = s[1 + j - 1]
      BY <1>1, <2>1, SubSeqProperties
    <2>3. Len(SubSeq(s, 1, k - 1)) = k - 1
      BY <1>1, <2>2
    <2>4. ASSUME NEW j \in 1 .. k - 1 PROVE SubSeq(s, 1, k - 1)[j] = s[j]
      <3>1. j \in 1 .. (k - 1) - 1 + 1 /\ 1 + j - 1 = j
        BY <1>1
      <3> QED
        BY <2>2, <3>1
    <2> QED
      BY <2>3, <2>4
  <1>3. ASSUME NEW k \in 1 .. Len(s)
        PROVE  Violates(SubSeq(s, 1, k - 1), s[k].doc, x)
                 <=> \E j \in 1 .. k - 1 : SameColumns(s[j].doc, s[k].doc, x)
    BY <1>2 DEF Violates
  <1>4. Duplicated(t, x) <=>
          \E k \in 1 .. Len(s) : \E j \in 1 .. k - 1 : SameColumns(s[j].doc, s[k].doc, x)
    BY <1>3 DEF Duplicated
  <1>5. ASSUME Duplicated(t, x) PROVE ~Clean(s, x)
    <2>1. PICK k \in 1 .. Len(s) : \E j \in 1 .. k - 1 : SameColumns(s[j].doc, s[k].doc, x)
      BY <1>4, <1>5
    <2>2. PICK j \in 1 .. k - 1 : SameColumns(s[j].doc, s[k].doc, x)
      BY <2>1
    <2>3. j \in 1 .. Len(s) /\ j # k
      BY <1>1
    <2> QED
      BY <2>2, <2>3 DEF Clean
  <1>6. ASSUME ~Clean(s, x) PROVE Duplicated(t, x)
    <2>1. PICK j \in 1 .. Len(s), k \in 1 .. Len(s) :
                 j # k /\ SameColumns(s[j].doc, s[k].doc, x)
      BY <1>6 DEF Clean
    <2>2. SameColumns(s[k].doc, s[j].doc, x)
      BY <2>1, SameColumnsSymmetric
    <2>3. j \in 1 .. k - 1 \/ k \in 1 .. j - 1
      BY <1>1, <2>1
    <2> QED
      BY <1>4, <2>1, <2>2, <2>3
  <1> QED
    BY <1>5, <1>6

LEMMA RowIs ==
  ASSUME NEW s \in Seq(TableRows), NEW k \in 1 .. Len(s)
  PROVE  /\ s[k] = [id |-> s[k].id, doc |-> s[k].doc]
         /\ s[k].id \in Ids /\ s[k].doc \in LegalDocuments /\ s[k] \in TableRows
  <1>1. s[k] \in TableRows
    BY ElementOfSeq
  <1> QED
    BY <1>1 DEF TableRows

LEMMA AsDocumentsIs ==
  ASSUME NEW s \in Seq(TableRows), Distinct(s)
  PROVE  /\ DOMAIN AsDocuments(s) = {s[k].id : k \in 1 .. Len(s)}
         /\ \A k \in 1 .. Len(s) : AsDocuments(s)[s[k].id] = s[k].doc
  <1>1. DOMAIN AsDocuments(s) = {s[k].id : k \in 1 .. Len(s)}
    BY DEF AsDocuments
  <1>2. ASSUME NEW k \in 1 .. Len(s)
        PROVE  AsDocuments(s)[s[k].id] = s[k].doc
    <2>1. (CHOOSE j \in 1 .. Len(s) : s[j].id = s[k].id) = k
      BY DEF Distinct
    <2> QED
      BY <2>1 DEF AsDocuments
  <1> QED
    BY <1>1, <1>2

\* A map is that of a table if it has the documents of its rows.
LEMMA AsDocumentsEqual ==
  ASSUME NEW s \in Seq(TableRows), Distinct(s), NEW I, NEW g \in [I -> LegalDocuments],
         \A i \in I : \E k \in 1 .. Len(s) : i = s[k].id,
         \A k \in 1 .. Len(s) : s[k].id \in I /\ g[s[k].id] = s[k].doc
  PROVE  AsDocuments(s) = g
  <1> PICK h : h = AsDocuments(s)
    OBVIOUS
  <1>1. /\ DOMAIN h = {s[k].id : k \in 1 .. Len(s)}
        /\ \A k \in 1 .. Len(s) : h[s[k].id] = s[k].doc
    BY AsDocumentsIs
  <1>2. \A i \in I : h[i] = g[i]
    BY <1>1
  <1>3. DOMAIN h = I
    BY <1>1
  <1>4. h = [i \in DOMAIN h |-> h[i]]
    BY DEF AsDocuments
  <1> QED
    BY <1>2, <1>3, <1>4

LEMMA AsDocumentsType ==
  ASSUME NEW s \in Seq(TableRows), Distinct(s)
  PROVE  AsDocuments(s) \in [DOMAIN AsDocuments(s) -> LegalDocuments]
  <1>1. ASSUME NEW i \in DOMAIN AsDocuments(s) PROVE AsDocuments(s)[i] \in LegalDocuments
    <2>1. PICK k \in 1 .. Len(s) : i = s[k].id
      BY AsDocumentsIs
    <2> QED
      BY <2>1, AsDocumentsIs, RowIs
  <1>2. AsDocuments(s) = [i \in DOMAIN AsDocuments(s) |-> AsDocuments(s)[i]]
    BY DEF AsDocuments
  <1> QED
    BY <1>1, <1>2

\* A map with d at i, and without what was there.
With(g, i, d) == [j \in DOMAIN g \cup {i} |-> IF j = i THEN d ELSE g[j]]
Except(g, i) == [j \in DOMAIN g \ {i} |-> g[j]]

\* A row more.
LEMMA RowMore ==
  ASSUME NEW s \in Seq(TableRows), Distinct(s), NEW i \in Ids, NEW d \in LegalDocuments,
         \A k \in 1 .. Len(s) : s[k].id # i,
         NEW a \in Seq(TableRows), Len(a) = Len(s) + 1,
         \A k \in 1 .. Len(s) : a[k] = s[k], a[Len(s) + 1] = [id |-> i, doc |-> d]
  PROVE  /\ a \in Seq(TableRows) /\ Distinct(a)
         /\ AsDocuments(a) = With(AsDocuments(s), i, d)
         /\ \A x : Clean(s, x) /\ ~Violates(s, d, x) => Clean(a, x)
  <1> PICK r : r = [id |-> i, doc |-> d]
    OBVIOUS
  <1>1. r \in TableRows /\ r.id = i /\ r.doc = d
    BY DEF TableRows
  <1>2. Len(s) \in Nat
    BY LenProperties
  <1>3. /\ a \in Seq(TableRows) /\ Len(a) = Len(s) + 1
        /\ \A k \in 1 .. Len(s) : a[k] = s[k]
        /\ a[Len(s) + 1] = r
    OBVIOUS
  <1>4. ASSUME NEW k \in 1 .. Len(a)
        PROVE  (k \in 1 .. Len(s) /\ a[k] = s[k]) \/ (k = Len(s) + 1 /\ a[k] = r)
    <2>1. k \in 1 .. Len(s) \/ k = Len(s) + 1
      BY <1>2, <1>3
    <2> QED
      BY <1>3, <2>1
  <1>5. ASSUME NEW k \in 1 .. Len(s)
        PROVE  k \in 1 .. Len(a) /\ a[k] = s[k]
    BY <1>2, <1>3
  <1>6. Distinct(a)
    BY <1>1, <1>4 DEF Distinct
  <1>i. PICK I : I = DOMAIN AsDocuments(s) \cup {i}
    OBVIOUS
  <1>g. PICK g : g = With(AsDocuments(s), i, d)
    OBVIOUS
  <1>7. {a[k].id : k \in 1 .. Len(a)} = DOMAIN AsDocuments(s) \cup {i}
    <2>1. DOMAIN AsDocuments(s) = {s[k].id : k \in 1 .. Len(s)}
      BY AsDocumentsIs
    <2>2. Len(s) + 1 \in 1 .. Len(a)
      BY <1>2, <1>3
    <2>3. a[Len(s) + 1].id = i
      BY <1>1, <1>3
    <2>4. \A k \in 1 .. Len(a) : a[k].id \in DOMAIN AsDocuments(s) \cup {i}
      BY <1>1, <1>4, <2>1
    <2>5. \A j \in DOMAIN AsDocuments(s) : \E k \in 1 .. Len(a) : j = a[k].id
      BY <1>5, <2>1
    <2> QED
      BY <2>2, <2>3, <2>4, <2>5
  <1>8. /\ g \in [I -> LegalDocuments]
        /\ \A j \in I : \E k \in 1 .. Len(a) : j = a[k].id
        /\ \A k \in 1 .. Len(a) : a[k].id \in I
    <2>1. AsDocuments(s) \in [DOMAIN AsDocuments(s) -> LegalDocuments]
      BY AsDocumentsType
    <2>2. g \in [I -> LegalDocuments]
      BY <2>1, <1>g, <1>i DEF With
    <2> QED
      BY <1>7, <2>2, <1>i
  <1>9. ASSUME NEW k \in 1 .. Len(a) PROVE g[a[k].id] = a[k].doc
    <2>1. CASE k \in 1 .. Len(s) /\ a[k] = s[k]
      <3>1. s[k].id # i
        BY <2>1
      <3>2. /\ s[k].id \in DOMAIN AsDocuments(s)
            /\ AsDocuments(s)[s[k].id] = s[k].doc
        BY <2>1, AsDocumentsIs
      <3> QED
        BY <2>1, <3>1, <3>2, <1>g DEF With
    <2>2. CASE a[k] = r
      BY <1>1, <2>2, <1>g DEF With
    <2> QED
      BY <1>4, <2>1, <2>2
  <1>10. AsDocuments(a) = g
    <2>1. a \in Seq(TableRows)
      BY <1>3
    <2>2. g \in [I -> LegalDocuments]
      BY <1>8
    <2>3. \A j \in I : \E k \in 1 .. Len(a) : j = a[k].id
      BY <1>8
    <2>4. \A k \in 1 .. Len(a) : a[k].id \in I /\ g[a[k].id] = a[k].doc
      BY <1>8, <1>9
    <2> QED
      BY <2>1, <1>6, <2>2, <2>3, <2>4, AsDocumentsEqual
  <1>11. ASSUME NEW x, Clean(s, x), ~Violates(s, d, x)
         PROVE  Clean(a, x)
    <2>1. \A k \in 1 .. Len(s) : ~SameColumns(s[k].doc, d, x) /\ ~SameColumns(d, s[k].doc, x)
      BY <1>11, SameColumnsSymmetric DEF Violates
    <2> QED
      BY <1>1, <1>4, <1>11, <2>1 DEF Clean
  <1> QED
    BY <1>3, <1>6, <1>10, <1>11, <1>g

LEMMA Appended ==
  ASSUME NEW s \in Seq(TableRows), Distinct(s), NEW i \in Ids, NEW d \in LegalDocuments,
         \A k \in 1 .. Len(s) : s[k].id # i,
         NEW a, a = Append(s, [id |-> i, doc |-> d])
  PROVE  /\ a \in Seq(TableRows) /\ Distinct(a)
         /\ AsDocuments(a) = With(AsDocuments(s), i, d)
         /\ \A x : Clean(s, x) /\ ~Violates(s, d, x) => Clean(a, x)
  <1>1. [id |-> i, doc |-> d] \in TableRows
    BY DEF TableRows
  <1>2. /\ a \in Seq(TableRows) /\ Len(a) = Len(s) + 1
        /\ \A k \in 1 .. Len(s) : a[k] = s[k]
        /\ a[Len(s) + 1] = [id |-> i, doc |-> d]
    BY <1>1, AppendProperties
  <1> QED
    BY <1>2, RowMore

\* A row less.
LEMMA RemoveAtIs ==
  ASSUME NEW s \in Seq(TableRows), NEW k \in 1 .. Len(s), NEW a, a = RemoveAt(s, k)
  PROVE  /\ a \in Seq(TableRows)
         /\ Len(a) = Len(s) - 1
         /\ \A j \in 1 .. Len(a) : a[j] = IF j < k THEN s[j] ELSE s[j + 1]
  <1>p. PICK p, q : p = SubSeq(s, 1, k - 1) /\ q = SubSeq(s, k + 1, Len(s))
    OBVIOUS
  <1>1. Len(s) \in Nat
    BY LenProperties
  <1>2. p \in Seq(TableRows) /\ Len(p) = k - 1 /\ \A j \in 1 .. k - 1 : p[j] = s[j]
    <2>1. \A j \in 1 .. k - 1 : s[j] \in TableRows
      BY <1>1, ElementOfSeq
    <2>2. /\ p \in Seq(TableRows)
          /\ Len(p) = IF 1 <= k - 1 THEN (k - 1) - 1 + 1 ELSE 0
          /\ \A j \in 1 .. (k - 1) - 1 + 1 : p[j] = s[1 + j - 1]
      BY <1>p, <1>1, <2>1, SubSeqProperties
    <2>3. Len(p) = k - 1
      BY <1>1, <2>2
    <2>4. ASSUME NEW j \in 1 .. k - 1 PROVE p[j] = s[j]
      <3>1. j \in 1 .. (k - 1) - 1 + 1 /\ 1 + j - 1 = j
        BY <1>1
      <3> QED
        BY <2>2, <3>1
    <2> QED
      BY <2>2, <2>3, <2>4
  <1>3. q \in Seq(TableRows) /\ Len(q) = Len(s) - k /\ \A j \in 1 .. Len(s) - k : q[j] = s[k + j]
    <2>1. \A j \in k + 1 .. Len(s) : s[j] \in TableRows
      BY <1>1, ElementOfSeq
    <2>2. /\ q \in Seq(TableRows)
          /\ Len(q) = IF k + 1 <= Len(s) THEN Len(s) - (k + 1) + 1 ELSE 0
          /\ \A j \in 1 .. Len(s) - (k + 1) + 1 : q[j] = s[(k + 1) + j - 1]
      BY <1>p, <1>1, <2>1, SubSeqProperties
    <2>3. Len(q) = Len(s) - k
      BY <1>1, <2>2
    <2>4. ASSUME NEW j \in 1 .. Len(s) - k PROVE q[j] = s[k + j]
      <3>1. j \in 1 .. Len(s) - (k + 1) + 1 /\ (k + 1) + j - 1 = k + j
        BY <1>1
      <3> QED
        BY <2>2, <3>1
    <2> QED
      BY <2>2, <2>3, <2>4
  <1>4. a = p \o q
    BY <1>p DEF RemoveAt
  <1>5. /\ a \in Seq(TableRows)
        /\ Len(a) = Len(p) + Len(q)
        /\ \A j \in 1 .. Len(p) + Len(q) :
             a[j] = IF j <= Len(p) THEN p[j] ELSE q[j - Len(p)]
    <2>1. p \in Seq(TableRows) /\ q \in Seq(TableRows)
      BY <1>2, <1>3
    <2>2. /\ p \o q \in Seq(TableRows)
          /\ Len(p \o q) = Len(p) + Len(q)
          /\ \A j \in 1 .. Len(p) + Len(q) :
               (p \o q)[j] = IF j <= Len(p) THEN p[j] ELSE q[j - Len(p)]
      BY <2>1, ConcatProperties
    <2> QED
      BY <1>4, <2>2
  <1>l. Len(p) = k - 1 /\ Len(q) = Len(s) - k
    BY <1>2, <1>3
  <1>6. Len(a) = Len(s) - 1
    BY <1>1, <1>2, <1>3, <1>5
  <1>7. ASSUME NEW j \in 1 .. Len(a), j < k PROVE a[j] = s[j]
    <2>1. j \in 1 .. Len(p) + Len(q) /\ j <= Len(p) /\ j \in 1 .. k - 1
      <3>1. j \in Int /\ 1 <= j /\ j <= Len(s) - 1 /\ j <= k - 1 /\ k \in Int /\ k <= Len(s)
        BY <1>1, <1>6, <1>7
      <3>2. Len(p) \in Int /\ Len(q) \in Int /\ Len(p) + Len(q) = Len(s) - 1
        BY <1>1, <1>l, <3>1
      <3> QED
        BY <1>1, <1>l, <3>1, <3>2
    <2> QED
      BY <1>2, <1>5, <2>1
  <1>8. ASSUME NEW j \in 1 .. Len(a), ~(j < k) PROVE a[j] = s[j + 1]
    <2>1. /\ j \in 1 .. Len(p) + Len(q) /\ ~(j <= Len(p)) /\ j - Len(p) \in 1 .. Len(s) - k
          /\ k + (j - Len(p)) = j + 1
      <3>1. j \in Int /\ 1 <= j /\ j <= Len(s) - 1 /\ k <= j /\ k \in Int /\ k <= Len(s) /\ 1 <= k
        BY <1>1, <1>6, <1>8
      <3>2. Len(p) \in Int /\ Len(q) \in Int /\ Len(p) + Len(q) = Len(s) - 1
        BY <1>1, <1>l, <3>1
      <3> QED
        BY <1>1, <1>l, <3>1, <3>2
    <2> QED
      BY <1>3, <1>5, <2>1
  <1> QED
    BY <1>5, <1>6, <1>7, <1>8

\* The rows that are left are the others.
Selection(g, a, s, k) ==
  /\ g \in [1 .. Len(a) -> 1 .. Len(s)]
  /\ \A j \in 1 .. Len(a) : a[j] = s[g[j]] /\ g[j] # k
  /\ \A j, m \in 1 .. Len(a) : g[j] = g[m] => j = m
  /\ \A m \in 1 .. Len(s) : m # k => \E j \in 1 .. Len(a) : g[j] = m

LEMMA Remaining ==
  ASSUME NEW s \in Seq(TableRows), NEW k \in 1 .. Len(s)
  PROVE  \E g : Selection(g, RemoveAt(s, k), s, k)
  <1>a. PICK a : a = RemoveAt(s, k)
    OBVIOUS
  <1>1. Len(s) \in Nat
    BY LenProperties
  <1>2. Len(a) = Len(s) - 1 /\ \A j \in 1 .. Len(a) : a[j] = IF j < k THEN s[j] ELSE s[j + 1]
    BY <1>a, RemoveAtIs
  <1>3. Len(a) = Len(s) - 1
    BY <1>2
  <1> PICK g : g = [j \in 1 .. Len(a) |-> IF j < k THEN j ELSE j + 1]
    OBVIOUS
  <1>4. ASSUME NEW j \in 1 .. Len(a)
        PROVE  g[j] \in 1 .. Len(s) /\ g[j] # k /\ a[j] = s[g[j]]
    BY <1>1, <1>2
  <1>5. ASSUME NEW j \in 1 .. Len(a), NEW m \in 1 .. Len(a), g[j] = g[m]
        PROVE  j = m
    BY <1>1, <1>3, <1>5
  <1>6. ASSUME NEW m \in 1 .. Len(s), m # k
        PROVE  \E j \in 1 .. Len(a) : g[j] = m
    <2>1. CASE m < k
      <3>1. m \in 1 .. Len(a)
        BY <1>1, <1>3, <2>1
      <3>2. g[m] = m
        BY <2>1, <3>1
      <3> QED
        BY <3>1, <3>2
    <2>2. CASE ~(m < k)
      <3>1. m - 1 \in 1 .. Len(a) /\ ~(m - 1 < k) /\ m - 1 + 1 = m
        BY <1>1, <1>3, <1>6, <2>2
      <3>2. g[m - 1] = m
        BY <3>1
      <3> QED
        BY <3>1, <3>2
    <2> QED
      BY <2>1, <2>2
  <1>7. g \in [1 .. Len(a) -> 1 .. Len(s)]
    BY <1>4
  <1>8. /\ \A j \in 1 .. Len(a) : a[j] = s[g[j]] /\ g[j] # k
        /\ \A j, m \in 1 .. Len(a) : g[j] = g[m] => j = m
        /\ \A m \in 1 .. Len(s) : m # k => \E j \in 1 .. Len(a) : g[j] = m
    BY <1>4, <1>5, <1>6
  <1>9. Selection(g, a, s, k)
    BY <1>7, <1>8 DEF Selection
  <1> QED
    BY <1>a, <1>9

LEMMA Removed ==
  ASSUME NEW s \in Seq(TableRows), Distinct(s), NEW k \in 1 .. Len(s),
         NEW a, a = RemoveAt(s, k)
  PROVE  /\ a \in Seq(TableRows) /\ Distinct(a)
         /\ AsDocuments(a) = Except(AsDocuments(s), s[k].id)
         /\ \A x : Clean(s, x) => Clean(a, x)
  <1>1. a \in Seq(TableRows)
    BY RemoveAtIs
  <1>2. PICK m : Selection(m, a, s, k)
    BY Remaining
  <1>3. Distinct(a)
    <2>1. SUFFICES ASSUME NEW i \in 1 .. Len(a), NEW j \in 1 .. Len(a), a[i].id = a[j].id
                   PROVE  i = j
      BY DEF Distinct
    <2>2. s[m[i]].id = s[m[j]].id /\ m[i] \in 1 .. Len(s) /\ m[j] \in 1 .. Len(s)
      BY <1>2, <2>1 DEF Selection
    <2>3. m[i] = m[j]
      BY <2>2 DEF Distinct
    <2> QED
      BY <1>2, <2>3 DEF Selection
  <1>4. ASSUME NEW x, Clean(s, x) PROVE Clean(a, x)
    <2>1. SUFFICES ASSUME NEW i \in 1 .. Len(a), NEW j \in 1 .. Len(a), i # j
                   PROVE  ~SameColumns(a[i].doc, a[j].doc, x)
      BY DEF Clean
    <2>2. m[i] # m[j] /\ m[i] \in 1 .. Len(s) /\ m[j] \in 1 .. Len(s)
      BY <1>2, <2>1 DEF Selection
    <2>3. ~SameColumns(s[m[i]].doc, s[m[j]].doc, x)
      BY <1>4, <2>2 DEF Clean
    <2> QED
      BY <1>2, <2>3 DEF Selection
  <1>5. /\ DOMAIN AsDocuments(s) = {s[i].id : i \in 1 .. Len(s)}
        /\ \A i \in 1 .. Len(s) : AsDocuments(s)[s[i].id] = s[i].doc
    BY AsDocumentsIs
  <1>g. PICK g : g = Except(AsDocuments(s), s[k].id)
    OBVIOUS
  <1>6. DOMAIN g = DOMAIN AsDocuments(s) \ {s[k].id} /\ g \in [DOMAIN g -> LegalDocuments]
    <2>1. AsDocuments(s) \in [DOMAIN AsDocuments(s) -> LegalDocuments]
      BY AsDocumentsType
    <2> QED
      BY <2>1, <1>g DEF Except
  <1>7. ASSUME NEW i \in DOMAIN g PROVE \E j \in 1 .. Len(a) : i = a[j].id
    <2>1. PICK n \in 1 .. Len(s) : i = s[n].id
      BY <1>5, <1>6
    <2>2. n # k
      BY <1>6, <2>1
    <2>3. PICK j \in 1 .. Len(a) : m[j] = n
      BY <1>2, <2>2 DEF Selection
    <2> QED
      BY <1>2, <2>1, <2>3 DEF Selection
  <1>8. ASSUME NEW j \in 1 .. Len(a)
        PROVE  a[j].id \in DOMAIN g /\ g[a[j].id] = a[j].doc
    <2>1. a[j] = s[m[j]] /\ m[j] # k /\ m[j] \in 1 .. Len(s)
      BY <1>2 DEF Selection
    <2>2. s[m[j]].id # s[k].id
      BY <2>1 DEF Distinct
    <2>3. s[m[j]].id \in DOMAIN AsDocuments(s) /\ AsDocuments(s)[s[m[j]].id] = s[m[j]].doc
      BY <1>5, <2>1
    <2> QED
      BY <1>6, <2>1, <2>2, <2>3, <1>g DEF Except
  <1>9. AsDocuments(a) = g
    BY <1>1, <1>3, <1>6, <1>7, <1>8, AsDocumentsEqual
  <1> QED
    BY <1>1, <1>3, <1>4, <1>9, <1>g

\* A row of which the document changes.
LEMMA Replaced ==
  ASSUME NEW s \in Seq(TableRows), Distinct(s), NEW k \in 1 .. Len(s),
         NEW d \in LegalDocuments, NEW a \in Seq(TableRows), Len(a) = Len(s),
         \A j \in 1 .. Len(s) : a[j] = IF j = k THEN [id |-> s[k].id, doc |-> d] ELSE s[j]
  PROVE  /\ a \in Seq(TableRows) /\ Distinct(a)
         /\ AsDocuments(a) = With(AsDocuments(s), s[k].id, d)
         /\ \A x : Clean(s, x) /\ ~Violates(RemoveAt(s, k), d, x) => Clean(a, x)
  <1> PICK r : r = [id |-> s[k].id, doc |-> d]
    OBVIOUS
  <1>1. r \in TableRows /\ r.id = s[k].id /\ r.doc = d
    BY RowIs DEF TableRows
  <1>3. /\ a \in Seq(TableRows) /\ Len(a) = Len(s)
        /\ \A j \in 1 .. Len(s) : a[j] = IF j = k THEN r ELSE s[j]
    OBVIOUS
  <1>4. \A j \in 1 .. Len(s) : a[j].id = s[j].id
    BY <1>1, <1>3
  <1>5. Distinct(a)
    BY <1>3, <1>4 DEF Distinct
  <1>6. /\ DOMAIN AsDocuments(s) = {s[m].id : m \in 1 .. Len(s)}
        /\ \A m \in 1 .. Len(s) : AsDocuments(s)[s[m].id] = s[m].doc
    BY AsDocumentsIs
  <1>i. PICK I : I = DOMAIN AsDocuments(s) \cup {s[k].id}
    OBVIOUS
  <1>g. PICK g : g = With(AsDocuments(s), s[k].id, d)
    OBVIOUS
  <1>7. {a[j].id : j \in 1 .. Len(a)} = DOMAIN AsDocuments(s) \cup {s[k].id}
    <2>1. \A j \in 1 .. Len(a) : a[j].id \in DOMAIN AsDocuments(s)
      BY <1>3, <1>4, <1>6
    <2>2. \A i \in DOMAIN AsDocuments(s) : \E j \in 1 .. Len(a) : i = a[j].id
      BY <1>3, <1>4, <1>6
    <2>3. s[k].id \in DOMAIN AsDocuments(s)
      BY <1>6
    <2> QED
      BY <2>1, <2>2, <2>3
  <1>8. /\ g \in [I -> LegalDocuments]
        /\ \A j \in I : \E m \in 1 .. Len(a) : j = a[m].id
        /\ \A m \in 1 .. Len(a) : a[m].id \in I
    <2>1. AsDocuments(s) \in [DOMAIN AsDocuments(s) -> LegalDocuments]
      BY AsDocumentsType
    <2>2. g \in [I -> LegalDocuments]
      BY <2>1, <1>g, <1>i DEF With
    <2> QED
      BY <1>7, <2>2, <1>i
  <1>9. ASSUME NEW j \in 1 .. Len(a) PROVE g[a[j].id] = a[j].doc
    <2>1. CASE j = k
      BY <1>1, <1>3, <2>1, <1>g DEF With
    <2>2. CASE j # k
      <3>1. s[j].id # s[k].id /\ a[j] = s[j]
        BY <1>3, <2>2 DEF Distinct
      <3> QED
        BY <1>3, <1>6, <3>1, <1>g DEF With
    <2> QED
      BY <2>1, <2>2
  <1>10. AsDocuments(a) = g
    <2>1. a \in Seq(TableRows)
      BY <1>3
    <2>2. \A m \in 1 .. Len(a) : a[m].id \in I /\ g[a[m].id] = a[m].doc
      BY <1>8, <1>9, <1>3
    <2> QED
      BY <2>1, <1>5, <1>8, <2>2, AsDocumentsEqual
  <1>11. ASSUME NEW x, Clean(s, x), ~Violates(RemoveAt(s, k), d, x)
         PROVE  Clean(a, x)
    <2>b. PICK b : b = RemoveAt(s, k)
      OBVIOUS
    <2>1. PICK m : Selection(m, b, s, k)
      BY <2>b, Remaining
    <2>2. ASSUME NEW j \in 1 .. Len(s), j # k
          PROVE  ~SameColumns(s[j].doc, d, x) /\ ~SameColumns(d, s[j].doc, x)
      <3>1. PICK i \in 1 .. Len(b) : m[i] = j
        BY <2>1, <2>2 DEF Selection
      <3>2. b[i] = s[j]
        BY <2>1, <3>1 DEF Selection
      <3> QED
        BY <1>11, <2>b, <3>1, <3>2, SameColumnsSymmetric DEF Violates
    <2> QED
      BY <1>1, <1>3, <1>11, <2>2 DEF Clean
  <1> QED
    BY <1>3, <1>5, <1>10, <1>11, <1>g

-----------------------------------------------------------------------------
(* The invariant.                                                          *)
Named(n, x) ==
  /\ x.table \in Tables /\ n = SqlIndexName(x.table, x.fields)
  /\ \E ix \in Unique[x.table] : ix.fields = x.fields

Built(t, ix) ==
  /\ SqlIndexName(t, ix.fields) \in DOMAIN indexes
  /\ indexes[SqlIndexName(t, ix.fields)] = Definition(t, ix)

StoreInv ==
  /\ StoreTypeOK
  /\ \A t \in Tables : Distinct(rows[t])
  /\ \A n \in DOMAIN indexes :
       /\ Named(n, indexes[n])
       /\ indexes[n].unique => Clean(rows[indexes[n].table], indexes[n])
  /\ \A t \in Tables : \A ix \in Unique[t] : <<t, ix>> \in asked => Built(t, ix)
  /\ connection = "ready" => asked = Requests
  /\ connection = "closed" => asked = {}

\* The first row that is kept, or 0.
LEMMA FirstIs ==
  ASSUME NEW t, rows[t] \in Seq(TableRows), NEW flt
  PROVE  \/ /\ First(t, flt) = 0
            /\ \A k \in 1 .. Len(rows[t]) : ~Kept(rows[t][k].doc, flt)
         \/ /\ First(t, flt) \in 1 .. Len(rows[t])
            /\ Kept(rows[t][First(t, flt)].doc, flt)
  <1>s. PICK s : s = rows[t]
    OBVIOUS
  <1>1. Len(s) \in Nat
    BY <1>s, LenProperties
  <1>i. PICK I : I = {k \in 1 .. Len(s) : Kept(s[k].doc, flt)}
    OBVIOUS
  <1>2. First(t, flt) = IF I # {} THEN Min(I) ELSE 0
    BY <1>s, <1>i DEF First, SelectInSeq
  <1>3. CASE I = {}
    BY <1>2, <1>3, <1>s, <1>i
  <1>4. CASE I # {}
    <2>1. I \subseteq Nat
      BY <1>1, <1>i
    <2>2. PICK m \in I : \A n \in I : <<n, m>> \notin OpToRel(<, Nat)
      BY <1>4, <2>1, NatLessThanWellFounded, WFMin
    <2>3. ASSUME NEW n \in I PROVE m <= n
      <3>1. ~(n < m) /\ n \in Nat /\ m \in Nat
        BY <2>1, <2>2 DEF OpToRel
      <3> QED
        BY <3>1
    <2>4. Min(I) \in I
      BY <2>3 DEF Min
    <2> QED
      BY <1>2, <1>4, <2>4, <1>s, <1>i
  <1> QED
    BY <1>3, <1>4

-----------------------------------------------------------------------------
(* The invariant holds at first, and is kept by connecting.                *)

LEMMA StoreInitInv == StoreInit => StoreInv
  <1> SUFFICES ASSUME StoreInit PROVE StoreInv
    OBVIOUS
  <1>1. ASSUME NEW t \in Tables
        PROVE  rows[t] \in Seq(TableRows) /\ Distinct(rows[t])
    BY CallersAssumption DEF StoreInit, Distinct
  <1>2. rows \in [Tables -> Seq(TableRows)]
    BY <1>1 DEF StoreInit
  <1>3. ASSUME NEW n \in DOMAIN indexes
        PROVE  indexes[n] \in Earlier /\ n = SqlIndexName(indexes[n].table, indexes[n].fields)
    <2>1. PICK S \in SUBSET Earlier :
            indexes = [m \in {SqlIndexName(x.table, x.fields) : x \in S} |->
                         CHOOSE x \in S : SqlIndexName(x.table, x.fields) = m]
      BY DEF StoreInit
    <2>2. n \in {SqlIndexName(x.table, x.fields) : x \in S}
      BY <2>1
    <2>3. PICK y \in S : SqlIndexName(y.table, y.fields) = n
      BY <2>2
    <2>4. indexes[n] = CHOOSE x \in S : SqlIndexName(x.table, x.fields) = n
      BY <2>1, <2>2
    <2>5. indexes[n] \in S /\ SqlIndexName(indexes[n].table, indexes[n].fields) = n
      BY <2>3, <2>4
    <2> QED
      BY <2>5
  <1>4. ASSUME NEW n \in DOMAIN indexes
        PROVE  /\ Named(n, indexes[n])
               /\ indexes[n].unique => Clean(rows[indexes[n].table], indexes[n])
    <2>1. Named(n, indexes[n])
      BY <1>3, IndexesAssumption DEF Named
    <2>2. indexes[n].unique => ~Duplicated(indexes[n].table, indexes[n])
      BY DEF StoreInit
    <2>3. rows[indexes[n].table] \in Seq(TableRows)
      BY <1>1, <2>1 DEF Named
    <2> QED
      BY <2>1, <2>2, <2>3, DuplicatedIs
  <1>5. asked = {} /\ connection = "closed"
    BY DEF StoreInit
  <1> QED
    BY <1>1, <1>2, <1>4, <1>5 DEF StoreInv, StoreTypeOK

LEMMA ConnectInv == StoreInv /\ Connect => StoreInv'
  BY DEF StoreInv, StoreTypeOK, Connect, Built, Named

LEMMA ConnectedInv == StoreInv /\ Connected => StoreInv'
  BY DEF StoreInv, StoreTypeOK, Connected, Built, Named

LEMMA CloseInv == StoreInv /\ Close => StoreInv'
  BY DEF StoreInv, StoreTypeOK, Close, Built, Named

LEMMA CreateIndexInv ==
  ASSUME StoreInv, NEW t \in Tables, NEW ix \in Unique[t], CreateIndex(t, ix)
  PROVE  StoreInv'
  <1>n. PICK name, def : name = SqlIndexName(t, ix.fields) /\ def = Definition(t, ix)
    OBVIOUS
  <1>1. connection = "connecting" /\ <<t, ix>> \notin asked /\ UNCHANGED rows
    BY DEF CreateIndex
  <1>2. rows[t] \in Seq(TableRows)
    BY DEF StoreInv, StoreTypeOK
  <1>3. <<t, ix>> \in Requests
    BY DEF Requests
  <1>4. def.table = t /\ def.fields = ix.fields /\ def.partial = ix.partial /\ def.unique
    BY <1>n DEF Definition
  <1>5. Named(name, def)
    BY <1>n, <1>4 DEF Named
  <1>6. ASSUME NEW u \in Tables, NEW iy \in Unique[u], SqlIndexName(u, iy.fields) = name
        PROVE  u = t /\ iy = ix
    BY <1>6, <1>n, IndexesAssumption DEF SqlIndexName
  <1>a. CASE /\ name \in DOMAIN indexes /\ indexes[name] = def
             /\ asked' = asked \cup {<<t, ix>>} /\ UNCHANGED <<indexes, connection>>
    <2>1. Built(t, ix)
      BY <1>a, <1>n DEF Built
    <2>2. \A u \in Tables : \A iy \in Unique[u] : <<u, iy>> \in asked' => Built(u, iy)
      BY <1>a, <2>1 DEF StoreInv
    <2>3. \A u \in Tables : \A iy \in Unique[u] : Built(u, iy)' <=> Built(u, iy)
      BY <1>a DEF Built
    <2>4. asked' \subseteq Requests
      BY <1>a, <1>3 DEF StoreInv, StoreTypeOK
    <2> QED
      BY <1>1, <1>a, <2>2, <2>3, <2>4 DEF StoreInv, StoreTypeOK, Named
  <1>b. CASE /\ ~Duplicated(t, def)
             /\ indexes' = [n \in DOMAIN indexes \cup {name} |->
                              IF n = name THEN def ELSE indexes[n]]
             /\ asked' = asked \cup {<<t, ix>>} /\ UNCHANGED connection
    <2>1. Clean(rows[t], def)
      BY <1>2, <1>b, DuplicatedIs
    <2>2. ASSUME NEW n \in DOMAIN indexes'
          PROVE  /\ Named(n, indexes'[n])
                 /\ indexes'[n].unique => Clean(rows[indexes'[n].table], indexes'[n])
      <3>1. CASE n = name
        BY <1>4, <1>5, <1>b, <2>1, <3>1
      <3>2. CASE n # name
        BY <1>b, <3>2 DEF StoreInv
      <3> QED
        BY <3>1, <3>2
    <2>3. ASSUME NEW u \in Tables, NEW iy \in Unique[u], <<u, iy>> \in asked'
          PROVE  Built(u, iy)'
      <3>1. CASE SqlIndexName(u, iy.fields) = name
        <4>1. u = t /\ iy = ix
          BY <1>6, <3>1
        <4> QED
          BY <1>b, <1>n, <4>1 DEF Built
      <3>2. CASE SqlIndexName(u, iy.fields) # name
        <4>1. <<u, iy>> \in asked
          BY <1>b, <1>n, <2>3, <3>2
        <4>2. Built(u, iy)
          BY <4>1 DEF StoreInv
        <4> QED
          BY <1>b, <3>2, <4>2 DEF Built
      <3> QED
        BY <3>1, <3>2
    <2>4. asked' \subseteq Requests
      BY <1>b, <1>3 DEF StoreInv, StoreTypeOK
    <2> QED
      BY <1>1, <1>b, <2>2, <2>3, <2>4 DEF StoreInv, StoreTypeOK, Named
  <1>c. CASE /\ indexes' = [n \in DOMAIN indexes \ {name} |-> indexes[n]]
             /\ connection' = "closed" /\ asked' = {}
    BY <1>1, <1>c DEF StoreInv, StoreTypeOK, Named
  <1>7. \/ /\ name \in DOMAIN indexes /\ indexes[name] = def
           /\ asked' = asked \cup {<<t, ix>>} /\ UNCHANGED <<indexes, connection>>
        \/ /\ ~Duplicated(t, def)
           /\ indexes' = [n \in DOMAIN indexes \cup {name} |->
                            IF n = name THEN def ELSE indexes[n]]
           /\ asked' = asked \cup {<<t, ix>>} /\ UNCHANGED connection
        \/ /\ indexes' = [n \in DOMAIN indexes \ {name} |-> indexes[n]]
           /\ connection' = "closed" /\ asked' = {}
    BY <1>n DEF CreateIndex
  <1> QED
    BY <1>7, <1>a, <1>b, <1>c

-----------------------------------------------------------------------------
(* A server that runs has every index it asks for, and no other.           *)

LEMMA EnforcedIs ==
  ASSUME StoreInv, connection = "ready", NEW t \in Tables
  PROVE  Enforced(t) = {Definition(t, ix) : ix \in Unique[t]}
  <1>1. ASSUME NEW ix \in Unique[t] PROVE Built(t, ix)
    <2>1. <<t, ix>> \in asked
      BY DEF StoreInv, Requests
    <2> QED
      BY <2>1 DEF StoreInv
  <1>2. ASSUME NEW x \in Enforced(t) PROVE \E ix \in Unique[t] : x = Definition(t, ix)
    <2>1. PICK n \in DOMAIN indexes : x = indexes[n] /\ x.table = t
      BY DEF Enforced
    <2>2. n = SqlIndexName(t, x.fields) /\ \E ix \in Unique[t] : ix.fields = x.fields
      BY <2>1 DEF StoreInv, Named
    <2>3. PICK ix \in Unique[t] : ix.fields = x.fields
      BY <2>2
    <2>4. indexes[n] = Definition(t, ix)
      BY <1>1, <2>2, <2>3 DEF Built
    <2> QED
      BY <2>1, <2>4
  <1>3. ASSUME NEW ix \in Unique[t] PROVE Definition(t, ix) \in Enforced(t)
    <2>1. Definition(t, ix).table = t /\ Definition(t, ix).unique
      BY DEF Definition
    <2> QED
      BY <1>1, <2>1 DEF Built, Enforced
  <1> QED
    BY <1>2, <1>3

LEMMA InvUnique == StoreInv => IdsAndNamesAreUnique
  <1> SUFFICES ASSUME StoreInv, connection = "ready", NEW t \in Tables, NEW ix \in Unique[t]
               PROVE  ~Duplicated(t, Definition(t, ix))
    BY DEF IdsAndNamesAreUnique
  <1>1. Definition(t, ix) \in Enforced(t)
    BY EnforcedIs
  <1>2. Clean(rows[t], Definition(t, ix))
    BY <1>1 DEF StoreInv, Enforced
  <1>3. rows[t] \in Seq(TableRows)
    BY DEF StoreInv, StoreTypeOK
  <1> QED
    BY <1>2, <1>3, DuplicatedIs

-----------------------------------------------------------------------------
(* The documents of a table, as the contract has them.                     *)

LEMMA TableIs ==
  ASSUME StoreInv, NEW t \in Tables
  PROVE  /\ rows[t] \in Seq(TableRows) /\ Distinct(rows[t])
         /\ Contract!Held(t) = DOMAIN AsDocuments(rows[t])
         /\ \A i \in Contract!Held(t) : \E k \in 1 .. Len(rows[t]) : i = rows[t][k].id
         /\ \A k \in 1 .. Len(rows[t]) : rows[t][k].id \in Contract!Held(t)
  <1>1. rows[t] \in Seq(TableRows) /\ Distinct(rows[t])
    BY DEF StoreInv, StoreTypeOK
  <1>2. Contract!Held(t) = DOMAIN AsDocuments(rows[t])
    BY DEF Contract!Held
  <1> QED
    BY <1>1, <1>2, AsDocumentsIs

\* What a filter finds.
LEMMA FoundIs ==
  ASSUME StoreInv, NEW t \in Tables, NEW flt, IsFilter(flt)
  PROVE  /\ \A k \in 1 .. Len(rows[t]) :
              Kept(rows[t][k].doc, flt) <=> rows[t][k].id \in Contract!Found(t, flt)
         /\ \A i \in Contract!Found(t, flt) :
              \E k \in 1 .. Len(rows[t]) : i = rows[t][k].id /\ Kept(rows[t][k].doc, flt)
  <1>1. \A i : i \in Contract!Found(t, flt) <=>
                 i \in Contract!Held(t) /\ Contract!Matches(AsDocuments(rows[t])[i], flt)
    BY DEF Contract!Found
  <1>2. ASSUME NEW k \in 1 .. Len(rows[t])
        PROVE  /\ Kept(rows[t][k].doc, flt)
                    <=> Contract!Matches(AsDocuments(rows[t])[rows[t][k].id], flt)
               /\ rows[t][k].id \in Contract!Held(t)
    <2>1. rows[t][k].doc \in LegalDocuments
      BY TableIs, RowIs
    <2>2. AsDocuments(rows[t])[rows[t][k].id] = rows[t][k].doc
      BY TableIs, AsDocumentsIs
    <2> QED
      BY <2>1, <2>2, KeptIs, TableIs
  <1> QED
    BY <1>1, <1>2, TableIs

\* O are the documents of a sequence of rows.
Holds(s, O) ==
  /\ \A k \in 1 .. Len(s) : s[k].doc \in O
  /\ \A e \in O : \E k \in 1 .. Len(s) : s[k].doc = e

\* What is refused is what must be refused.
LEMMA RejectedIs ==
  ASSUME StoreInv, connection = "ready", NEW t \in Tables, NEW d \in LegalDocuments,
         NEW others \in Seq(TableRows), NEW O, Holds(others, O)
  PROVE  /\ Rejected(t, others, d) <=> Contract!MustRefuse(O, d, t)
         /\ Rejected(t, others, d) => Contract!MayRefuse(O, d, t)
  <1>1. ASSUME NEW ix \in Unique[t]
        PROVE  Violates(others, d, Definition(t, ix)) <=>
                 /\ \A f \in ix.fields : ~Contract!Absent(d[f])
                 /\ \E e \in O : Contract!SameKey(d, e, ix)
    <2>1. \A k \in 1 .. Len(others) : others[k].doc \in LegalDocuments
      BY RowIs
    <2>2. \A k \in 1 .. Len(others) :
            SameColumns(others[k].doc, d, Definition(t, ix)) <=>
              /\ Contract!SameKey(d, others[k].doc, ix)
              /\ \A f \in ix.fields : ~Contract!Absent(d[f])
      BY <2>1, SameColumnsIs
    <2> QED
      BY <2>2 DEF Violates, Holds
  <1>2. Rejected(t, others, d) <=> \E ix \in Unique[t] : Violates(others, d, Definition(t, ix))
    BY EnforcedIs DEF Rejected
  <1>3. Rejected(t, others, d) <=> Contract!MustRefuse(O, d, t)
    BY <1>1, <1>2 DEF Contract!MustRefuse
  <1>4. Rejected(t, others, d) => Contract!MayRefuse(O, d, t)
    BY <1>1, <1>2 DEF Contract!MayRefuse
  <1> QED
    BY <1>3, <1>4

\* The other documents are those of the other rows.
LEMMA OthersAre ==
  ASSUME StoreInv, NEW t \in Tables, NEW k \in 1 .. Len(rows[t])
  PROVE  /\ RemoveAt(rows[t], k) \in Seq(TableRows)
         /\ Holds(RemoveAt(rows[t], k), Contract!Others(t, rows[t][k].id))
  <1>o. PICK others : others = RemoveAt(rows[t], k)
    OBVIOUS
  <1>s. PICK s : s = rows[t]
    OBVIOUS
  <1>1. s \in Seq(TableRows) /\ Distinct(s)
    BY <1>s, TableIs
  <1>2. PICK m : Selection(m, others, s, k)
    BY <1>1, <1>s, <1>o, Remaining
  <1>3. others \in Seq(TableRows)
    BY <1>1, <1>s, <1>o, RemoveAtIs
  <1>4. \A e : e \in Contract!Others(t, s[k].id) <=>
                 \E j \in Contract!Held(t) \ {s[k].id} : e = AsDocuments(s)[j]
    BY <1>s DEF Contract!Others
  <1>5. \A j \in 1 .. Len(s) : AsDocuments(s)[s[j].id] = s[j].doc /\ s[j].id \in Contract!Held(t)
    BY <1>1, <1>s, AsDocumentsIs, TableIs
  <1>6. ASSUME NEW j \in 1 .. Len(others)
        PROVE  others[j].doc \in Contract!Others(t, s[k].id)
    <2>1. others[j] = s[m[j]] /\ m[j] # k /\ m[j] \in 1 .. Len(s)
      BY <1>2 DEF Selection
    <2>2. s[m[j]].id # s[k].id
      BY <1>1, <1>s, <2>1 DEF Distinct
    <2> QED
      BY <1>4, <1>5, <2>1, <2>2
  <1>7. ASSUME NEW e \in Contract!Others(t, s[k].id)
        PROVE  \E j \in 1 .. Len(others) : others[j].doc = e
    <2>1. PICK i \in Contract!Held(t) \ {s[k].id} : e = AsDocuments(s)[i]
      BY <1>4
    <2>2. PICK n \in 1 .. Len(s) : i = s[n].id
      BY <1>s, <2>1, TableIs
    <2>3. n # k /\ e = s[n].doc
      BY <1>5, <2>1, <2>2
    <2>4. PICK j \in 1 .. Len(others) : m[j] = n
      BY <1>2, <2>3 DEF Selection
    <2> QED
      BY <1>2, <2>3, <2>4 DEF Selection
  <1>8. Holds(others, Contract!Others(t, s[k].id))
    BY <1>6, <1>7 DEF Holds
  <1> QED
    BY <1>s, <1>o, <1>3, <1>8

LEMMA AllAre ==
  ASSUME StoreInv, NEW t \in Tables, NEW i, i \notin Contract!Held(t)
  PROVE  Holds(rows[t], Contract!Others(t, i))
  <1>1. \A e : e \in Contract!Others(t, i) <=>
                 \E j \in Contract!Held(t) : e = AsDocuments(rows[t])[j]
    BY DEF Contract!Others
  <1>2. \A j \in 1 .. Len(rows[t]) : AsDocuments(rows[t])[rows[t][j].id] = rows[t][j].doc
    BY AsDocumentsIs, TableIs
  <1> QED
    BY <1>1, <1>2, TableIs DEF Holds

-----------------------------------------------------------------------------
(* One table changes.                                                      *)
LEMMA TableStep ==
  ASSUME StoreInv, NEW t \in Tables, NEW a \in Seq(TableRows), Distinct(a),
         \A x \in Enforced(t) : Clean(a, x),
         rows' = [rows EXCEPT ![t] = a], UNCHANGED <<indexes, asked, connection>>
  PROVE  StoreInv'
  <1>1. rows' \in [Tables -> Seq(TableRows)] /\ \A u \in Tables : rows'[u] = IF u = t THEN a ELSE rows[u]
    BY DEF StoreInv, StoreTypeOK
  <1>2. \A u \in Tables : Distinct(rows'[u])
    BY <1>1 DEF StoreInv
  <1>3. ASSUME NEW n \in DOMAIN indexes, indexes[n].unique
        PROVE  Clean(rows'[indexes[n].table], indexes[n])
    <2>1. indexes[n].table \in Tables /\ Clean(rows[indexes[n].table], indexes[n])
      BY <1>3 DEF StoreInv, Named
    <2>2. CASE indexes[n].table = t
      <3>1. indexes[n] \in Enforced(t)
        BY <1>3, <2>2 DEF Enforced
      <3> QED
        BY <1>1, <2>1, <2>2, <3>1
    <2>3. CASE indexes[n].table # t
      BY <1>1, <2>1, <2>3
    <2> QED
      BY <2>2, <2>3
  <1> QED
    BY <1>1, <1>2, <1>3 DEF StoreInv, StoreTypeOK, Named, Built

\* The contract's documents after a table's have changed.
LEMMA ContractStep ==
  ASSUME StoreInv, NEW t \in Tables, NEW a,
         rows' = [rows EXCEPT ![t] = a],
         NEW D, D = [u \in Tables |-> AsDocuments(rows[u])]
  PROVE  [u \in Tables |-> AsDocuments(rows'[u])] = [D EXCEPT ![t] = AsDocuments(a)]
  <1>1. \A u \in Tables : rows'[u] = IF u = t THEN a ELSE rows[u]
    BY DEF StoreInv, StoreTypeOK
  <1> QED
    BY <1>1

-----------------------------------------------------------------------------
(* A document put at an _id, or refused.                                   *)

LEMMA PutMade ==
  ASSUME StoreInv, NEW t \in Tables, NEW i, NEW d, NEW said,
         ~Contract!MustRefuse(Contract!Others(t, i), d, t),
         NEW a, AsDocuments(a) = With(AsDocuments(rows[t]), i, d),
         rows' = [rows EXCEPT ![t] = a], answer' = said
  PROVE  Contract!Put(t, i, d, said)
  <1>d. PICK D : D = [u \in Tables |-> AsDocuments(rows[u])]
    OBVIOUS
  <1>1. [u \in Tables |-> AsDocuments(rows'[u])] = [D EXCEPT ![t] = AsDocuments(a)]
    BY <1>d, ContractStep
  <1>2. D[t] = AsDocuments(rows[t]) /\ Contract!Held(t) = DOMAIN AsDocuments(rows[t])
    BY <1>d, TableIs
  <1>3. AsDocuments(a) = [j \in Contract!Held(t) \cup {i} |-> IF j = i THEN d ELSE D[t][j]]
    BY <1>2 DEF With
  <1>4. [u \in Tables |-> AsDocuments(rows'[u])] =
          [D EXCEPT ![t] = [j \in Contract!Held(t) \cup {i} |-> IF j = i THEN d ELSE D[t][j]]]
    BY <1>1, <1>3
  <1> QED
    BY <1>d, <1>4 DEF Contract!Put

LEMMA PutRefused ==
  ASSUME NEW t, NEW i, NEW d, NEW said,
         Contract!MayRefuse(Contract!Others(t, i), d, t),
         UNCHANGED rows, answer' = <<"duplicate">>
  PROVE  Contract!Put(t, i, d, said)
  BY DEF Contract!Put

\* A document more.
LEMMA InsertStep ==
  ASSUME StoreInv, connection = "ready", NEW t \in Tables, NEW d \in LegalDocuments,
         Insert(t, d)
  PROVE  StoreInv' /\ Contract!Insert(t, d)
  <1>1. PICK i \in Ids \ InUse(t) :
          IF Rejected(t, rows[t], d)
          THEN Said(<<"duplicate">>) /\ UNCHANGED rows
          ELSE /\ rows' = [rows EXCEPT ![t] = Append(@, [id |-> i, doc |-> d])]
               /\ Said(<<"inserted">>)
    BY DEF Insert
  <1>2. \A k \in 1 .. Len(rows[t]) : rows[t][k].id # i
    BY <1>1 DEF InUse
  <1>3. i \in Ids \ Contract!Held(t)
    BY <1>1, <1>2, TableIs
  <1>4. rows[t] \in Seq(TableRows) /\ Distinct(rows[t])
    BY TableIs
  <1>5. Holds(rows[t], Contract!Others(t, i))
    BY <1>3, AllAre
  <1>6. /\ Rejected(t, rows[t], d) <=> Contract!MustRefuse(Contract!Others(t, i), d, t)
        /\ Rejected(t, rows[t], d) => Contract!MayRefuse(Contract!Others(t, i), d, t)
    BY <1>4, <1>5, RejectedIs
  <1>7. CASE Rejected(t, rows[t], d)
    <2>1. UNCHANGED <<rows, indexes, asked, connection>> /\ answer' = <<"duplicate">>
      BY <1>1, <1>7 DEF Said
    <2>2. StoreInv'
      BY <2>1 DEF StoreInv, StoreTypeOK, Named, Built
    <2>3. Contract!Put(t, i, d, <<"inserted">>)
      BY <1>6, <1>7, <2>1, PutRefused
    <2> QED
      BY <1>3, <2>2, <2>3 DEF Contract!Insert
  <1>8. CASE ~Rejected(t, rows[t], d)
    <2>1. PICK a : a = Append(rows[t], [id |-> i, doc |-> d])
      OBVIOUS
    <2>2. rows' = [rows EXCEPT ![t] = a]
      BY <1>1, <1>8, <2>1
    <2>3. UNCHANGED <<indexes, asked, connection>> /\ answer' = <<"inserted">>
      BY <1>1, <1>8 DEF Said
    <2>4. /\ a \in Seq(TableRows) /\ Distinct(a)
          /\ AsDocuments(a) = With(AsDocuments(rows[t]), i, d)
          /\ \A x : Clean(rows[t], x) /\ ~Violates(rows[t], d, x) => Clean(a, x)
      BY <1>2, <1>3, <1>4, <2>1, Appended
    <2>5. \A x \in Enforced(t) : Clean(a, x)
      BY <1>8, <2>4 DEF Rejected, Enforced, StoreInv
    <2>6. StoreInv'
      BY <2>2, <2>3, <2>4, <2>5, TableStep
    <2>7. Contract!Put(t, i, d, <<"inserted">>)
      BY <1>6, <1>8, <2>2, <2>3, <2>4, PutMade
    <2> QED
      BY <1>3, <2>6, <2>7 DEF Contract!Insert
  <1> QED
    BY <1>7, <1>8

\* Another document in a row.
LEMMA ReplaceRowStep ==
  ASSUME StoreInv, connection = "ready", NEW t \in Tables, NEW k \in 1 .. Len(rows[t]),
         NEW d \in LegalDocuments, ReplaceRow(t, k, d)
  PROVE  StoreInv' /\ Contract!Put(t, rows[t][k].id, d, <<"matched", 1>>)
  <1>o. PICK others : others = RemoveAt(rows[t], k)
    OBVIOUS
  <1>i. PICK i : i = rows[t][k].id
    OBVIOUS
  <1>1. rows[t] \in Seq(TableRows) /\ Distinct(rows[t])
    BY TableIs
  <1>2. others \in Seq(TableRows) /\ Holds(others, Contract!Others(t, i))
    BY <1>o, <1>i, OthersAre
  <1>3. /\ Rejected(t, others, d) <=> Contract!MustRefuse(Contract!Others(t, i), d, t)
        /\ Rejected(t, others, d) => Contract!MayRefuse(Contract!Others(t, i), d, t)
    BY <1>2, RejectedIs
  <1>4. CASE Rejected(t, others, d)
    <2>1. UNCHANGED <<rows, indexes, asked, connection>> /\ answer' = <<"duplicate">>
      BY <1>4, <1>o DEF ReplaceRow, Said
    <2>2. StoreInv'
      BY <2>1 DEF StoreInv, StoreTypeOK, Named, Built
    <2> QED
      BY <1>3, <1>4, <1>i, <2>1, <2>2, PutRefused
  <1>5. CASE ~Rejected(t, others, d)
    <2>1. PICK a : a = [rows[t] EXCEPT ![k].doc = d]
      OBVIOUS
    <2>2. rows' = [rows EXCEPT ![t][k].doc = d]
      BY <1>5, <1>o DEF ReplaceRow
    <2>3. rows' = [rows EXCEPT ![t] = a]
      BY <2>1, <2>2
    <2>4. UNCHANGED <<indexes, asked, connection>> /\ answer' = <<"matched", 1>>
      BY <1>5, <1>o DEF ReplaceRow, Said
    <2>5. /\ a \in Seq(TableRows) /\ Distinct(a)
          /\ AsDocuments(a) = With(AsDocuments(rows[t]), i, d)
          /\ \A x : Clean(rows[t], x) /\ ~Violates(others, d, x) => Clean(a, x)
      <3>1. /\ a \in Seq(TableRows) /\ Distinct(a)
            /\ AsDocuments(a) = With(AsDocuments(rows[t]), rows[t][k].id, d)
            /\ \A x : Clean(rows[t], x) /\ ~Violates(RemoveAt(rows[t], k), d, x) => Clean(a, x)
        <4>r. PICK r : r = [id |-> rows[t][k].id, doc |-> d]
          OBVIOUS
        <4>1. rows[t][k] \in TableRows /\ r \in TableRows
          BY <1>1, <4>r, RowIs DEF TableRows
        <4>2. [rows[t][k] EXCEPT !.doc = d] = r
          BY <4>1, <4>r DEF TableRows
        <4>3. a = [rows[t] EXCEPT ![k] = r]
          BY <2>1, <4>2
        <4>4. /\ a \in Seq(TableRows) /\ Len(a) = Len(rows[t])
              /\ \A j \in 1 .. Len(rows[t]) : a[j] = IF j = k THEN r ELSE rows[t][j]
          BY <1>1, <4>1, <4>3, ExceptSeq
        <4>5. \A j \in 1 .. Len(rows[t]) :
                a[j] = IF j = k THEN [id |-> rows[t][k].id, doc |-> d] ELSE rows[t][j]
          BY <4>4, <4>r
        <4> QED
          BY <1>1, <4>4, <4>5, Replaced
      <3> QED
        BY <1>o, <1>i, <3>1
    <2>6. \A x \in Enforced(t) : Clean(a, x)
      BY <1>5, <2>5 DEF Rejected, Enforced, StoreInv
    <2>7. StoreInv'
      BY <2>3, <2>4, <2>5, <2>6, TableStep
    <2>8. Contract!Put(t, i, d, <<"matched", 1>>)
      BY <1>3, <1>5, <2>3, <2>4, <2>5, PutMade
    <2> QED
      BY <1>i, <2>7, <2>8
  <1> QED
    BY <1>4, <1>5

\* No row that the filter keeps, no document that it finds.
LEMMA NothingFound ==
  ASSUME StoreInv, NEW t \in Tables, NEW flt, IsFilter(flt)
  PROVE  /\ First(t, flt) = 0 => Contract!Found(t, flt) = {}
         /\ First(t, flt) # 0 =>
              /\ First(t, flt) \in 1 .. Len(rows[t])
              /\ rows[t][First(t, flt)].id \in Contract!Found(t, flt)
  <1>1. rows[t] \in Seq(TableRows)
    BY TableIs
  <1>2. 0 \notin 1 .. Len(rows[t])
    BY <1>1, LenProperties
  <1> QED
    BY <1>1, <1>2, FirstIs, FoundIs

LEMMA Unmoved ==
  ASSUME StoreInv, UNCHANGED <<rows, indexes, asked, connection>>
  PROVE  StoreInv' /\ UNCHANGED [t \in Tables |-> AsDocuments(rows[t])]
  BY DEF StoreInv, StoreTypeOK, Named, Built

\* An update that changes nothing would not be refused either.
LEMMA PutUnchanged ==
  ASSUME StoreInv, connection = "ready", NEW t \in Tables, NEW k \in 1 .. Len(rows[t])
  PROVE  /\ ~Contract!MustRefuse(Contract!Others(t, rows[t][k].id), rows[t][k].doc, t)
         /\ AsDocuments(rows[t]) = With(AsDocuments(rows[t]), rows[t][k].id, rows[t][k].doc)
  <1>s. PICK s : s = rows[t]
    OBVIOUS
  <1>o. PICK others : others = RemoveAt(rows[t], k)
    OBVIOUS
  <1>1. s \in Seq(TableRows) /\ Distinct(s)
    BY <1>s, TableIs
  <1>2. others \in Seq(TableRows) /\ Holds(others, Contract!Others(t, s[k].id))
    BY <1>s, <1>o, OthersAre
  <1>3. ~Rejected(t, others, s[k].doc)
    <2>1. PICK m : Selection(m, others, s, k)
      BY <1>1, <1>s, <1>o, Remaining
    <2>2. SUFFICES ASSUME NEW x \in Enforced(t) PROVE ~Violates(others, s[k].doc, x)
      BY DEF Rejected
    <2>3. Clean(s, x)
      BY <1>s DEF StoreInv, Enforced
    <2> QED
      BY <1>s, <2>1, <2>3 DEF Violates, Clean, Selection
  <1>4. s[k].doc \in LegalDocuments
    BY <1>s, <1>1, RowIs
  <1>5. ~Contract!MustRefuse(Contract!Others(t, s[k].id), s[k].doc, t)
    BY <1>2, <1>3, <1>4, RejectedIs
  <1>6. AsDocuments(s) = With(AsDocuments(s), s[k].id, s[k].doc)
    <2>1. /\ DOMAIN AsDocuments(s) = {s[j].id : j \in 1 .. Len(s)}
          /\ \A j \in 1 .. Len(s) : AsDocuments(s)[s[j].id] = s[j].doc
      BY <1>1, AsDocumentsIs
    <2>2. AsDocuments(s) = [j \in DOMAIN AsDocuments(s) |-> AsDocuments(s)[j]]
      BY DEF AsDocuments
    <2>3. s[k].id \in DOMAIN AsDocuments(s)
      BY <1>s, <2>1
    <2>4. DOMAIN AsDocuments(s) \cup {s[k].id} = DOMAIN AsDocuments(s)
      BY <2>3
    <2>5. AsDocuments(s)[s[k].id] = s[k].doc
      BY <1>s, <2>1
    <2> QED
      BY <2>2, <2>4, <2>5 DEF With
  <1> QED
    BY <1>s, <1>5, <1>6

LEMMA ChangedLegal ==
  ASSUME NEW t \in Tables, NEW u \in Updates[t], NEW d \in LegalDocuments
  PROVE  Changed(d, u) \in LegalDocuments /\ Contract!Changed(d, u) = Changed(d, u)
  <1>1. ASSUME NEW f \in Fields
        PROVE  Changed(d, u)[f] \in Values(f)
    <2>1. CASE f \in u.unset
      BY <2>1 DEF Changed, Values
    <2>2. CASE f \notin u.unset /\ f \in DOMAIN u.set
      BY <2>2, CallersAssumption DEF Changed
    <2>3. CASE f \notin u.unset /\ f \notin DOMAIN u.set
      BY <2>3 DEF Changed, LegalDocuments
    <2> QED
      BY <2>1, <2>2, <2>3
  <1>2. ASSUME NEW f \in Fields
        PROVE  Changed(d, u)[f] \in {NULL, Missing} \cup Booleans \cup Numbers \cup Texts
    BY <1>1 DEF Values
  <1>3. Changed(d, u) \in [Fields -> {NULL, Missing} \cup Booleans \cup Numbers \cup Texts]
    BY <1>2 DEF Changed
  <1>4. Contract!Changed(d, u) = Changed(d, u)
    BY DEF Changed, Contract!Changed, Missing, Contract!Missing
  <1> QED
    BY <1>1, <1>3, <1>4 DEF LegalDocuments

LEMMA UpdateOneStep ==
  ASSUME StoreInv, NEW t \in Tables, NEW flt \in Filters[t], NEW u \in Updates[t],
         UpdateOne(t, flt, u)
  PROVE  StoreInv' /\ Contract!UpdateOne(t, flt, u)
  <1>k. PICK k : k = First(t, flt)
    OBVIOUS
  <1>1. IsFilter(flt) /\ connection = "ready"
    BY CallersAssumption DEF UpdateOne
  <1>2. /\ k = 0 => Contract!Found(t, flt) = {}
        /\ k # 0 => k \in 1 .. Len(rows[t]) /\ rows[t][k].id \in Contract!Found(t, flt)
    BY <1>1, <1>k, NothingFound
  <1>3. CASE k = 0
    <2>1. UNCHANGED <<rows, indexes, asked, connection>> /\ answer' = <<"matched", 0>>
      BY <1>3, <1>k DEF UpdateOne, Said
    <2> QED
      BY <1>2, <1>3, <2>1, Unmoved DEF Contract!UpdateOne, Contract!None
  <1>4. CASE k # 0
    <2>1. k \in 1 .. Len(rows[t]) /\ rows[t][k].id \in Contract!Found(t, flt)
      BY <1>2, <1>4
    <2>d. PICK d, e : d = rows[t][k].doc /\ e = Changed(d, u)
      OBVIOUS
    <2>2. d \in LegalDocuments
      BY <2>1, <2>d, TableIs, RowIs
    <2>3. e \in LegalDocuments /\ Contract!Changed(d, u) = e
      BY <2>2, <2>d, ChangedLegal
    <2>4. StoreInv' /\ Contract!Put(t, rows[t][k].id, e, <<"matched", 1>>)
      <3>1. CASE e = d
        <4>1. UNCHANGED <<rows, indexes, asked, connection>> /\ answer' = <<"matched", 1>>
          BY <1>4, <1>k, <2>d, <3>1 DEF UpdateOne, Said
        <4>2. rows' = [rows EXCEPT ![t] = rows[t]]
          BY <4>1 DEF StoreInv, StoreTypeOK
        <4>3. /\ ~Contract!MustRefuse(Contract!Others(t, rows[t][k].id), d, t)
              /\ AsDocuments(rows[t]) = With(AsDocuments(rows[t]), rows[t][k].id, d)
          BY <1>1, <2>1, <2>d, PutUnchanged
        <4>4. Contract!Put(t, rows[t][k].id, d, <<"matched", 1>>)
          BY <4>1, <4>2, <4>3, PutMade
        <4> QED
          BY <3>1, <4>1, <4>4, Unmoved
      <3>2. CASE e # d
        <4>1. ReplaceRow(t, k, e)
          BY <1>4, <1>k, <2>d, <3>2 DEF UpdateOne
        <4> QED
          BY <1>1, <2>1, <2>3, <4>1, ReplaceRowStep
      <3> QED
        BY <3>1, <3>2
    <2>5. AsDocuments(rows[t])[rows[t][k].id] = d
      BY <2>1, <2>d, TableIs, AsDocumentsIs
    <2>6. Contract!Put(t, rows[t][k].id,
                       Contract!Changed([v \in Tables |-> AsDocuments(rows[v])][t][rows[t][k].id], u),
                       <<"matched", 1>>)
      BY <2>3, <2>4, <2>5
    <2> QED
      BY <2>1, <2>4, <2>6 DEF Contract!UpdateOne
  <1> QED
    BY <1>3, <1>4

LEMMA ReplaceStep ==
  ASSUME StoreInv, connection = "ready", NEW t \in Tables, NEW flt, IsFilter(flt),
         NEW d \in LegalDocuments, First(t, flt) # 0, ReplaceRow(t, First(t, flt), d)
  PROVE  StoreInv' /\ Contract!Replace(t, flt, d)
  <1>1. /\ First(t, flt) \in 1 .. Len(rows[t])
        /\ rows[t][First(t, flt)].id \in Contract!Found(t, flt)
    BY NothingFound
  <1> QED
    BY <1>1, ReplaceRowStep DEF Contract!Replace

LEMMA ReplaceOneStep ==
  ASSUME StoreInv, NEW t \in Tables, NEW flt \in Filters[t], NEW d \in Documents[t],
         ReplaceOne(t, flt, d)
  PROVE  StoreInv' /\ Contract!ReplaceOne(t, flt, d)
  <1>1. IsFilter(flt) /\ d \in LegalDocuments /\ connection = "ready"
    BY CallersAssumption DEF ReplaceOne
  <1>2. CASE First(t, flt) = 0
    <2>1. UNCHANGED <<rows, indexes, asked, connection>> /\ answer' = <<"matched", 0>>
      BY <1>2 DEF ReplaceOne, Said
    <2> QED
      BY <1>1, <1>2, <2>1, NothingFound, Unmoved DEF Contract!ReplaceOne, Contract!None
  <1>3. CASE First(t, flt) # 0
    BY <1>1, <1>3, ReplaceStep DEF ReplaceOne, Contract!ReplaceOne
  <1> QED
    BY <1>2, <1>3

LEMMA UpsertStep ==
  ASSUME StoreInv, UpsertsOK, NEW c \in Callers, NEW t \in Tables, NEW u \in Upserts[t],
         Upsert(c, t, u)
  PROVE  StoreInv' /\ UpsertsOK' /\ Contract!Upsert(c, t, u)
  <1>1. /\ IsFilter(u.filter) /\ u.doc \in LegalDocuments
        /\ connection = "ready" /\ upserts[c] = NoUpsert /\ NoUpsert = Contract!NoUpsert
    BY CallersAssumption DEF Upsert, NoUpsert, Contract!NoUpsert
  <1>2. CASE First(t, u.filter) # 0
    <2>1. ReplaceRow(t, First(t, u.filter), u.doc) /\ UNCHANGED upserts
      BY <1>2 DEF Upsert
    <2> QED
      BY <1>1, <1>2, <2>1, ReplaceStep DEF UpsertsOK, Contract!Upsert
  <1>3. CASE First(t, u.filter) = 0
    <2>1. /\ upserts' = [upserts EXCEPT ![c] = <<t, u>>]
          /\ UNCHANGED <<rows, indexes, asked, connection, answer>>
      BY <1>3 DEF Upsert
    <2>2. Contract!Found(t, u.filter) = {}
      BY <1>1, <1>3, NothingFound
    <2>3. <<t, u>> \in Pending
      BY DEF Pending
    <2> QED
      BY <1>1, <2>1, <2>2, <2>3, Unmoved DEF UpsertsOK, Contract!Upsert
  <1> QED
    BY <1>2, <1>3

LEMMA UpsertInsertsStep ==
  ASSUME StoreInv, UpsertsOK, NEW c \in Callers, UpsertInserts(c)
  PROVE  StoreInv' /\ UpsertsOK' /\ Contract!UpsertInserts(c)
  <1>1. /\ connection = "ready" /\ upserts[c] # NoUpsert
        /\ Insert(upserts[c][1], upserts[c][2].doc)
        /\ upserts' = [upserts EXCEPT ![c] = NoUpsert]
    BY DEF UpsertInserts
  <1>2. PICK t \in Tables : upserts[c] \in {t} \X Upserts[t]
    BY <1>1 DEF UpsertsOK, Pending
  <1>u. PICK u \in Upserts[t] : upserts[c] = <<t, u>>
    BY <1>2
  <1>3. u.doc \in LegalDocuments
    BY CallersAssumption
  <1>4. StoreInv' /\ Contract!Insert(t, u.doc)
    BY <1>1, <1>u, <1>3, InsertStep
  <1>5. UpsertsOK'
    BY <1>1 DEF UpsertsOK
  <1> QED
    BY <1>1, <1>u, <1>4, <1>5 DEF Contract!UpsertInserts, NoUpsert, Contract!NoUpsert

LEMMA DeleteOneStep ==
  ASSUME StoreInv, NEW t \in Tables, NEW flt \in Filters[t], DeleteOne(t, flt)
  PROVE  StoreInv' /\ Contract!DeleteOne(t, flt)
  <1>k. PICK k : k = First(t, flt)
    OBVIOUS
  <1>1. IsFilter(flt) /\ connection = "ready"
    BY CallersAssumption DEF DeleteOne
  <1>2. /\ k = 0 => Contract!Found(t, flt) = {}
        /\ k # 0 => k \in 1 .. Len(rows[t]) /\ rows[t][k].id \in Contract!Found(t, flt)
    BY <1>1, <1>k, NothingFound
  <1>3. CASE k = 0
    <2>1. UNCHANGED <<rows, indexes, asked, connection>> /\ answer' = <<"deleted", 0>>
      BY <1>3, <1>k DEF DeleteOne, Said
    <2> QED
      BY <1>2, <1>3, <2>1, Unmoved DEF Contract!DeleteOne, Contract!None
  <1>4. CASE k # 0
    <2>1. k \in 1 .. Len(rows[t]) /\ rows[t][k].id \in Contract!Found(t, flt)
      BY <1>2, <1>4
    <2>a. PICK a, i : a = RemoveAt(rows[t], k) /\ i = rows[t][k].id
      OBVIOUS
    <2>2. /\ rows' = [rows EXCEPT ![t] = a]
          /\ UNCHANGED <<indexes, asked, connection>> /\ answer' = <<"deleted", 1>>
      BY <1>4, <1>k, <2>a DEF DeleteOne, Said
    <2>3. /\ a \in Seq(TableRows) /\ Distinct(a)
          /\ AsDocuments(a) = Except(AsDocuments(rows[t]), i)
          /\ \A x : Clean(rows[t], x) => Clean(a, x)
      BY <2>1, <2>a, TableIs, Removed
    <2>4. \A x \in Enforced(t) : Clean(a, x)
      BY <2>3 DEF Enforced, StoreInv
    <2>5. StoreInv'
      BY <2>2, <2>3, <2>4, TableStep
    <2>d. PICK D : D = [u \in Tables |-> AsDocuments(rows[u])]
      OBVIOUS
    <2>6. [u \in Tables |-> AsDocuments(rows'[u])] = [D EXCEPT ![t] = AsDocuments(a)]
      BY <2>2, <2>d, ContractStep
    <2>7. AsDocuments(a) = [j \in Contract!Held(t) \ {i} |-> D[t][j]]
      BY <2>3, <2>d, TableIs DEF Except
    <2>8. [u \in Tables |-> AsDocuments(rows'[u])] =
            [D EXCEPT ![t] = [j \in Contract!Held(t) \ {i} |-> D[t][j]]]
      BY <2>6, <2>7
    <2> QED
      BY <2>1, <2>2, <2>5, <2>8, <2>a, <2>d DEF Contract!DeleteOne
  <1> QED
    BY <1>3, <1>4

LEMMA FindOneStep ==
  ASSUME StoreInv, NEW t \in Tables, NEW flt \in Filters[t], FindOne(t, flt)
  PROVE  StoreInv' /\ Contract!FindOne(t, flt)
  <1>k. PICK k : k = First(t, flt)
    OBVIOUS
  <1>1. IsFilter(flt)
    BY CallersAssumption
  <1>2. /\ k = 0 => Contract!Found(t, flt) = {}
        /\ k # 0 => k \in 1 .. Len(rows[t]) /\ rows[t][k].id \in Contract!Found(t, flt)
    BY <1>1, <1>k, NothingFound
  <1>3. /\ UNCHANGED <<rows, indexes, asked, connection>>
        /\ answer' = <<"found", Shown(t, {k} \ {0})>>
    BY <1>k DEF FindOne, Said
  <1>4. CASE k = 0
    <2>1. Shown(t, {k} \ {0}) = {}
      BY <1>4 DEF Shown
    <2> QED
      BY <1>2, <1>3, <1>4, <2>1, Unmoved DEF Contract!FindOne, Contract!None
  <1>5. CASE k # 0
    <2>1. Shown(t, {k} \ {0}) = {<<rows[t][k].id, rows[t][k].doc>>}
      BY <1>5 DEF Shown
    <2>2. AsDocuments(rows[t])[rows[t][k].id] = rows[t][k].doc
      BY <1>2, <1>5, TableIs, AsDocumentsIs
    <2> QED
      BY <1>2, <1>3, <1>5, <2>1, <2>2, Unmoved DEF Contract!FindOne
  <1> QED
    BY <1>4, <1>5

LEMMA FindStep ==
  ASSUME StoreInv, NEW t \in Tables, NEW flt \in Filters[t], Find(t, flt)
  PROVE  StoreInv' /\ Contract!Find(t, flt)
  <1>1. IsFilter(flt)
    BY CallersAssumption
  <1>k. PICK K : K = {k \in 1 .. Len(rows[t]) : Kept(rows[t][k].doc, flt)}
    OBVIOUS
  <1>2. UNCHANGED <<rows, indexes, asked, connection>> /\ answer' = <<"found", Shown(t, K)>>
    BY <1>k DEF Find, Said
  <1>d. PICK D : D = [u \in Tables |-> AsDocuments(rows[u])]
    OBVIOUS
  <1>3. Shown(t, K) = {<<i, D[t][i]>> : i \in Contract!Found(t, flt)}
    <2>1. \A k \in 1 .. Len(rows[t]) : D[t][rows[t][k].id] = rows[t][k].doc
      BY <1>d, TableIs, AsDocumentsIs
    <2>2. /\ \A k \in 1 .. Len(rows[t]) : k \in K <=> rows[t][k].id \in Contract!Found(t, flt)
          /\ \A i \in Contract!Found(t, flt) : \E k \in K : i = rows[t][k].id
      BY <1>1, <1>k, FoundIs
    <2>3. K \subseteq 1 .. Len(rows[t])
      BY <1>k
    <2>4. ASSUME NEW k \in K
          PROVE  \E i \in Contract!Found(t, flt) : <<rows[t][k].id, rows[t][k].doc>> = <<i, D[t][i]>>
      BY <2>1, <2>2, <2>3
    <2>5. ASSUME NEW i \in Contract!Found(t, flt)
          PROVE  \E k \in K : <<i, D[t][i]>> = <<rows[t][k].id, rows[t][k].doc>>
      BY <2>1, <2>2, <2>3
    <2> QED
      BY <2>4, <2>5 DEF Shown
  <1> QED
    BY <1>2, <1>3, <1>d, Unmoved DEF Contract!Find

-----------------------------------------------------------------------------
(* The theorems.                                                           *)

LEMMA CallStep ==
  ASSUME StoreInv, NEW t \in Tables, Call(t)
  PROVE  StoreInv' /\ Contract!Call(t) /\ UNCHANGED upserts
  <1>1. ASSUME NEW d \in Documents[t], InsertOne(t, d)
        PROVE  StoreInv' /\ Contract!Call(t) /\ UNCHANGED upserts
    <2>1. d \in LegalDocuments /\ connection = "ready" /\ Insert(t, d)
      BY <1>1, CallersAssumption DEF InsertOne
    <2>2. StoreInv' /\ Contract!Insert(t, d)
      BY <2>1, InsertStep
    <2> QED
      BY <1>1, <2>2 DEF InsertOne, Contract!Call
  <1>2. ASSUME NEW flt \in Filters[t], FindOne(t, flt)
        PROVE  StoreInv' /\ Contract!Call(t) /\ UNCHANGED upserts
    <2>1. StoreInv' /\ Contract!FindOne(t, flt)
      BY <1>2, FindOneStep
    <2> QED
      BY <1>2, <2>1 DEF FindOne, Contract!Call
  <1>3. ASSUME NEW flt \in Filters[t], Find(t, flt)
        PROVE  StoreInv' /\ Contract!Call(t) /\ UNCHANGED upserts
    <2>1. StoreInv' /\ Contract!Find(t, flt)
      BY <1>3, FindStep
    <2> QED
      BY <1>3, <2>1 DEF Find, Contract!Call
  <1>4. ASSUME NEW flt \in Filters[t], DeleteOne(t, flt)
        PROVE  StoreInv' /\ Contract!Call(t) /\ UNCHANGED upserts
    <2>1. StoreInv' /\ Contract!DeleteOne(t, flt)
      BY <1>4, DeleteOneStep
    <2> QED
      BY <1>4, <2>1 DEF DeleteOne, Contract!Call
  <1>5. ASSUME NEW flt \in Filters[t], NEW u \in Updates[t], UpdateOne(t, flt, u)
        PROVE  StoreInv' /\ Contract!Call(t) /\ UNCHANGED upserts
    <2>1. StoreInv' /\ Contract!UpdateOne(t, flt, u)
      BY <1>5, UpdateOneStep
    <2> QED
      BY <1>5, <2>1 DEF UpdateOne, Contract!Call
  <1>6. ASSUME NEW flt \in Filters[t], NEW d \in Documents[t], ReplaceOne(t, flt, d)
        PROVE  StoreInv' /\ Contract!Call(t) /\ UNCHANGED upserts
    <2>1. StoreInv' /\ Contract!ReplaceOne(t, flt, d)
      BY <1>6, ReplaceOneStep
    <2> QED
      BY <1>6, <2>1 DEF ReplaceOne, Contract!Call
  <1> QED
    BY <1>1, <1>2, <1>3, <1>4, <1>5, <1>6 DEF Call

\* The rows stay, and so do the documents: a step that the contract does not see.
LEMMA ContractStutters ==
  ASSUME UNCHANGED <<rows, answer, upserts>>
  PROVE  UNCHANGED <<[t \in Tables |-> AsDocuments(rows[t])], answer, upserts>>
  OBVIOUS

LEMMA StoreNextStep ==
  ASSUME StoreInv, UpsertsOK, [StoreNext]_store
  PROVE  /\ StoreInv' /\ UpsertsOK'
         /\ [Contract!Next]_<<[t \in Tables |-> AsDocuments(rows[t])], answer, upserts>>
  <1>1. CASE Connect
    BY <1>1, ConnectInv, ContractStutters DEF Connect, UpsertsOK
  <1>2. CASE Connected
    BY <1>2, ConnectedInv, ContractStutters DEF Connected, UpsertsOK
  <1>3. CASE Close
    <2>1. Contract!Restart
      BY <1>3 DEF Close, Contract!Restart, NoUpsert, Contract!NoUpsert
    <2>2. UpsertsOK'
      BY <1>3 DEF Close, UpsertsOK
    <2> QED
      BY <1>3, <2>1, <2>2, CloseInv DEF Contract!Next
  <1>4. ASSUME NEW t \in Tables, NEW ix \in Unique[t], CreateIndex(t, ix)
        PROVE  /\ StoreInv' /\ UpsertsOK'
               /\ [Contract!Next]_<<[u \in Tables |-> AsDocuments(rows[u])], answer, upserts>>
    <2>1. UNCHANGED <<rows, answer, upserts>>
      BY <1>4 DEF CreateIndex
    <2> QED
      BY <1>4, <2>1, CreateIndexInv, ContractStutters DEF UpsertsOK
  <1>5. ASSUME NEW t \in Tables, Call(t)
        PROVE  StoreInv' /\ UpsertsOK' /\ Contract!Next
    <2>1. StoreInv' /\ Contract!Call(t) /\ UNCHANGED upserts
      BY <1>5, CallStep
    <2> QED
      BY <2>1 DEF UpsertsOK, Contract!Next
  <1>6. ASSUME NEW c \in Callers, UpsertInserts(c)
        PROVE  StoreInv' /\ UpsertsOK' /\ Contract!Next
    <2>1. StoreInv' /\ UpsertsOK' /\ Contract!UpsertInserts(c)
      BY <1>6, UpsertInsertsStep
    <2> QED
      BY <2>1 DEF Contract!Next
  <1>7. ASSUME NEW c \in Callers, NEW t \in Tables, NEW u \in Upserts[t], Upsert(c, t, u)
        PROVE  StoreInv' /\ UpsertsOK' /\ Contract!Next
    <2>1. StoreInv' /\ UpsertsOK' /\ Contract!Upsert(c, t, u)
      BY <1>7, UpsertStep
    <2> QED
      BY <2>1 DEF Contract!Next
  <1>8. CASE UNCHANGED store
    <2>1. StoreInv' /\ UpsertsOK'
      BY <1>8 DEF store, StoreInv, StoreTypeOK, Named, Built, UpsertsOK
    <2> QED
      BY <1>8, <2>1, ContractStutters DEF store
  <1> QED
    BY <1>1, <1>2, <1>3, <1>4, <1>5, <1>6, <1>7, <1>8 DEF StoreNext

LEMMA StoreInitContract == StoreInit => Contract!Init
  <1> SUFFICES ASSUME StoreInit PROVE Contract!Init
    OBVIOUS
  <1>1. StoreInv
    BY StoreInitInv
  <1>2. ASSUME NEW t \in Tables
        PROVE  /\ Contract!Held(t) \subseteq Ids
               /\ \A i \in Contract!Held(t) :
                    DOMAIN [u \in Tables |-> AsDocuments(rows[u])][t][i] = Fields
    <2>1. ASSUME NEW i \in Contract!Held(t)
          PROVE  i \in Ids /\ DOMAIN AsDocuments(rows[t])[i] = Fields
      <3>1. PICK k \in 1 .. Len(rows[t]) : i = rows[t][k].id
        BY <1>1, TableIs
      <3>2. rows[t][k].id \in Ids /\ rows[t][k].doc \in LegalDocuments
        BY <1>1, TableIs, RowIs
      <3>3. AsDocuments(rows[t])[i] = rows[t][k].doc
        BY <1>1, <3>1, TableIs, AsDocumentsIs
      <3> QED
        BY <3>1, <3>2, <3>3 DEF LegalDocuments
    <2> QED
      BY <2>1
  <1>3. answer = <<"none">> /\ upserts = [c \in Callers |-> Contract!NoUpsert]
    BY DEF StoreInit, NoUpsert, Contract!NoUpsert
  <1> QED
    BY <1>2, <1>3 DEF Contract!Init

\* The rows of a table are legal documents under distinct ids, and a server that
\* runs has made the index requests of every collection (sqlitedb.py,
\* src/src/db.py `_ensure_indexes`); an upsert that has missed is one the callers make.
THEOREM StoreInvariant == StoreSpec => [](StoreInv /\ UpsertsOK)
  <1>1. StoreInit => UpsertsOK
    BY DEF StoreInit, UpsertsOK
  <1>2. StoreInv /\ UpsertsOK /\ [StoreNext]_store => StoreInv' /\ UpsertsOK'
    BY StoreNextStep
  <1> QED
    BY <1>1, <1>2, StoreInitInv, PTL DEF StoreSpec

\* No two live nodes of one name in a directory, no two documents of one id, in
\* any table of a server that runs, whatever was there before it started.
THEOREM UniqueInService == StoreSpec => []IdsAndNamesAreUnique
  BY StoreInvariant, InvUnique, PTL

\* Each call on SQLite is the call on the collection that the rest of the program
\* is written against, an upsert's look and its insert included, whatever other
\* calls run between the two; connecting, indexing and dying are no calls at all.
THEOREM StoreKeepsContract == StoreSpec => ContractKept
  <1>1. StoreInv /\ UpsertsOK /\ [StoreNext]_store
          => [Contract!Next]_<<[t \in Tables |-> AsDocuments(rows[t])], answer, upserts>>
    BY StoreNextStep
  <1> QED
    BY <1>1, StoreInitContract, StoreInvariant, PTL DEF StoreSpec, ContractKept, Contract!Spec

-----------------------------------------------------------------------------
(* The start of a server.                                                  *)


\* The keystore holds one record at most: the legacy record is moved, never
\* copied, and a key is made only if there is none.
OneRecord == \A i, j \in RecordIds : Stored(i) /\ Stored(j) => i = j

\* Past the sync, the account of the environment has its password.
Synced ==
  /\ pc # "down" => env \in Environments
  /\ pc \in {"adopt", "ensure", "bind", "listening"} =>
       users[env.user] # NoRow /\ users[env.user].password = env.password

\* Past ensure_usable, the account has the record, and its password opens it
\* unless the wrapping was spoilt.
Usable ==
  pc \in {"bind", "listening"} =>
    /\ Stored(Account(env.user))
    /\ keystore[Account(env.user)].password \in {env.password, NoPassword}

IInv == TypeOK /\ OneRecord /\ TreeKeyIsKept /\ Synced /\ Usable

-----------------------------------------------------------------------------
LEMMA Nothing ==
  /\ Legacy \notin Accounts /\ NoPassword \notin Passwords /\ NoKey \notin Keys
  /\ NoRow \notin Rows /\ NoRecord \notin Records /\ NoEnvironment \notin Environments
  BY NoneAssumption, RowsAssumption

LEMMA RecordTyped ==
  ASSUME TypeOK, NEW i \in RecordIds, Stored(i)
  PROVE  /\ keystore[i] \in Records /\ keystore[i].key \in Keys
         /\ keystore[i].password \in Passwords \cup {NoPassword}
  BY DEF TypeOK, Stored, Records

LEMMA AccountTyped ==
  ASSUME TypeOK, NEW u \in Usernames, users[u] # NoRow
  PROVE  /\ Account(u) \in Accounts /\ Account(u) \in RecordIds
         /\ users[u].password \in Passwords
  BY DEF TypeOK, Account, Rows, RecordIds

LEMMA EnvironmentTyped ==
  ASSUME NEW e \in Environments
  PROVE  /\ e.user \in Usernames /\ e.password \in Passwords /\ e.cost \in Costs
         /\ e.old \in Passwords \cup {NoPassword}
  BY DEF Environments

LEMMA WrappingTyped ==
  ASSUME NEW k \in Keys, NEW p \in Passwords, NEW c \in Costs, NEW r \in Wrappings(k, p, c)
  PROVE  r \in Records /\ r # NoRecord /\ r.key = k /\ r.password \in {p, NoPassword}
  BY Nothing DEF Wrappings, Records

\* While an account is synced: who it is.
LEMMA Syncing ==
  ASSUME IInv, pc \in {"adopt", "ensure", "bind", "listening"}
  PROVE  /\ env \in Environments /\ env.user \in Usernames
         /\ env.password \in Passwords /\ env.cost \in Costs
         /\ users[env.user] # NoRow /\ users[env.user].password = env.password
         /\ Account(env.user) \in Accounts /\ Account(env.user) \in RecordIds
<1>1. env \in Environments /\ users[env.user] # NoRow
      /\ users[env.user].password = env.password
  BY DEF IInv, Synced
<1> QED  BY <1>1, EnvironmentTyped, AccountTyped DEF IInv

\* The only record there is holds the tree's key, if there is a tree.
LEMMA TheRecord ==
  ASSUME IInv, NEW i \in RecordIds, Stored(i), rootKey # NoKey
  PROVE  keystore[i].key = rootKey /\ keystore[i].password # NoPassword
  BY DEF IInv, OneRecord, TreeKeyIsKept

-----------------------------------------------------------------------------
LEMMA InitInv == Init => IInv
<1> SUFFICES ASSUME Init PROVE IInv
  OBVIOUS
<1>1. CASE keystore = [i \in RecordIds |-> NoRecord] /\ rootKey = NoKey
  BY <1>1 DEF Init, IInv, TypeOK, Steps, OneRecord, TreeKeyIsKept, Synced, Usable, Stored
<1>2. ASSUME NEW k \in Keys, NEW p \in Passwords, NEW c \in Costs,
             keystore = [i \in RecordIds |->
               IF i = Legacy THEN [key |-> k, password |-> p, cost |-> c] ELSE NoRecord],
             rootKey = k
      PROVE  IInv
  <2>1. [key |-> k, password |-> p, cost |-> c] \in Records
    BY DEF Records
  <2>2. Legacy \in RecordIds
    BY DEF RecordIds
  <2>3. TypeOK
    BY <1>2, <2>1 DEF Init, TypeOK, Steps
  <2>4. OneRecord /\ TreeKeyIsKept
    BY <1>2, <2>1, <2>2, Nothing DEF OneRecord, TreeKeyIsKept, Stored
  <2>5. Synced /\ Usable
    BY DEF Init, Synced, Usable
  <2> QED  BY <2>3, <2>4, <2>5 DEF IInv
<1> QED  BY <1>1, <1>2 DEF Init

-----------------------------------------------------------------------------
(* Steps that write nothing.                                               *)

LEMMA RecordsAlone ==
  ASSUME IInv, UNCHANGED <<keystore, rootKey>>
  PROVE  OneRecord' /\ TreeKeyIsKept'
  BY DEF IInv, OneRecord, TreeKeyIsKept, Stored

LEMMA ExitInv == ASSUME IInv, Exit, UNCHANGED stored PROVE IInv'
<1>1. TypeOK' /\ Synced' /\ Usable'
  BY DEF IInv, TypeOK, Steps, Exit, stored, Synced, Usable
<1> QED  BY <1>1, RecordsAlone DEF IInv, stored

LEMMA StartInv == ASSUME IInv, Start PROVE IInv'
<1>1. TypeOK' /\ Synced' /\ Usable'
  BY DEF IInv, TypeOK, Steps, Start, stored, Synced, Usable
<1> QED  BY <1>1, RecordsAlone DEF IInv, Start, stored

LEMMA ReachInv == ASSUME IInv, Reach PROVE IInv'
<1>1. CASE pc' = "sync" /\ UNCHANGED env
  <2>1. TypeOK' /\ Synced' /\ Usable'
    BY <1>1 DEF IInv, TypeOK, Steps, Reach, stored, Synced, Usable
  <2> QED  BY <2>1, RecordsAlone DEF IInv, Reach, stored
<1> QED  BY <1>1, ExitInv DEF Reach

LEMMA BindInv == ASSUME IInv, Bind PROVE IInv'
<1>1. CASE pc' = "listening" /\ UNCHANGED env
  <2>1. TypeOK' /\ Synced'
    BY <1>1 DEF IInv, TypeOK, Steps, Bind, stored, Synced
  <2>2. Usable'
    BY <1>1 DEF IInv, Bind, stored, Usable, Stored, Account
  <2> QED  BY <2>1, <2>2, RecordsAlone DEF IInv, Bind, stored
<1> QED  BY <1>1, ExitInv DEF Bind

-----------------------------------------------------------------------------
(* The accounts.                                                           *)

LEMMA SyncInv == ASSUME IInv, SyncEnvUser PROVE IInv'
<1> DEFINE u == env.user
<1>1. env \in Environments /\ u \in Usernames /\ env.password \in Passwords
  BY EnvironmentTyped DEF IInv, Synced, SyncEnvUser
<1>2. PICK row \in Rows : users' = [users EXCEPT ![u] = row] /\ row.password = env.password
  <2>1. CASE users[u] = NoRow
    <3>1. PICK i \in FreshAccounts :
            users' = [users EXCEPT ![u] = [id |-> i, password |-> env.password]]
      BY <2>1 DEF SyncEnvUser
    <3>2. [id |-> i, password |-> env.password] \in Rows
      BY <1>1 DEF FreshAccounts, Rows
    <3> QED  BY <3>1, <3>2
  <2>2. CASE users[u] # NoRow
    <3>1. users[u] \in Rows
      BY <2>2, <1>1 DEF IInv, TypeOK
    <3>2. users' = [users EXCEPT ![u] = [users[u] EXCEPT !.password = env.password]]
      BY <2>2 DEF SyncEnvUser
    <3>3. [users[u] EXCEPT !.password = env.password] \in Rows
      BY <3>1, <1>1 DEF Rows
    <3> QED  BY <3>1, <3>2, <3>3, <1>1 DEF Rows
  <2> QED  BY <2>1, <2>2
<1>3. users'[u] = row
  BY <1>1, <1>2 DEF IInv, TypeOK
<1>4. TypeOK'
  BY <1>2 DEF IInv, TypeOK, SyncEnvUser, Steps
<1>5. Synced' /\ Usable'
  BY <1>1, <1>2, <1>3, Nothing DEF IInv, SyncEnvUser, Synced, Usable
<1> QED  BY <1>4, <1>5, RecordsAlone DEF IInv, SyncEnvUser

LEMMA OperatorInv == ASSUME IInv, Operator PROVE IInv'
<1>1. users' \in [Usernames -> Rows \cup {NoRow}] /\ backup' \in [Usernames -> SUBSET Rows]
  BY DEF IInv, TypeOK, Operator, LoseUsers, RestoreRow
<1>2. pc = "down" /\ UNCHANGED <<keystore, rootKey, pc, env>>
  BY DEF Operator, LoseUsers, RestoreRow
<1>3. TypeOK' /\ Synced' /\ Usable'
  BY <1>1, <1>2 DEF IInv, TypeOK, Synced, Usable
<1> QED  BY <1>2, <1>3, RecordsAlone DEF IInv

-----------------------------------------------------------------------------
(* The keystore.                                                           *)

\* A record that moves to the account, or replaces what the account has.
LEMMA MoveKeeps ==
  ASSUME IInv, NEW i \in Accounts, ~Stored(i), Stored(Legacy),
         keystore' = [keystore EXCEPT ![i] = keystore[Legacy], ![Legacy] = NoRecord],
         UNCHANGED rootKey
  PROVE  /\ keystore' \in [RecordIds -> Records \cup {NoRecord}]
         /\ OneRecord' /\ TreeKeyIsKept'
<1>1. i \in RecordIds /\ Legacy \in RecordIds /\ i # Legacy
  BY Nothing DEF RecordIds
<1>2. /\ keystore' \in [RecordIds -> Records \cup {NoRecord}]
      /\ keystore'[i] = keystore[Legacy] /\ keystore'[Legacy] = NoRecord
      /\ \A j \in RecordIds \ {i, Legacy} : keystore'[j] = keystore[j]
  BY <1>1 DEF IInv, TypeOK
<1>3. \A j \in RecordIds \ {Legacy} : ~Stored(j)
  BY <1>1 DEF IInv, OneRecord
<1>4. \A j \in RecordIds : keystore'[j] # NoRecord => j = i
  BY <1>1, <1>2, <1>3 DEF Stored
<1>5. OneRecord'
  BY <1>4 DEF OneRecord, Stored
<1>6. TreeKeyIsKept'
  <2> SUFFICES ASSUME rootKey' # NoKey
               PROVE  /\ keystore'[i] # NoRecord /\ keystore'[i].key = rootKey'
                      /\ keystore'[i].password # NoPassword
    BY <1>1 DEF TreeKeyIsKept, Stored
  <2> QED  BY <1>1, <1>2, TheRecord DEF Stored
<1> QED  BY <1>2, <1>5, <1>6

LEMMA WriteKeeps ==
  ASSUME IInv, NEW i \in RecordIds, \A j \in RecordIds : Stored(j) => j = i,
         NEW r \in Records, keystore' = [keystore EXCEPT ![i] = r],
         rootKey # NoKey => r.key = rootKey /\ r.password # NoPassword,
         UNCHANGED rootKey
  PROVE  /\ keystore' \in [RecordIds -> Records \cup {NoRecord}]
         /\ OneRecord' /\ TreeKeyIsKept' /\ keystore'[i] = r /\ r # NoRecord
<1>1. /\ keystore' \in [RecordIds -> Records \cup {NoRecord}] /\ keystore'[i] = r
      /\ \A j \in RecordIds \ {i} : keystore'[j] = keystore[j]
  BY DEF IInv, TypeOK
<1>2. r # NoRecord
  BY Nothing
<1>3. OneRecord'
  BY <1>1 DEF OneRecord, Stored
<1>4. TreeKeyIsKept'
  BY <1>1, <1>2 DEF TreeKeyIsKept, Stored
<1> QED  BY <1>1, <1>2, <1>3, <1>4 DEF Stored

LEMMA AdoptInv == ASSUME IInv, Adopt PROVE IInv'
<1> DEFINE i == Account(env.user)
<1>1. /\ pc = "adopt" /\ pc' = "ensure" /\ UNCHANGED <<users, backup, rootKey, env>>
      /\ i \in Accounts /\ env \in Environments
  BY Syncing DEF Adopt
<1>2. Synced' /\ Usable'
  BY <1>1 DEF IInv, Synced, Usable
<1>3. CASE ~Stored(i) /\ Stored(Legacy)
  <2>1. keystore' = [keystore EXCEPT ![i] = keystore[Legacy], ![Legacy] = NoRecord]
    BY <1>3 DEF Adopt
  <2> HIDE DEF i
  <2>2. keystore' \in [RecordIds -> Records \cup {NoRecord}] /\ OneRecord' /\ TreeKeyIsKept'
    BY <1>1, <1>3, <2>1, MoveKeeps
  <2> QED  BY <1>1, <1>2, <2>2 DEF IInv, TypeOK, Steps
<1>4. CASE ~(~Stored(i) /\ Stored(Legacy))
  <2>1. UNCHANGED keystore
    BY <1>4 DEF Adopt
  <2>2. TypeOK'
    BY <1>1, <2>1 DEF IInv, TypeOK, Steps
  <2> QED  BY <1>1, <1>2, <2>1, <2>2, RecordsAlone DEF IInv
<1> QED  BY <1>3, <1>4

\* A step of ensure_usable that ends in a usable record.
LEMMA BoundInv ==
  ASSUME IInv, pc = "ensure", pc' = "bind", UNCHANGED <<users, backup, rootKey, env>>,
         keystore' \in [RecordIds -> Records \cup {NoRecord}], OneRecord', TreeKeyIsKept',
         Stored(Account(env.user))',
         keystore'[Account(env.user)].password \in {env.password, NoPassword}
  PROVE  IInv'
<1>1. TypeOK' /\ Synced'
  BY DEF IInv, TypeOK, Steps, Synced
<1>2. Usable'
  BY DEF Usable, Account, Stored
<1> QED  BY <1>1, <1>2 DEF IInv

LEMMA BootstrapInv == ASSUME IInv, Bootstrap PROVE IInv'
<1> DEFINE i == Account(env.user)
<1>1. /\ pc = "ensure" /\ pc' = "bind" /\ UNCHANGED <<users, backup, rootKey, env>>
      /\ \A j \in RecordIds : ~Stored(j)
  BY DEF Bootstrap
<1>2. env.password \in Passwords /\ env.cost \in Costs /\ i \in RecordIds
  BY <1>1, Syncing
<1>8. PICK k \in Keys : \E r \in Wrappings(k, env.password, env.cost) :
        keystore' = [keystore EXCEPT ![i] = r]
  BY DEF Bootstrap, FreshKeys
<1>3. PICK r \in Wrappings(k, env.password, env.cost) :
        keystore' = [keystore EXCEPT ![i] = r]
  BY <1>8
<1>4. r \in Records /\ r.password \in {env.password, NoPassword}
  BY <1>2, WrappingTyped
<1>5. rootKey = NoKey
  BY <1>1 DEF IInv, TreeKeyIsKept
<1> HIDE DEF i
<1>6. /\ keystore' \in [RecordIds -> Records \cup {NoRecord}]
      /\ OneRecord' /\ TreeKeyIsKept' /\ keystore'[i] = r /\ r # NoRecord
  BY <1>1, <1>2, <1>3, <1>4, <1>5, WriteKeeps
<1>7. Stored(Account(env.user))'
  BY <1>1, <1>6 DEF i, Account, Stored
<1> QED  BY <1>1, <1>4, <1>6, <1>7, BoundInv DEF i

\* A wrapping that is replaced is one that was opened.
LEMMA ReplaceInv ==
  ASSUME IInv, pc = "ensure", Stored(Account(env.user)),
         ReplaceWrapping(keystore[Account(env.user)].key),
         UNCHANGED <<users, backup, rootKey>>
  PROVE  IInv'
<1> DEFINE i == Account(env.user)
           k == keystore[i].key
<1>1. env.password \in Passwords /\ env.cost \in Costs /\ i \in RecordIds
  BY Syncing
<1>2. k \in Keys
  BY <1>1, RecordTyped DEF IInv
<1>3. PICK r \in Wrappings(k, env.password, env.cost) :
        \/ /\ r.password = env.password /\ keystore' = [keystore EXCEPT ![i] = r]
           /\ pc' = "bind" /\ UNCHANGED env
        \/ Exit /\ UNCHANGED keystore
  BY DEF ReplaceWrapping
<1>4. CASE Exit /\ UNCHANGED keystore
  BY <1>4, ExitInv DEF stored
<1>5. CASE /\ r.password = env.password /\ keystore' = [keystore EXCEPT ![i] = r]
           /\ pc' = "bind" /\ UNCHANGED env
  <2>1. r \in Records /\ r.key = k /\ r.password \in Passwords
    BY <1>1, <1>2, <1>5, WrappingTyped
  <2>2. rootKey # NoKey => k = rootKey
    BY <1>1, TheRecord
  <2>3. r.password # NoPassword /\ \A j \in RecordIds : Stored(j) => j = i
    BY <2>1, <1>1, Nothing DEF IInv, OneRecord
  <2> HIDE DEF i, k
  <2>4. /\ keystore' \in [RecordIds -> Records \cup {NoRecord}]
        /\ OneRecord' /\ TreeKeyIsKept' /\ keystore'[i] = r /\ r # NoRecord
    BY <1>1, <1>5, <2>1, <2>2, <2>3, WriteKeeps
  <2>5. Stored(Account(env.user))'
    BY <1>5, <2>4 DEF i, Account, Stored
  <2> QED  BY <1>5, <2>4, <2>5, BoundInv DEF i
<1> QED  BY <1>3, <1>4, <1>5

LEMMA UseRecordInv == ASSUME IInv, UseRecord PROVE IInv'
<1> DEFINE i == Account(env.user)
<1>1. /\ pc = "ensure" /\ Stored(i) /\ keystore[i].password = env.password
      /\ UNCHANGED <<users, backup, rootKey>>
  BY DEF UseRecord, Opens
<1>2. CASE env.upgrade /\ keystore[i].cost # env.cost
  BY <1>1, <1>2, ReplaceInv DEF UseRecord
<1>3. CASE ~(env.upgrade /\ keystore[i].cost # env.cost)
  <2>1. pc' = "bind" /\ UNCHANGED <<keystore, env>>
    BY <1>3 DEF UseRecord
  <2>2. Stored(Account(env.user))'
    BY <1>1, <2>1 DEF Account, Stored
  <2>3. OneRecord' /\ TreeKeyIsKept'
    BY <1>1, <2>1, RecordsAlone
  <2> QED  BY <1>1, <2>1, <2>2, <2>3, BoundInv DEF IInv, TypeOK
<1> QED  BY <1>2, <1>3

LEMMA OpeningInv == ASSUME IInv, Opening PROVE IInv'
<1>1. ASSUME Rewrap PROVE IInv'
  BY <1>1, ReplaceInv DEF Rewrap
<1>2. ASSUME RefuseOrphan \/ RefusePassword PROVE IInv'
  BY <1>2, ExitInv DEF RefuseOrphan, RefusePassword
<1> QED  BY <1>1, <1>2, BootstrapInv, UseRecordInv DEF Opening

-----------------------------------------------------------------------------
\* The first login makes the tree, with the one key there is and the configured
\* password.
LEMMA LoginInv ==
  ASSUME IInv, NEW u \in Usernames, NEW p \in Passwords, Login(u, p)
  PROVE  IInv'
<1> DEFINE i == Account(u)
<1>1. /\ users[u] # NoRow /\ Opens(i, p) /\ rootKey' = keystore[i].key
      /\ pc = "listening" /\ UNCHANGED <<users, backup, keystore, pc, env>>
  BY DEF Login, Opened
<1>2. i \in RecordIds /\ Stored(i) /\ keystore[i].password = p
  BY <1>1, AccountTyped DEF IInv, Opens
<1>3. keystore[i].key \in Keys /\ p # NoPassword
  BY <1>2, RecordTyped, Nothing DEF IInv
<1>4. TypeOK' /\ Synced'
  BY <1>1, <1>3 DEF IInv, TypeOK, Synced
<1>5. OneRecord' /\ Usable'
  BY <1>1 DEF IInv, OneRecord, Usable, Stored, Account
<1>6. TreeKeyIsKept'
  BY <1>1, <1>2, <1>3 DEF TreeKeyIsKept, Stored
<1> QED  BY <1>4, <1>5, <1>6 DEF IInv

LEMMA NextInv == ASSUME IInv, [Next]_vars PROVE IInv'
<1>1. CASE UNCHANGED vars
  BY <1>1, RecordsAlone DEF vars, stored, IInv, TypeOK, Synced, Usable, Stored, Account
<1>2. CASE Starting
  BY <1>2, StartInv, ReachInv, SyncInv, AdoptInv, OpeningInv, BindInv DEF Starting
<1>3. CASE Die
  BY <1>3, ExitInv DEF Die
<1>4. CASE Operator
  BY <1>4, OperatorInv
<1>5. ASSUME NEW u \in Usernames, NEW p \in Passwords, Login(u, p) PROVE IInv'
  BY <1>5, LoginInv
<1> QED  BY <1>1, <1>2, <1>3, <1>4, <1>5 DEF Next

LEMMA Invariant == Spec => []IInv
  BY InitInv, NextInv, PTL DEF Spec

-----------------------------------------------------------------------------
\* Every variable keeps its type (src/src/keystore.py:58).
THEOREM TypeCorrect == Spec => []TypeOK
<1>1. IInv => TypeOK
  BY DEF IInv
<1> QED  BY <1>1, Invariant, PTL

\* Whatever passwords, costs, crashes, lost and restored accounts: no start of
\* the server leaves a tree without a usable wrapping of its key
\* (src/src/keystore.py:180).
THEOREM TheKeyIsNeverLost == Spec => []TreeKeyIsKept
<1>1. IInv => TreeKeyIsKept
  BY DEF IInv
<1> QED  BY <1>1, Invariant, PTL

\* Nobody who logs in is handed a key other than the tree's
\* (src/src/keystore.py:237).
THEOREM OneKey == Spec => []NobodyHoldsAnotherKey
<1>1. IInv => NobodyHoldsAnotherKey
  <2> SUFFICES ASSUME IInv, NEW u \in Usernames, NEW p \in Passwords,
                      rootKey # NoKey, Opened(u, p) # NoKey
               PROVE  Opened(u, p) = rootKey
    BY DEF NobodyHoldsAnotherKey
  <2>1. /\ users[u] # NoRow /\ Stored(Account(u))
        /\ Opened(u, p) = keystore[Account(u)].key
    BY DEF Opened, Opens
  <2> QED  BY <2>1, AccountTyped, TheRecord DEF IInv
<1> QED  BY <1>1, Invariant, PTL

\* A server that listens can be logged in to with the password it was started
\* with, and that opens the tree (src/src/main.py:163).
THEOREM ListeningIsUseful == Spec => []ListeningOpensTheTree
<1>1. IInv => ListeningOpensTheTree
  <2> SUFFICES ASSUME IInv, pc = "listening" PROVE ListeningOpensTheTree
    BY DEF ListeningOpensTheTree
  <2>1. /\ env.password \in Passwords /\ users[env.user] # NoRow
        /\ users[env.user].password = env.password
        /\ Account(env.user) \in RecordIds
    BY Syncing
  <2>2. /\ Stored(Account(env.user))
        /\ keystore[Account(env.user)].password \in {env.password, NoPassword}
    BY DEF IInv, Usable
  <2>3. ASSUME rootKey # NoKey PROVE Opened(env.user, env.password) = rootKey
    BY <2>1, <2>2, <2>3, TheRecord DEF Opened, Opens
  <2> QED  BY <2>1, <2>3 DEF ListeningOpensTheTree
<1> QED  BY <1>1, Invariant, PTL

-----------------------------------------------------------------------------
(* Signing in: the sessions and their keys, and the guesses of a burst.    *)

Deadline(n, ceiling) == n \in Nat \ {0} /\ n <= ceiling

\* The sessions and what they were granted.
Record == [age : Nat, idle : Nat, ageMax : Nat, idleMax : Nat]
SessionsOK ==
  /\ sinceSweep \in Nat
  /\ sessions \in [SessionIds -> Record \cup {NoSession}]
  /\ \A i \in SessionIds : Live(i) =>
       /\ Deadline(sessions[i].ageMax, AbsoluteCeiling)
       /\ Deadline(sessions[i].idleMax, IdleCeiling)

\* A session is past a deadline of its own by no more than the time since the
\* sweeper last looked.
Overdue ==
  \A i \in SessionIds : Live(i) =>
    /\ sessions[i].age < sessions[i].ageMax + sinceSweep
    /\ sessions[i].idle < sessions[i].idleMax + sinceSweep

OnTime == sinceSweep <= SweepInterval

SessionsInv == SessionsOK /\ Overdue /\ OnTime

\* Whatever a client asks for, it gets a window that can elapse and no more than
\* the ceiling.
LEMMA ClampedIsBounded ==
  ASSUME NEW wish \in Lifetimes, NEW ceiling \in Nat \ {0}
  PROVE  Deadline(Clamped(wish, ceiling), ceiling)
  BY LimitsAssumption DEF Clamped, Smaller, Deadline

LEMMA Ceilings ==
  /\ IdleCeiling \in Nat \ {0} /\ AbsoluteCeiling \in Nat \ {0} /\ SweepInterval \in Nat \ {0}
  /\ IdleCeiling <= AbsoluteCeiling
  BY LimitsAssumption

\* A session that only lost its place, or was used, is as well off as before.
LEMMA KeptSessions ==
  ASSUME SessionsInv, UNCHANGED sinceSweep,
         sessions' \in [SessionIds -> Record \cup {NoSession}],
         \A i \in SessionIds : Live(i)' =>
           /\ Live(i)
           /\ sessions'[i].age = sessions[i].age /\ sessions'[i].ageMax = sessions[i].ageMax
           /\ sessions'[i].idleMax = sessions[i].idleMax
           /\ sessions'[i].idle = sessions[i].idle \/ sessions'[i].idle = 0
  PROVE  SessionsInv'
  <1>1. SessionsOK'
    BY DEF SessionsInv, SessionsOK, Deadline
  <1>2. Overdue'
    BY DEF SessionsInv, SessionsOK, Deadline, Overdue, Record, Live
  <1>3. OnTime'
    BY DEF SessionsInv, OnTime
  <1> QED
    BY <1>1, <1>2, <1>3 DEF SessionsInv

\* What the sweeper leaves is as it was, and past no deadline.
LEMMA SweptIs ==
  ASSUME NEW i \in SessionIds, Swept[i] # NoSession
  PROVE  Live(i) /\ Swept[i] = sessions[i] /\ ~Expired(sessions[i])
  BY DEF Swept, Live

LEMMA LoginInitInv == LoginInit => SessionsInv
  BY LimitsAssumption DEF LoginInit, SessionsInv, SessionsOK, Overdue, OnTime, Live

LEMMA EnterInv ==
  ASSUME SessionsInv, NEW t \in Tasks, Enter(t)
  PROVE  SessionsInv'
  <1>1. PICK i \in SessionIds, idle \in Lifetimes, age \in Lifetimes :
          LET ageMax == Clamped(age, AbsoluteCeiling) IN
          sessions' = [Swept EXCEPT ![i] =
            [age |-> 0, idle |-> 0, ageMax |-> ageMax,
             idleMax |-> Smaller(Clamped(idle, IdleCeiling), ageMax)]]
    BY DEF Enter
  <1> DEFINE ageMax == Clamped(age, AbsoluteCeiling)
             idleMax == Smaller(Clamped(idle, IdleCeiling), ageMax)
  <1>2. Deadline(ageMax, AbsoluteCeiling) /\ Deadline(idleMax, IdleCeiling)
    BY ClampedIsBounded, Ceilings DEF Deadline, Smaller
  <1>3. sessions' = [Swept EXCEPT ![i] = [age |-> 0, idle |-> 0, ageMax |-> ageMax,
                                          idleMax |-> idleMax]]
    BY <1>1
  <1> HIDE DEF ageMax, idleMax
  <1>4. /\ sessions'[i].age = 0 /\ sessions'[i].idle = 0
        /\ sessions'[i].ageMax = ageMax /\ sessions'[i].idleMax = idleMax
    BY <1>3 DEF Swept
  <1>5. \A k \in SessionIds : k # i /\ Live(k)' => Live(k) /\ sessions'[k] = sessions[k]
    <2> SUFFICES ASSUME NEW k \in SessionIds, k # i, Live(k)'
                 PROVE  Live(k) /\ sessions'[k] = sessions[k]
      OBVIOUS
    <2>1. sessions'[k] = Swept[k]
      BY <1>3 DEF Swept
    <2> QED
      BY <2>1, SweptIs DEF Live
  <1>6. sinceSweep' = sinceSweep
    BY DEF Enter
  <1>7. SessionsOK'
    <2>1. Swept \in [SessionIds -> Record \cup {NoSession}]
      BY DEF Swept, SessionsInv, SessionsOK
    <2>2. [age |-> 0, idle |-> 0, ageMax |-> ageMax, idleMax |-> idleMax] \in Record
      BY <1>2 DEF Record, Deadline
    <2>3. sessions' \in [SessionIds -> Record \cup {NoSession}]
      BY <1>3, <2>1, <2>2
    <2> QED
      BY <1>2, <1>4, <1>5, <1>6, <2>3 DEF SessionsInv, SessionsOK
  <1>8. Overdue'
    BY <1>2, <1>4, <1>5, <1>6 DEF SessionsInv, SessionsOK, Overdue, Deadline, Record, Live
  <1> QED
    BY <1>6, <1>7, <1>8 DEF SessionsInv, OnTime

\* Using, ending and revoking sessions, and everything the guard does.
LEMMA BrowseInv ==
  ASSUME SessionsInv, NEW i \in SessionIds, Use(i) \/ Logout(i) \/ RevokeOthers(i)
  PROVE  SessionsInv'
  <1>1. UNCHANGED sinceSweep
    BY DEF Use, Logout, RevokeOthers
  <1>2. sessions \in [SessionIds -> Record \cup {NoSession}]
    BY DEF SessionsInv, SessionsOK
  <1>3. Live(i) /\ sessions[i] \in Record
    BY <1>2 DEF Use, Logout, RevokeOthers, Live
  <1>4. [sessions[i] EXCEPT !.idle = 0] \in Record
    BY <1>3 DEF Record
  <1>5. \A k \in SessionIds :
          \/ sessions'[k] \in {sessions[k], NoSession}
          \/ k = i /\ sessions'[k] = [sessions[i] EXCEPT !.idle = 0]
    BY <1>2 DEF Use, Logout, RevokeOthers, Touched
  <1>6. sessions' \in [SessionIds -> Record \cup {NoSession}]
    <2>1. DOMAIN sessions' = SessionIds /\ sessions' = [k \in SessionIds |-> sessions'[k]]
      BY <1>2 DEF Use, Logout, RevokeOthers, Touched
    <2>2. \A k \in SessionIds : sessions'[k] \in Record \cup {NoSession}
      BY <1>2, <1>4, <1>5
    <2> QED
      BY <2>1, <2>2
  <1>7. ASSUME NEW k \in SessionIds, Live(k)'
        PROVE  /\ Live(k)
               /\ sessions'[k].age = sessions[k].age /\ sessions'[k].ageMax = sessions[k].ageMax
               /\ sessions'[k].idleMax = sessions[k].idleMax
               /\ sessions'[k].idle = sessions[k].idle \/ sessions'[k].idle = 0
    BY <1>3, <1>5, <1>7 DEF Live, Record
  <1> QED
    BY <1>1, <1>6, <1>7, KeptSessions

LEMMA SweepInv ==
  ASSUME SessionsInv, Sweep
  PROVE  SessionsInv'
  <1>1. sessions' = Swept /\ sinceSweep' = 0
    BY DEF Sweep
  <1>2. \A i \in SessionIds : Live(i)' =>
          Live(i) /\ sessions'[i] = sessions[i] /\ ~Expired(sessions[i])
    BY <1>1, SweptIs DEF Live
  <1>3. SessionsOK'
    <2>1. Swept \in [SessionIds -> Record \cup {NoSession}]
      BY DEF Swept, SessionsInv, SessionsOK
    <2> QED
      BY <1>1, <1>2, <2>1 DEF SessionsInv, SessionsOK
  <1>4. Overdue'
    BY <1>1, <1>2 DEF SessionsInv, SessionsOK, Overdue, Expired, Deadline, Record, Live
  <1> QED
    BY <1>1, <1>3, <1>4, Ceilings DEF SessionsInv, OnTime

LEMMA TickInv ==
  ASSUME SessionsInv, Tick
  PROVE  SessionsInv'
  <1>1. sinceSweep' = sinceSweep + 1 /\ sinceSweep < SweepInterval
    BY DEF Tick
  <1>2. ASSUME NEW i \in SessionIds, Live(i)'
        PROVE  /\ Live(i)
               /\ sessions'[i] = [sessions[i] EXCEPT !.age = @ + 1, !.idle = @ + 1]
    BY <1>2 DEF Tick, Live
  <1>3. sinceSweep \in Nat
    BY DEF SessionsInv, SessionsOK
  <1>4. ASSUME NEW i \in SessionIds, Live(i)'
        PROVE  /\ Live(i)
               /\ sessions'[i].age = sessions[i].age + 1
               /\ sessions'[i].idle = sessions[i].idle + 1
               /\ sessions'[i].ageMax = sessions[i].ageMax
               /\ sessions'[i].idleMax = sessions[i].idleMax
    <2>1. sessions[i] \in Record
      BY <1>2, <1>4 DEF SessionsInv, SessionsOK, Live
    <2> QED
      BY <1>2, <1>4, <2>1 DEF Record
  <1>5. SessionsOK'
    <2>1. \A i \in SessionIds : Live(i) =>
            [sessions[i] EXCEPT !.age = @ + 1, !.idle = @ + 1] \in Record
      <3> SUFFICES ASSUME NEW i \in SessionIds, Live(i)
                   PROVE  [sessions[i] EXCEPT !.age = @ + 1, !.idle = @ + 1] \in Record
        OBVIOUS
      <3>1. sessions[i] \in Record
        BY DEF SessionsInv, SessionsOK, Live
      <3>2. sessions[i].age + 1 \in Nat /\ sessions[i].idle + 1 \in Nat
        BY <3>1 DEF Record
      <3> QED
        BY <3>1, <3>2 DEF Record
    <2>2. sessions' \in [SessionIds -> Record \cup {NoSession}]
      BY <2>1 DEF Tick
    <2> QED
      BY <1>1, <1>3, <1>4, <2>2 DEF SessionsInv, SessionsOK
  <1>6. Overdue'
    BY <1>1, <1>3, <1>4 DEF SessionsInv, SessionsOK, Deadline, Overdue, Record, Live
  <1>7. OnTime'
    BY <1>1, <1>3, Ceilings DEF OnTime
  <1> QED
    BY <1>5, <1>6, <1>7 DEF SessionsInv

\* No key stays in memory past the ceilings of the server by more than the
\* interval of the sweeper, for any ceilings and any use of the sessions.
THEOREM KeysDoNotLinger == LoginSpec => []KeysAreForgotten
  <1>1. LoginInit => SessionsInv
    BY LoginInitInv
  <1>2. SessionsInv /\ [LoginNext]_loginVars => SessionsInv'
    <2> SUFFICES ASSUME SessionsInv, [LoginNext]_loginVars PROVE SessionsInv'
      OBVIOUS
    <2>1. CASE UNCHANGED sessionStore
      BY <2>1 DEF sessionStore, SessionsInv, SessionsOK, Overdue, OnTime, Live
    <2>2. ASSUME NEW t \in Tasks, Attempt(t)
          PROVE  SessionsInv'
      <3>1. CASE Enter(t)
        BY <3>1, EnterInv
      <3>2. CASE ~Enter(t)
        <4>1. UNCHANGED sessionStore
          BY <2>2, <3>2 DEF Attempt, ArriveLocked, Arrive, TakeSlot, Refuse, Accept, TreeFails
        <4> QED
          BY <2>1, <4>1
      <3> QED
        BY <3>1, <3>2
    <2>3. CASE Browse
      BY <2>3, BrowseInv DEF Browse
    <2>4. CASE Restart
      BY <2>4, Ceilings DEF Restart, SessionsInv, SessionsOK, Overdue, OnTime, Live
    <2>5. CASE UNCHANGED loginVars
      BY <2>1, <2>5 DEF loginVars
    <2> QED
      BY <2>2, <2>3, <2>4, <2>5, SweepInv, TickInv DEF LoginNext
  <1>3. SessionsInv => KeysAreForgotten
    <2> SUFFICES ASSUME SessionsInv, NEW i \in SessionIds, Live(i)
                 PROVE  /\ sessions[i].age < AbsoluteCeiling + SweepInterval
                        /\ sessions[i].idle < IdleCeiling + SweepInterval
      BY DEF KeysAreForgotten
    <2>1. /\ sessions[i].age < sessions[i].ageMax + sinceSweep
          /\ sessions[i].idle < sessions[i].idleMax + sinceSweep
          /\ sessions[i].age \in Nat /\ sessions[i].idle \in Nat /\ sinceSweep \in Nat
          /\ sessions[i].ageMax \in Nat /\ sessions[i].ageMax <= AbsoluteCeiling
          /\ sessions[i].idleMax \in Nat /\ sessions[i].idleMax <= IdleCeiling
          /\ sinceSweep <= SweepInterval
      BY DEF SessionsInv, SessionsOK, Overdue, OnTime, Deadline, Record, Live
    <2> QED
      BY <2>1, Ceilings
  <1> QED
    BY <1>1, <1>2, <1>3, PTL DEF LoginSpec
-----------------------------------------------------------------------------
(* The guard.                                                              *)

GuardTyped ==
  /\ pair \in [Sources -> Counters \cup {NoCounter}]
  /\ address \in [Addresses -> Counters \cup {NoCounter}]
  /\ request \in [Tasks -> Attempts]
  /\ \A t \in Tasks : request[t].pc # "none" => request[t].source \in Sources
  /\ late \in [Sources -> Nat]

\* The semaphore and its queue hold no more than they are made for.
SlotsKept ==
  /\ IsFiniteSet(In("waiting")) /\ Cardinality(In("waiting")) <= Queue
  /\ IsFiniteSet(In("deriving")) /\ Cardinality(In("deriving")) <= Concurrency

\* Attempts of a source that are past the check and not yet counted.
Uncounted(s) ==
  {t \in Tasks : request[t].pc \in {"waiting", "deriving"} /\ request[t].source = s}

\* What was tried during a lock-out and what is still to be tried were all past
\* the check when it began; the attempt that began it has been counted.
Spent(s) ==
  IF LockedOut(s) THEN late[s] + Cardinality(Uncounted(s)) < Concurrency + Queue
  ELSE late[s] = 0

GuardInv == GuardTyped /\ SlotsKept /\ \A s \in Sources : Spent(s)

LEMMA Limits ==
  /\ Concurrency \in Nat \ {0} /\ Queue \in Nat \ {0} /\ MaxFailures \in Nat \ {0}
  /\ DeviceThreshold \in Nat \ {0} /\ AddressThreshold \in Nat \ {0}
  /\ BaseLockout \in Nat \ {0} /\ MaxLockout \in Nat \ {0} /\ ForgetAfter \in Nat \ {0}
  BY LimitsAssumption

\* A power of two counts the subsets of a set, of which there is one at least.
LEMMA PowerIsPositive ==
  ASSUME NEW n \in Nat
  PROVE  2 ^ n \in Nat \ {0}
  <1>1. IsFiniteSet(1 .. n) /\ Cardinality(1 .. n) = n
    BY FS_Interval
  <1>2. IsFiniteSet(SUBSET (1 .. n)) /\ Cardinality(SUBSET (1 .. n)) = 2 ^ n
    BY <1>1, FS_SUBSET
  <1>3. {} \in SUBSET (1 .. n)
    OBVIOUS
  <1>4. Cardinality(SUBSET (1 .. n)) # 0
    BY <1>2, <1>3, FS_EmptySet
  <1> QED
    BY <1>2, <1>4, FS_CardinalityType

\* A lock-out lasts, and no longer than the longest.
LEMMA PenaltyIs ==
  ASSUME NEW n \in Nat, NEW threshold \in Nat, n >= threshold
  PROVE  Penalty(n, threshold) \in 1 .. MaxLockout
  <1>1. PICK factor : factor = 2 ^ (n - threshold)
    OBVIOUS
  <1>2. factor \in Nat \ {0}
    <2>1. n - threshold \in Nat
      OBVIOUS
    <2> QED
      BY <1>1, <2>1, PowerIsPositive
  <1>3. PICK span : span = BaseLockout * factor
    OBVIOUS
  <1>4. span \in Nat \ {0}
    BY <1>2, <1>3, Limits
  <1> QED
    BY <1>1, <1>3, <1>4, Limits DEF Penalty, Smaller

\* A failure is counted, and never lifts a lock.
LEMMA FailedIs ==
  ASSUME NEW c \in Counters \cup {NoCounter}, NEW threshold \in Nat
  PROVE  Failed(c, threshold) \in Counters /\ (Locks(c) => Locks(Failed(c, threshold)))
  <1>1. PICK n : n = IF c = NoCounter THEN 1 ELSE Smaller(c.failures + 1, MaxFailures)
    OBVIOUS
  <1>2. PICK before : before = IF c = NoCounter THEN 0 ELSE c.locked
    OBVIOUS
  <1>3. PICK locked : locked = IF n >= threshold THEN Penalty(n, threshold) ELSE before
    OBVIOUS
  <1>4. n \in 1 .. MaxFailures /\ before \in 0 .. MaxLockout /\ (Locks(c) => before > 0)
    BY <1>1, <1>2, Limits DEF Counters, Smaller, Locks
  <1>5. locked \in 0 .. MaxLockout /\ (Locks(c) => locked > 0)
    BY <1>3, <1>4, PenaltyIs, Limits
  <1>6. Failed(c, threshold) = [failures |-> n, quiet |-> 0, locked |-> locked]
    BY <1>1, <1>2, <1>3 DEF Failed
  <1>7. Failed(c, threshold) \in Counters
    BY <1>4, <1>5, <1>6, Limits DEF Counters
  <1> QED
    BY <1>5, <1>6, <1>7, NullAssumption DEF Locks

\* Only counters that lock nothing are forgotten.
LEMMA RememberedIs ==
  ASSUME NEW S, NEW f \in [S -> Counters \cup {NoCounter}]
  PROVE  /\ Remembered(f) \in [S -> Counters \cup {NoCounter}]
         /\ \A k \in S : Locks(Remembered(f)[k]) <=> Locks(f[k])
  BY NullAssumption DEF Remembered, Stale, Locks, Counters

\* Time locks nobody out.
LEMMA AgedIs ==
  ASSUME NEW c \in Counters \cup {NoCounter}
  PROVE  Aged(c) \in Counters \cup {NoCounter} /\ (Locks(Aged(c)) => Locks(c))
  <1>1. CASE c = NoCounter
    BY <1>1 DEF Aged
  <1>2. CASE c # NoCounter
    <2>1. c \in Counters
      BY <1>2
    <2>2. PICK quiet, locked : /\ quiet = Smaller(c.quiet + 1, ForgetAfter + 1)
                               /\ locked = IF c.locked > 0 THEN c.locked - 1 ELSE 0
      OBVIOUS
    <2>3. Aged(c) = [c EXCEPT !.quiet = quiet, !.locked = locked]
      BY <1>2, <2>2 DEF Aged
    <2>4. quiet \in 0 .. ForgetAfter + 1 /\ locked \in 0 .. MaxLockout
      BY <2>1, <2>2, Limits DEF Counters, Smaller
    <2>5. Aged(c) = [failures |-> c.failures, quiet |-> quiet, locked |-> locked]
      BY <2>1, <2>3 DEF Counters
    <2> QED
      BY <1>2, <2>1, <2>2, <2>4, <2>5, Limits DEF Counters, Locks
  <1> QED
    BY <1>1, <1>2

\* However many tasks there are, what is uncounted fits the slots.
LEMMA UncountedFits ==
  ASSUME GuardTyped, SlotsKept, NEW s \in Sources
  PROVE  /\ IsFiniteSet(Uncounted(s)) /\ Cardinality(Uncounted(s)) \in Nat
         /\ Cardinality(Uncounted(s)) <= Concurrency + Queue
         /\ \A t \in Tasks : request[t].pc = "deriving" /\ t \notin Uncounted(s)
              => Cardinality(Uncounted(s)) < Concurrency + Queue
  <1> DEFINE all == In("waiting") \cup In("deriving")
  <1>1. IsFiniteSet(all) /\ Cardinality(all) <= Concurrency + Queue /\ Cardinality(all) \in Nat
    <2>1. Cardinality(In("waiting") \cap In("deriving")) \in Nat
      BY FS_Intersection, FS_CardinalityType DEF SlotsKept
    <2>2. /\ IsFiniteSet(all)
          /\ Cardinality(all) = Cardinality(In("waiting")) + Cardinality(In("deriving"))
                                  - Cardinality(In("waiting") \cap In("deriving"))
      BY FS_Union DEF SlotsKept
    <2>3. Cardinality(In("waiting")) \in Nat /\ Cardinality(In("deriving")) \in Nat
      BY FS_CardinalityType DEF SlotsKept
    <2> QED
      BY <2>1, <2>2, <2>3, FS_CardinalityType, Limits DEF SlotsKept
  <1>2. Uncounted(s) \subseteq all
    BY DEF Uncounted, In
  <1>3. /\ IsFiniteSet(Uncounted(s)) /\ Cardinality(Uncounted(s)) <= Cardinality(all)
        /\ (Cardinality(all) = Cardinality(Uncounted(s)) => all = Uncounted(s))
    BY <1>1, <1>2, FS_Subset
  <1>4. Cardinality(Uncounted(s)) \in Nat
    BY <1>3, FS_CardinalityType
  <1>5. ASSUME NEW t \in Tasks, request[t].pc = "deriving", t \notin Uncounted(s)
        PROVE  Cardinality(Uncounted(s)) < Concurrency + Queue
    <2>1. t \in all
      BY <1>5 DEF In
    <2>2. Cardinality(Uncounted(s)) # Cardinality(all)
      BY <1>3, <1>5, <2>1
    <2> QED
      BY <1>1, <1>3, <1>4, <2>2, Limits
  <1> QED
    BY <1>1, <1>3, <1>4, <1>5, Limits

\* A source for which nothing got worse: no lock begins, no attempt is added.
LEMMA NoWorse ==
  ASSUME GuardInv, NEW s \in Sources, LockedOut(s)' => LockedOut(s),
         LockedOut(s) => Uncounted(s)' \subseteq Uncounted(s),
         late'[s] = IF LockedOut(s)' THEN late[s] ELSE 0
  PROVE  Spent(s)'
  <1>1. CASE LockedOut(s)'
    <2>1. LockedOut(s) /\ Uncounted(s)' \subseteq Uncounted(s) /\ late'[s] = late[s]
      BY <1>1
    <2>2. /\ IsFiniteSet(Uncounted(s)) /\ Cardinality(Uncounted(s)) \in Nat
          /\ late[s] + Cardinality(Uncounted(s)) < Concurrency + Queue /\ late[s] \in Nat
      BY <2>1, UncountedFits DEF GuardInv, Spent, GuardTyped
    <2>3. /\ Cardinality(Uncounted(s)') <= Cardinality(Uncounted(s))
          /\ Cardinality(Uncounted(s)') \in Nat
      BY <2>1, <2>2, FS_Subset, FS_CardinalityType
    <2>4. late'[s] + Cardinality(Uncounted(s)') < Concurrency + Queue
      BY <2>1, <2>2, <2>3, Limits
    <2> QED
      BY <1>1, <2>4 DEF Spent
  <1>2. CASE ~LockedOut(s)'
    BY <1>2 DEF Spent
  <1> QED
    BY <1>1, <1>2
\* One task moves.
LEMMA Moving ==
  ASSUME GuardTyped, NEW t \in Tasks, NEW r \in Attempts,
         request' = [request EXCEPT ![t] = r], r.pc # "none" => r.source \in Sources
  PROVE  /\ request' \in [Tasks -> Attempts]
         /\ \A u \in Tasks : request'[u].pc # "none" => request'[u].source \in Sources
         /\ request'[t] = r /\ \A u \in Tasks \ {t} : request'[u] = request[u]
         /\ \A at : In(at)' = IF r.pc = at THEN In(at) \cup {t} ELSE In(at) \ {t}
         /\ \A s \in Sources : Uncounted(s)' \subseteq Uncounted(s) \cup {t}
         /\ \A s \in Sources : t \in Uncounted(s)' =>
              r.pc \in {"waiting", "deriving"} /\ r.source = s
  <1>1. /\ request' \in [Tasks -> Attempts]
        /\ request'[t] = r /\ \A u \in Tasks \ {t} : request'[u] = request[u]
    BY DEF GuardTyped
  <1>2. \A u \in Tasks : request'[u].pc # "none" => request'[u].source \in Sources
    BY <1>1 DEF GuardTyped
  <1>3. \A at : In(at)' = IF r.pc = at THEN In(at) \cup {t} ELSE In(at) \ {t}
    BY <1>1 DEF In
  <1>4. \A s \in Sources : /\ Uncounted(s)' \subseteq Uncounted(s) \cup {t}
                           /\ t \in Uncounted(s)' =>
                                r.pc \in {"waiting", "deriving"} /\ r.source = s
    BY <1>1 DEF Uncounted
  <1> QED
    BY <1>1, <1>2, <1>3, <1>4

\* A task that leaves what it was at, for something that takes no slot.
LEMMA Leaving ==
  ASSUME GuardInv, NEW t \in Tasks, NEW r \in Attempts,
         request' = [request EXCEPT ![t] = r], r.pc \in {"none", "tree"},
         r.pc # "none" => r.source \in Sources
  PROVE  SlotsKept' /\ \A s \in Sources : Uncounted(s)' \subseteq Uncounted(s) \ {t}
  <1>1. GuardTyped /\ SlotsKept
    BY DEF GuardInv
  <1>6. /\ \A at : In(at)' = IF r.pc = at THEN In(at) \cup {t} ELSE In(at) \ {t}
        /\ \A s \in Sources : Uncounted(s)' \subseteq Uncounted(s) \cup {t}
        /\ \A s \in Sources : t \in Uncounted(s)' =>
             r.pc \in {"waiting", "deriving"} /\ r.source = s
    BY <1>1, Moving, Zenon
  <1>2. \A at \in {"waiting", "deriving"} : In(at)' = In(at) \ {t}
    BY <1>6
  <1>3. \A s \in Sources : Uncounted(s)' \subseteq Uncounted(s) \ {t}
    BY <1>6
  <1>4. \A at \in {"waiting", "deriving"} :
          /\ IsFiniteSet(In(at)') /\ Cardinality(In(at)') <= Cardinality(In(at))
          /\ Cardinality(In(at)') \in Nat /\ Cardinality(In(at)) \in Nat
    <2> SUFFICES ASSUME NEW at \in {"waiting", "deriving"}
                 PROVE  /\ IsFiniteSet(In(at) \ {t}) /\ Cardinality(In(at) \ {t}) \in Nat
                        /\ Cardinality(In(at) \ {t}) <= Cardinality(In(at))
                        /\ Cardinality(In(at)) \in Nat
      BY <1>2
    <2>1. IsFiniteSet(In(at))
      BY <1>1 DEF SlotsKept
    <2> QED
      BY <2>1, FS_Subset, FS_CardinalityType
  <1>5. SlotsKept'
    BY <1>1, <1>4, Limits DEF SlotsKept
  <1> QED
    BY <1>3, <1>5

\* The counters forget what locks nothing, or nothing.
LEMMA SameLocks ==
  ASSUME GuardInv, UNCHANGED late,
         \/ UNCHANGED <<pair, address>>
         \/ pair' = Remembered(pair) /\ address' = Remembered(address)
  PROVE  /\ pair' \in [Sources -> Counters \cup {NoCounter}]
         /\ address' \in [Addresses -> Counters \cup {NoCounter}]
         /\ \A s \in Sources : /\ LockedOut(s)' <=> LockedOut(s)
                               /\ late'[s] = IF LockedOut(s)' THEN late[s] ELSE 0
  <1>1. \A s \in Sources : s[1] \in Addresses
    BY DEF Sources
  <1>2. /\ pair \in [Sources -> Counters \cup {NoCounter}]
        /\ address \in [Addresses -> Counters \cup {NoCounter}]
    BY DEF GuardInv, GuardTyped
  <1>3. /\ pair' \in [Sources -> Counters \cup {NoCounter}]
        /\ address' \in [Addresses -> Counters \cup {NoCounter}]
        /\ \A s \in Sources : /\ Locks(pair'[s]) <=> Locks(pair[s])
                              /\ Locks(address'[s[1]]) <=> Locks(address[s[1]])
    <2>1. CASE UNCHANGED <<pair, address>>
      BY <1>2, <2>1
    <2>2. CASE pair' = Remembered(pair) /\ address' = Remembered(address)
      <3>1. /\ Remembered(pair) \in [Sources -> Counters \cup {NoCounter}]
            /\ \A s \in Sources : Locks(Remembered(pair)[s]) <=> Locks(pair[s])
        BY <1>2, RememberedIs
      <3>2. /\ Remembered(address) \in [Addresses -> Counters \cup {NoCounter}]
            /\ \A a \in Addresses : Locks(Remembered(address)[a]) <=> Locks(address[a])
        BY <1>2, RememberedIs
      <3> QED
        BY <1>1, <2>2, <3>1, <3>2
    <2> QED
      BY <2>1, <2>2
  <1>4. \A s \in Sources : LockedOut(s)' <=> LockedOut(s)
    BY <1>3 DEF LockedOut
  <1> QED
    BY <1>3, <1>4 DEF GuardInv, Spent

LEMMA ArriveGuard ==
  ASSUME GuardInv, NEW t \in Tasks, NEW s \in Sources, NEW right \in BOOLEAN,
         Arrive(t, s, right)
  PROVE  GuardInv'
  <1> DEFINE r == [pc |-> "waiting", source |-> s, right |-> right]
  <1>1. GuardTyped /\ SlotsKept /\ ~LockedOut(s)
    BY DEF Arrive, GuardInv, Locked, LockedOut
  <1>2. /\ pair' \in [Sources -> Counters \cup {NoCounter}]
        /\ address' \in [Addresses -> Counters \cup {NoCounter}]
        /\ \A z \in Sources : /\ LockedOut(z)' <=> LockedOut(z)
                              /\ late'[z] = IF LockedOut(z)' THEN late[z] ELSE 0
    BY SameLocks DEF Arrive
  <1>3. UNCHANGED late
    BY DEF Arrive
  <1>4. CASE UNCHANGED request
    <2>1. SlotsKept' /\ \A z \in Sources : Uncounted(z)' \subseteq Uncounted(z)
      BY <1>1, <1>4 DEF SlotsKept, In, Uncounted
    <2>2. GuardTyped'
      BY <1>1, <1>2, <1>3, <1>4 DEF GuardTyped
    <2>3. \A z \in Sources : Spent(z)'
      BY <1>2, <2>1, NoWorse
    <2> QED
      BY <2>1, <2>2, <2>3 DEF GuardInv
  <1>5. CASE request' = [request EXCEPT ![t] = r] /\ Cardinality(In("waiting")) < Queue
    <2>1. r \in Attempts /\ r.pc = "waiting" /\ r.source = s /\ s \in Sources
      BY DEF Attempts
    <2> HIDE DEF r
    <2>2. request' = [request EXCEPT ![t] = r]
      BY <1>5
    <2>3. /\ request' \in [Tasks -> Attempts]
          /\ \A u \in Tasks : request'[u].pc # "none" => request'[u].source \in Sources
          /\ \A at : In(at)' = IF r.pc = at THEN In(at) \cup {t} ELSE In(at) \ {t}
          /\ \A z \in Sources : Uncounted(z)' \subseteq Uncounted(z) \cup {t}
          /\ \A z \in Sources : t \in Uncounted(z)' =>
               r.pc \in {"waiting", "deriving"} /\ r.source = z
      BY <1>1, <2>1, <2>2, Moving, Zenon
    <2>4. GuardTyped'
      BY <1>1, <1>2, <1>3, <2>3 DEF GuardTyped
    <2>5. In("waiting")' = In("waiting") \cup {t} /\ In("deriving")' = In("deriving") \ {t}
      BY <2>1, <2>3
    <2>6. SlotsKept'
      <3>1. /\ IsFiniteSet(In("waiting") \cup {t})
            /\ Cardinality(In("waiting") \cup {t}) \in {Cardinality(In("waiting")),
                                                        Cardinality(In("waiting")) + 1}
        BY <1>1, FS_AddElement DEF SlotsKept
      <3>2. /\ IsFiniteSet(In("deriving") \ {t})
            /\ Cardinality(In("deriving") \ {t}) <= Cardinality(In("deriving"))
            /\ Cardinality(In("deriving") \ {t}) \in Nat
        BY <1>1, FS_Subset, FS_CardinalityType DEF SlotsKept
      <3>3. Cardinality(In("waiting")) \in Nat /\ Cardinality(In("deriving")) \in Nat
        BY <1>1, FS_CardinalityType DEF SlotsKept
      <3> QED
        BY <1>1, <1>5, <2>5, <3>1, <3>2, <3>3, Limits DEF SlotsKept
    <2>7. \A z \in Sources : LockedOut(z) => Uncounted(z)' \subseteq Uncounted(z)
      BY <1>1, <2>1, <2>3
    <2>8. \A z \in Sources : Spent(z)'
      BY <1>2, <2>7, NoWorse
    <2> QED
      BY <2>4, <2>6, <2>8 DEF GuardInv
  <1> QED
    BY <1>4, <1>5 DEF Arrive

LEMMA TakeSlotGuard ==
  ASSUME GuardInv, NEW t \in Tasks, TakeSlot(t)
  PROVE  GuardInv'
  <1>1. GuardTyped /\ SlotsKept
    BY DEF GuardInv
  <1>2. PICK r : r = [request[t] EXCEPT !.pc = "deriving"]
    OBVIOUS
  <1>3. /\ request[t] \in Attempts /\ request[t].pc = "waiting"
        /\ request[t].source \in Sources
    BY <1>1 DEF TakeSlot, GuardTyped
  <1>4. /\ r \in Attempts /\ r.pc = "deriving" /\ r.source = request[t].source
        /\ r.pc # "none" => r.source \in Sources
    BY <1>2, <1>3 DEF Attempts
  <1>5. request' = [request EXCEPT ![t] = r] /\ Cardinality(In("deriving")) < Concurrency
    BY <1>2 DEF TakeSlot
  <1>6. /\ request' \in [Tasks -> Attempts]
        /\ \A u \in Tasks : request'[u].pc # "none" => request'[u].source \in Sources
        /\ \A at : In(at)' = IF r.pc = at THEN In(at) \cup {t} ELSE In(at) \ {t}
        /\ \A z \in Sources : Uncounted(z)' \subseteq Uncounted(z) \cup {t}
        /\ \A z \in Sources : t \in Uncounted(z)' => r.source = z
    <2>1. GuardTyped /\ (r.pc # "none" => r.source \in Sources)
      BY <1>1, <1>4
    <2>2. r \in Attempts /\ request' = [request EXCEPT ![t] = r]
      BY <1>4, <1>5
    <2>3. /\ request' \in [Tasks -> Attempts]
          /\ \A u \in Tasks : request'[u].pc # "none" => request'[u].source \in Sources
      BY <2>1, <2>2, Moving
    <2>4. \A at : In(at)' = IF r.pc = at THEN In(at) \cup {t} ELSE In(at) \ {t}
      BY <2>1, <2>2, Moving
    <2>5. \A z \in Sources : /\ Uncounted(z)' \subseteq Uncounted(z) \cup {t}
                             /\ t \in Uncounted(z)' => r.source = z
      <3>1. request'[t] = r /\ \A u \in Tasks \ {t} : request'[u] = request[u]
        BY <1>5, <2>1 DEF GuardTyped
      <3> QED
        BY <3>1 DEF Uncounted
    <2> QED
      BY <2>3, <2>4, <2>5
  <1>7. /\ pair' \in [Sources -> Counters \cup {NoCounter}]
        /\ address' \in [Addresses -> Counters \cup {NoCounter}]
        /\ \A z \in Sources : /\ LockedOut(z)' <=> LockedOut(z)
                              /\ late'[z] = IF LockedOut(z)' THEN late[z] ELSE 0
    BY SameLocks DEF TakeSlot
  <1>8. GuardTyped'
    BY <1>1, <1>6, <1>7 DEF GuardTyped, TakeSlot
  <1>9. In("waiting")' = In("waiting") \ {t} /\ In("deriving")' = In("deriving") \cup {t}
    BY <1>4, <1>6
  <1>10. SlotsKept'
    <2>1. /\ IsFiniteSet(In("deriving") \cup {t})
          /\ Cardinality(In("deriving") \cup {t}) \in {Cardinality(In("deriving")),
                                                       Cardinality(In("deriving")) + 1}
      BY <1>1, FS_AddElement DEF SlotsKept
    <2>2. /\ IsFiniteSet(In("waiting") \ {t})
          /\ Cardinality(In("waiting") \ {t}) <= Cardinality(In("waiting"))
          /\ Cardinality(In("waiting") \ {t}) \in Nat
      BY <1>1, FS_Subset, FS_CardinalityType DEF SlotsKept
    <2>3. Cardinality(In("waiting")) \in Nat /\ Cardinality(In("deriving")) \in Nat
      BY <1>1, FS_CardinalityType DEF SlotsKept
    <2> QED
      BY <1>1, <1>5, <1>9, <2>1, <2>2, <2>3, Limits DEF SlotsKept
  <1>11. \A z \in Sources : Uncounted(z)' \subseteq Uncounted(z)
    <2>1. t \in Uncounted(r.source)
      BY <1>3, <1>4 DEF Uncounted
    <2> QED
      BY <1>6, <2>1
  <1>12. \A z \in Sources : Spent(z)'
    BY <1>7, <1>11, NoWorse
  <1> QED
    BY <1>8, <1>10, <1>12 DEF GuardInv

\* The key is derived, or the tree turns out not to be there.
LEMMA LeaveGuard ==
  ASSUME GuardInv, NEW t \in Tasks, Accept(t) \/ TreeFails(t)
  PROVE  GuardInv'
  <1>1. GuardTyped /\ SlotsKept /\ request[t] \in Attempts
    BY DEF GuardInv, GuardTyped
  <1>2. PICK r : r = IF Accept(t) THEN [request[t] EXCEPT !.pc = "tree"] ELSE Idle
    OBVIOUS
  <1>3. /\ r \in Attempts /\ r.pc \in {"none", "tree"} /\ (r.pc # "none" => r.source \in Sources)
    <2>1. CASE Accept(t)
      <3>1. r = [request[t] EXCEPT !.pc = "tree"] /\ request[t].source \in Sources
        BY <1>1, <1>2, <2>1 DEF Accept, GuardTyped
      <3> QED
        BY <1>1, <3>1 DEF Attempts
    <2>2. CASE ~Accept(t)
      BY <1>2, <2>2 DEF Idle, Attempts
    <2> QED
      BY <2>1, <2>2
  <1>4. request' = [request EXCEPT ![t] = r]
    BY <1>2 DEF Accept, TreeFails
  <1>5. SlotsKept' /\ \A z \in Sources : Uncounted(z)' \subseteq Uncounted(z) \ {t}
    BY <1>3, <1>4, Leaving
  <1>6. /\ request' \in [Tasks -> Attempts]
        /\ \A u \in Tasks : request'[u].pc # "none" => request'[u].source \in Sources
    BY <1>1, <1>3, <1>4, Moving
  <1>7. /\ pair' \in [Sources -> Counters \cup {NoCounter}]
        /\ address' \in [Addresses -> Counters \cup {NoCounter}]
        /\ \A z \in Sources : /\ LockedOut(z)' <=> LockedOut(z)
                              /\ late'[z] = IF LockedOut(z)' THEN late[z] ELSE 0
    BY SameLocks DEF Accept, TreeFails
  <1>8. GuardTyped'
    BY <1>1, <1>6, <1>7 DEF GuardTyped, Accept, TreeFails
  <1>9. \A z \in Sources : Spent(z)'
    BY <1>5, <1>7, NoWorse
  <1> QED
    BY <1>5, <1>8, <1>9 DEF GuardInv

\* A guess is counted: the source it came from spends it, and a lock-out that it
\* begins leaves others at the address what is under way, which it was part of.
LEMMA RefuseGuard ==
  ASSUME GuardInv, NEW t \in Tasks, Refuse(t)
  PROVE  GuardInv'
  <1> DEFINE s == request[t].source
  <1>1. GuardTyped /\ SlotsKept /\ \A z \in Sources : z[1] \in Addresses
    BY DEF GuardInv, Sources
  <1>2. request[t].pc = "deriving" /\ s \in Sources /\ t \in Uncounted(s)
    BY <1>1 DEF Refuse, GuardTyped, Uncounted
  <1>3. /\ pair' = [pair EXCEPT ![s] = Failed(pair[s], DeviceThreshold)]
        /\ address' = [address EXCEPT ![s[1]] = Failed(address[s[1]], AddressThreshold)]
        /\ late' = [late EXCEPT ![s] = IF LockedOut(s) THEN late[s] + 1 ELSE 0]
        /\ request' = [request EXCEPT ![t] = Idle]
    BY DEF Refuse, RecordFailure
  <1>4. /\ pair' \in [Sources -> Counters \cup {NoCounter}]
        /\ address' \in [Addresses -> Counters \cup {NoCounter}]
        /\ \A z \in Sources : LockedOut(z) => LockedOut(z)'
    <2>1. /\ pair[s] \in Counters \cup {NoCounter}
          /\ address[s[1]] \in Counters \cup {NoCounter} /\ s[1] \in Addresses
      BY <1>1, <1>2 DEF GuardTyped
    <2>2. /\ Failed(pair[s], DeviceThreshold) \in Counters
          /\ Locks(pair[s]) => Locks(Failed(pair[s], DeviceThreshold))
      BY <2>1, FailedIs, Limits
    <2>3. /\ Failed(address[s[1]], AddressThreshold) \in Counters
          /\ Locks(address[s[1]]) => Locks(Failed(address[s[1]], AddressThreshold))
      BY <2>1, FailedIs, Limits
    <2>4. \A z \in Sources : Locks(pair[z]) => Locks(pair'[z])
      BY <1>1, <1>2, <1>3, <2>2 DEF GuardTyped
    <2>5. \A a \in Addresses : Locks(address[a]) => Locks(address'[a])
      BY <1>1, <1>3, <2>1, <2>3 DEF GuardTyped
    <2>6. \A z \in Sources : LockedOut(z) => LockedOut(z)'
      BY <1>1, <2>4, <2>5 DEF LockedOut
    <2> QED
      BY <1>1, <1>2, <1>3, <2>1, <2>2, <2>3, <2>6 DEF GuardTyped
  <1>5. Idle \in Attempts /\ Idle.pc = "none"
    BY DEF Idle, Attempts
  <1>6. SlotsKept' /\ \A z \in Sources : Uncounted(z)' \subseteq Uncounted(z) \ {t}
    BY <1>3, <1>5, Leaving
  <1>7. /\ request' \in [Tasks -> Attempts]
        /\ \A u \in Tasks : request'[u].pc # "none" => request'[u].source \in Sources
    BY <1>1, <1>3, <1>5, Moving
  <1>8. late' \in [Sources -> Nat]
    BY <1>1, <1>2, <1>3 DEF GuardTyped
  <1>9. GuardTyped'
    BY <1>4, <1>7, <1>8 DEF GuardTyped
  <1>10. ASSUME NEW z \in Sources
         PROVE  /\ Cardinality(Uncounted(z)) \in Nat /\ Cardinality(Uncounted(z)') \in Nat
                /\ Cardinality(Uncounted(z)') <= Cardinality(Uncounted(z))
                /\ Cardinality(Uncounted(z)) <= Concurrency + Queue
                /\ z = s => Cardinality(Uncounted(z)') < Cardinality(Uncounted(z))
                /\ z # s => Cardinality(Uncounted(z)) < Concurrency + Queue
    <2>1. /\ IsFiniteSet(Uncounted(z)) /\ Cardinality(Uncounted(z)) \in Nat
          /\ Cardinality(Uncounted(z)) <= Concurrency + Queue
          /\ t \notin Uncounted(z) => Cardinality(Uncounted(z)) < Concurrency + Queue
      BY <1>1, <1>2, UncountedFits
    <2>2. Uncounted(z)' \subseteq Uncounted(z) /\ t \notin Uncounted(z)'
      BY <1>6
    <2>3. /\ Cardinality(Uncounted(z)') <= Cardinality(Uncounted(z))
          /\ Cardinality(Uncounted(z)') \in Nat
          /\ Cardinality(Uncounted(z)) = Cardinality(Uncounted(z)')
               => Uncounted(z) = Uncounted(z)'
      BY <2>1, <2>2, FS_Subset, FS_CardinalityType
    <2>4. z # s => t \notin Uncounted(z)
      BY DEF Uncounted
    <2>5. z = s => Cardinality(Uncounted(z)) # Cardinality(Uncounted(z)')
      BY <1>2, <2>2, <2>3
    <2> QED
      BY <2>1, <2>3, <2>4, <2>5
  <1>11. ASSUME NEW z \in Sources
         PROVE  Spent(z)'
    <2>1. /\ late[z] \in Nat /\ late'[z] \in Nat
          /\ late'[z] = IF z = s THEN IF LockedOut(z) THEN late[z] + 1 ELSE 0 ELSE late[z]
      BY <1>1, <1>2, <1>3 DEF GuardTyped
    <2>2. IF LockedOut(z) THEN late[z] + Cardinality(Uncounted(z)) < Concurrency + Queue
          ELSE late[z] = 0
      BY DEF GuardInv, Spent
    <2>3. LockedOut(z)' => late'[z] + Cardinality(Uncounted(z)') < Concurrency + Queue
      BY <1>10, <2>1, <2>2, Limits
    <2>4. ~LockedOut(z)' => late'[z] = 0
      BY <1>4, <2>1, <2>2
    <2> QED
      BY <2>3, <2>4 DEF Spent
  <1> QED
    BY <1>6, <1>9, <1>11 DEF GuardInv

\* A right password clears the pair, not the address.
LEMMA EnterGuard ==
  ASSUME GuardInv, NEW t \in Tasks, Enter(t)
  PROVE  GuardInv'
  <1> DEFINE s == request[t].source
  <1>1. GuardTyped /\ SlotsKept
    BY DEF GuardInv
  <1>2. s \in Sources
    BY <1>1 DEF Enter, GuardTyped
  <1>3. /\ pair' = [pair EXCEPT ![s] = NoCounter] /\ UNCHANGED address
        /\ late' = [late EXCEPT ![s] = IF Locks(address[s[1]]) THEN late[s] ELSE 0]
        /\ request' = [request EXCEPT ![t] = Idle]
    BY DEF Enter
  <1>4. Idle \in Attempts /\ Idle.pc = "none"
    BY DEF Idle, Attempts
  <1>5. SlotsKept' /\ \A z \in Sources : Uncounted(z)' \subseteq Uncounted(z) \ {t}
    BY <1>3, <1>4, Leaving
  <1>6. /\ request' \in [Tasks -> Attempts]
        /\ \A u \in Tasks : request'[u].pc # "none" => request'[u].source \in Sources
    BY <1>1, <1>3, <1>4, Moving
  <1>7. GuardTyped'
    <2>1. late' \in [Sources -> Nat] /\ pair' \in [Sources -> Counters \cup {NoCounter}]
      BY <1>1, <1>2, <1>3 DEF GuardTyped
    <2> QED
      BY <1>1, <1>3, <1>6, <2>1 DEF GuardTyped
  <1>8. ASSUME NEW z \in Sources
        PROVE  /\ LockedOut(z)' => LockedOut(z)
               /\ late'[z] = IF LockedOut(z)' THEN late[z] ELSE 0
    <2>1. IF LockedOut(z) THEN TRUE ELSE late[z] = 0
      BY DEF GuardInv, Spent
    <2>2. pair'[z] = IF z = s THEN NoCounter ELSE pair[z]
      BY <1>1, <1>2, <1>3 DEF GuardTyped
    <2>3. late'[z] = IF z = s THEN IF Locks(address[s[1]]) THEN late[s] ELSE 0 ELSE late[z]
      BY <1>1, <1>2, <1>3 DEF GuardTyped
    <2> QED
      BY <1>3, <2>1, <2>2, <2>3 DEF LockedOut, Locks
  <1>9. \A z \in Sources : Spent(z)'
    BY <1>5, <1>8, NoWorse
  <1> QED
    BY <1>5, <1>7, <1>9 DEF GuardInv

\* What stays of the requests, or goes with all of them.
LEMMA TickGuard ==
  ASSUME GuardInv, Tick
  PROVE  GuardInv'
  <1>1. GuardTyped /\ SlotsKept /\ \A z \in Sources : z[1] \in Addresses
    BY DEF GuardInv, Sources
  <1>2. /\ pair' = [z \in Sources |-> Aged(pair[z])]
        /\ address' = [a \in Addresses |-> Aged(address[a])]
        /\ late' = [z \in Sources |-> IF \/ Locks(Aged(pair[z]))
                                         \/ Locks(Aged(address[z[1]]))
                                      THEN late[z] ELSE 0]
        /\ UNCHANGED request
    BY DEF Tick
  <1>3. /\ \A z \in Sources : /\ Aged(pair[z]) \in Counters \cup {NoCounter}
                              /\ Locks(Aged(pair[z])) => Locks(pair[z])
        /\ \A a \in Addresses : /\ Aged(address[a]) \in Counters \cup {NoCounter}
                                /\ Locks(Aged(address[a])) => Locks(address[a])
    BY <1>1, AgedIs DEF GuardTyped
  <1>4. GuardTyped'
    BY <1>1, <1>2, <1>3 DEF GuardTyped
  <1>5. \A z \in Sources : /\ LockedOut(z)' => LockedOut(z)
                           /\ late'[z] = IF LockedOut(z)' THEN late[z] ELSE 0
    BY <1>1, <1>2, <1>3 DEF LockedOut
  <1>6. SlotsKept' /\ \A z \in Sources : Uncounted(z)' \subseteq Uncounted(z)
    BY <1>1, <1>2 DEF SlotsKept, In, Uncounted
  <1>7. \A z \in Sources : Spent(z)'
    BY <1>5, <1>6, NoWorse
  <1> QED
    BY <1>4, <1>6, <1>7 DEF GuardInv

\* Steps of the sessions, and an attempt that is turned away.
LEMMA IdleGuard ==
  ASSUME GuardInv, UNCHANGED <<request, late>>,
         \/ UNCHANGED <<pair, address>>
         \/ pair' = Remembered(pair) /\ address' = Remembered(address)
  PROVE  GuardInv'
  <1>1. GuardTyped /\ SlotsKept
    BY DEF GuardInv
  <1>2. /\ pair' \in [Sources -> Counters \cup {NoCounter}]
        /\ address' \in [Addresses -> Counters \cup {NoCounter}]
        /\ \A z \in Sources : /\ LockedOut(z)' <=> LockedOut(z)
                              /\ late'[z] = IF LockedOut(z)' THEN late[z] ELSE 0
    BY SameLocks
  <1>3. GuardTyped'
    BY <1>1, <1>2 DEF GuardTyped
  <1>4. SlotsKept' /\ \A z \in Sources : Uncounted(z)' \subseteq Uncounted(z)
    BY <1>1 DEF SlotsKept, In, Uncounted
  <1>5. \A z \in Sources : Spent(z)'
    BY <1>2, <1>4, NoWorse
  <1> QED
    BY <1>3, <1>4, <1>5 DEF GuardInv

\* A start of the process, the first or a later one.
LEMMA StartGuard ==
  /\ LoginInit => GuardInv
  /\ Restart => GuardInv'
  <1>1. Idle \in Attempts /\ Idle.pc = "none"
    BY DEF Idle, Attempts
  <1>2. IsFiniteSet({}) /\ Cardinality({}) = 0
    BY FS_EmptySet
  <1>3. ASSUME LoginInit PROVE GuardInv
    <2>1. GuardTyped
      BY <1>1, <1>3 DEF LoginInit, GuardTyped
    <2>2. In("waiting") = {} /\ In("deriving") = {}
      BY <1>1, <1>3 DEF LoginInit, In
    <2>3. \A s \in Sources : ~LockedOut(s) /\ late[s] = 0
      BY <1>3 DEF LoginInit, LockedOut, Locks, Sources
    <2> QED
      BY <1>2, <2>1, <2>2, <2>3, Limits DEF GuardInv, SlotsKept, Spent
  <1>4. ASSUME Restart PROVE GuardInv'
    <2>1. GuardTyped'
      BY <1>1, <1>4 DEF Restart, GuardTyped
    <2>2. In("waiting")' = {} /\ In("deriving")' = {}
      BY <1>1, <1>4 DEF Restart, In
    <2>3. \A s \in Sources : ~LockedOut(s)' /\ late'[s] = 0
      BY <1>4 DEF Restart, LockedOut, Locks, Sources
    <2> QED
      BY <1>2, <2>1, <2>2, <2>3, Limits DEF GuardInv, SlotsKept, Spent
  <1> QED
    BY <1>3, <1>4

\* A lock-out leaves fewer guesses than there are slots and places in the queue,
\* whatever came before it, whoever else shares the address and however many
\* tasks guess at once, for any thresholds and penalties.
THEOREM BurstsGainNothing == LoginSpec => []LateGuessesAreBounded
  <1>1. LoginInit => GuardInv
    BY StartGuard
  <1>2. GuardInv /\ [LoginNext]_loginVars => GuardInv'
    <2> SUFFICES ASSUME GuardInv, [LoginNext]_loginVars PROVE GuardInv'
      OBVIOUS
    <2>1. CASE UNCHANGED guard
      BY <2>1, IdleGuard DEF guard
    <2>2. ASSUME NEW t \in Tasks, Attempt(t)
          PROVE  GuardInv'
      <3>1. ASSUME NEW s \in Sources, ArriveLocked(t, s)
            PROVE  GuardInv'
        BY <3>1, IdleGuard DEF ArriveLocked, TurnAway
      <3>2. ASSUME NEW s \in Sources, NEW right \in BOOLEAN, Arrive(t, s, right)
            PROVE  GuardInv'
        BY <3>2, ArriveGuard
      <3> QED
        BY <2>2, <3>1, <3>2, TakeSlotGuard, RefuseGuard, LeaveGuard, EnterGuard DEF Attempt
    <2>3. CASE Browse
      BY <2>1, <2>3 DEF Browse, Use, Logout, RevokeOthers
    <2>4. CASE Sweep
      BY <2>1, <2>4 DEF Sweep
    <2>5. CASE UNCHANGED loginVars
      BY <2>1, <2>5 DEF loginVars
    <2> QED
      BY <2>2, <2>3, <2>4, <2>5, TickGuard, StartGuard DEF LoginNext
  <1>3. GuardInv => LateGuessesAreBounded
    <2> SUFFICES ASSUME GuardInv, NEW s \in Sources
                 PROVE  late[s] < Concurrency + Queue
      BY DEF LateGuessesAreBounded
    <2>1. late[s] \in Nat /\ Cardinality(Uncounted(s)) \in Nat
      BY UncountedFits DEF GuardInv, GuardTyped
    <2> QED
      BY <2>1, Limits DEF GuardInv, Spent
  <1> QED
    BY <1>1, <1>2, <1>3, PTL DEF LoginSpec
=============================================================================
