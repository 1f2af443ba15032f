----------------------------- MODULE Collection -----------------------------
(***************************************************************************)
(* What the rest of the program takes a collection of the metadata store   *)
(* to do: the calls of src/src/db.py's two backends with MongoDB's rules   *)
(* for matching and for unique indexes.  Each call takes effect in one     *)
(* step, for good, except for an upsert: that nothing matches and that the *)
(* document is inserted are two, in either backend, so of two upserts that *)
(* both miss one may be refused for the other's document, or insert a      *)
(* second.  SqliteStore implements it.                                     *)
(***************************************************************************)
EXTENDS Integers, FiniteSets

CONSTANTS
  Tables,     \* names of collections
  Ids,        \* values of _id, drawn at random
  Fields,     \* fields of documents other than _id
  Documents,  \* Tables -> documents the callers insert
  Filters,    \* Tables -> filters they ask for
  Updates,    \* Tables -> [set, unset] of update_one
  Upserts,    \* Tables -> [filter, doc] of replace_one with upsert
  Callers,    \* tasks that upsert
  Unique      \* Tables -> unique indexes, a record [fields, partial] each

VARIABLES
  docs,   \* Tables -> (_id -> document)
  answer, \* what the last call returned
  upserts \* Callers -> the upsert that missed and has not inserted yet

-----------------------------------------------------------------------------
(* A value is <<type>> or <<type, it>>, as json_type would name the type.  *)
Null == <<"null">>
Missing == <<"missing">>
Absent(v) == v \in {Null, Missing}
Number(v) == v[1] = "integer"

\* One condition of a filter.  Equality with null takes a missing field too, and
\* a comparison holds of numbers only.
Holds(v, c) ==
  \/ c.op = "eq" /\ (v = c.value \/ (c.value = Null /\ v = Missing))
  \/ c.op = "ne" /\ ~(v = c.value \/ (c.value = Null /\ v = Missing))
  \/ c.op = "gt" /\ Number(v) /\ v[2] > c.value[2]
  \/ c.op = "lte" /\ Number(v) /\ v[2] <= c.value[2]

\* A filter maps fields to sets of conditions.
Matches(d, flt) == \A f \in DOMAIN flt : \A c \in flt[f] : Holds(d[f], c)

\* Two documents with one key in an index that holds them both.
SameKey(d, e, ix) ==
  /\ Matches(d, ix.partial) /\ Matches(e, ix.partial)
  /\ \A f \in ix.fields : d[f] = e[f] \/ (Absent(d[f]) /\ Absent(e[f]))

\* A second document under a key is refused.  If a part of the key is null the
\* backends differ, and a caller can rely on neither.
MustRefuse(others, d, t) ==
  \E ix \in Unique[t] : /\ \A f \in ix.fields : ~Absent(d[f])
                        /\ \E e \in others : SameKey(d, e, ix)
MayRefuse(others, d, t) ==
  \E ix \in Unique[t] : \E e \in others : SameKey(d, e, ix)

-----------------------------------------------------------------------------
Held(t) == DOMAIN docs[t]
Found(t, flt) == {i \in Held(t) : Matches(docs[t][i], flt)}
Others(t, i) == {docs[t][j] : j \in Held(t) \ {i}}

NoUpsert == <<>>

\* Whatever an earlier server left.
Init ==
  /\ DOMAIN docs = Tables
  /\ \A t \in Tables : /\ Held(t) \subseteq Ids
                       /\ \A i \in Held(t) : DOMAIN docs[t][i] = Fields
  /\ answer = <<"none">>
  /\ upserts = [c \in Callers |-> NoUpsert]

\* Put document d at _id i, unless an index is against it.
Put(t, i, d, said) ==
  \/ /\ ~MustRefuse(Others(t, i), d, t)
     /\ docs' = [docs EXCEPT ![t] =
          [j \in Held(t) \cup {i} |-> IF j = i THEN d ELSE docs[t][j]]]
     /\ answer' = said
  \/ /\ MayRefuse(Others(t, i), d, t)
     /\ UNCHANGED docs
     /\ answer' = <<"duplicate">>

Insert(t, d) == \E i \in Ids \ Held(t) : Put(t, i, d, <<"inserted">>)

Changed(d, u) ==
  [f \in Fields |-> IF f \in u.unset THEN Missing
                    ELSE IF f \in DOMAIN u.set THEN u.set[f] ELSE d[f]]

None(t, flt, said) ==
  Found(t, flt) = {} /\ answer' = said /\ UNCHANGED docs

\* Of several documents that match, any one.
UpdateOne(t, flt, u) ==
  \/ None(t, flt, <<"matched", 0>>)
  \/ \E i \in Found(t, flt) : Put(t, i, Changed(docs[t][i], u), <<"matched", 1>>)

Replace(t, flt, d) == \E i \in Found(t, flt) : Put(t, i, d, <<"matched", 1>>)

ReplaceOne(t, flt, d) == None(t, flt, <<"matched", 0>>) \/ Replace(t, flt, d)

Upsert(c, t, u) ==
  /\ upserts[c] = NoUpsert
  /\ \/ Replace(t, u.filter, u.doc) /\ UNCHANGED upserts
     \/ /\ Found(t, u.filter) = {}
        /\ upserts' = [upserts EXCEPT ![c] = <<t, u>>]
        /\ UNCHANGED <<docs, answer>>

\* It inserts because it found nothing, whatever is there by now.
UpsertInserts(c) ==
  /\ upserts[c] # NoUpsert
  /\ Insert(upserts[c][1], upserts[c][2].doc)
  /\ upserts' = [upserts EXCEPT ![c] = NoUpsert]

DeleteOne(t, flt) ==
  \/ None(t, flt, <<"deleted", 0>>)
  \/ \E i \in Found(t, flt) :
       /\ docs' = [docs EXCEPT ![t] = [j \in Held(t) \ {i} |-> docs[t][j]]]
       /\ answer' = <<"deleted", 1>>

FindOne(t, flt) ==
  \/ None(t, flt, <<"found", {}>>)
  \/ \E i \in Found(t, flt) :
       answer' = <<"found", {<<i, docs[t][i]>>}>> /\ UNCHANGED docs

Find(t, flt) ==
  /\ answer' = <<"found", {<<i, docs[t][i]>> : i \in Found(t, flt)}>>
  /\ UNCHANGED docs

\* A server stops and another starts: what was written is there.
Restart ==
  answer' = <<"none">> /\ upserts' = [c \in Callers |-> NoUpsert] /\ UNCHANGED docs

Call(t) ==
  \/ \E d \in Documents[t] : Insert(t, d)
  \/ \E flt \in Filters[t] :
       \/ FindOne(t, flt) \/ Find(t, flt) \/ DeleteOne(t, flt)
       \/ \E u \in Updates[t] : UpdateOne(t, flt, u)
       \/ \E d \in Documents[t] : ReplaceOne(t, flt, d)

Next ==
  \/ Restart
  \/ \E t \in Tables : Call(t) /\ UNCHANGED upserts
  \/ \E c \in Callers : \/ UpsertInserts(c)
                         \/ \E t \in Tables : \E u \in Upserts[t] : Upsert(c, t, u)

Spec == Init /\ [][Next]_<<docs, answer, upserts>>
=============================================================================
