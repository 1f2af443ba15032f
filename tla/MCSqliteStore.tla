---------------------------- MODULE MCSqliteStore ----------------------------
(* A small instance of SqliteStore for TLC: nodes of one directory and the  *)
(* wrapped keys, with the filters and updates of vfs.py and keystore.py.    *)
EXTENDS SqliteStore, TLC

MCFields == {"id", "parent_id", "filename", "trashed_at", "is_dir"}
Text(s) == <<"text", s>>
Int1(n) == <<"integer", n>>

Doc(id, parent, name, trashed) ==
  [id |-> Text(id), parent_id |-> parent, filename |-> name,
   trashed_at |-> trashed, is_dir |-> <<"false">>]
Wrapped(id) ==
  [f \in MCFields |-> IF f = "id" THEN Text(id) ELSE Missing]

\* A live file, the same name in the trash, and an overwrite under way.
MCDocuments == [nodes |-> {Doc("a", Text("d"), Text("n"), Missing),
                           Doc("b", Text("d"), Text("n"), Int1(2)),
                           Doc("b", NULL, NULL, Missing),
                           [Doc("a", NULL, Text(""), Missing) EXCEPT !.is_dir = <<"true">>]},
                keystore |-> {}]

Eq(v) == {[op |-> "eq", value |-> v]}
Upto(n) == {[op |-> "gt", value |-> Int1(0)], [op |-> "lte", value |-> Int1(n)]}
Everything == [f \in {} |-> {}]

MCFilters == [nodes |-> {[id |-> Eq(Text("a"))],
                         [parent_id |-> Eq(Text("d")), filename |-> Eq(Text("n")),
                          trashed_at |-> Eq(NULL)],
                         [id |-> Eq(Text("a")), is_dir |-> Eq(<<"true">>)],
                         [trashed_at |-> Upto(1)],
                         [parent_id |-> Eq(NULL), trashed_at |-> {[op |-> "ne", value |-> NULL]}]},
              keystore |-> {Everything, [id |-> Eq(Text("a"))]}]

MCUpdates == [nodes |-> {[set |-> [trashed_at |-> Int1(1)], unset |-> {}],
                         [set |-> [parent_id |-> Text("d"), filename |-> Text("n")],
                          unset |-> {"trashed_at"}]},
              keystore |-> {}]

\* `_store`: the record of one account.
MCUpserts == [nodes |-> {},
              keystore |-> {[filter |-> [id |-> Eq(Text(a))], doc |-> Wrapped(a)] :
                              a \in {"a", "b"}}]

Live == [trashed_at |-> Eq(NULL)]
MCUnique == [nodes |-> {[fields |-> {"parent_id", "filename"}, partial |-> Live],
                        [fields |-> {"id"}, partial |-> Everything]},
             keystore |-> {[fields |-> {"id"}, partial |-> Everything]}]

\* The name index before the trash, over every node.
MCEarlier == {[table |-> "nodes", fields |-> {"parent_id", "filename"},
               partial |-> Everything, unique |-> TRUE]}

\* Nothing yet, or two live nodes of one name from before the index.
Row(i, d) == [id |-> i, doc |-> d]
MCStocks == [nodes |-> {<<>>} \cup
               {<<Row(i, Doc("a", Text("d"), Text("n"), Missing)),
                  Row(j, Doc("b", Text("d"), Text("n"), Missing))>> :
                  <<i, j>> \in {p \in Ids \X Ids : p[1] # p[2]}},
             keystore |-> {<<>>}]

Symmetry == Permutations(Ids) \cup Permutations(Callers)
=============================================================================
