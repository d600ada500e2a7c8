----------------------------- MODULE MCShapeDrift -----------------------------
(***************************************************************************)
(* Responses with a name and a list of things that have an id.             *)
(***************************************************************************)
EXTENDS ShapeDrift

CONSTANTS t1, object, string

MCPaths == {"", ".name", ".more", ".list", ".list[]", ".list[].id"}
MCItem == [a \in {".list"} |-> ".list[]"]
MCBelow == [a \in {".list"} |-> {".list[]", ".list[].id"}]
MCTypes == {Null, Integer, Number, Array, object, string}
MCTools == {t1}

Plain(ids) ==
  [nodes |-> {<<"", object>>, <<".name", string>>, <<".list", Array>>,
              <<".list[]", object>>} \cup ({".list[].id"} \X ids),
   empty |-> {}, truncated |-> {}]

Normal == Plain({Integer})
Floats == Plain({Integer, Number})
Words  == Plain({string})
Mixed  == Plain({Integer, string})
Nulls  == [Normal EXCEPT !.nodes = @ \cup {<<".name", Null>>}]
Empty  == [nodes |-> {<<"", object>>, <<".name", string>>, <<".list", Array>>,
                      <<".more", string>>},
           empty |-> {".list"}, truncated |-> {}]
Long   == [nodes |-> Words.nodes \cup {<<".more", string>>},
           empty |-> {}, truncated |-> {".list"}]
Nameless == [Normal EXCEPT !.nodes = @ \ {<<".name", string>>}]

MCBodies == {Normal, Floats, Mixed, Nulls, Empty, Long, Nameless}

\* Compiled from three samples that had all these paths.
Known(types, items) == [types |-> types, items |-> items, seen |-> 3, sampled |-> 3]

Baseline(names, ids) ==
  [fields |-> [p \in MCPaths \ {".more"} |->
                 CASE p = ".name"     -> Known(names, NoItems)
                   [] p = ".list"     -> Known({Array}, {object})
                   [] p = ".list[].id" -> Known(ids, NoItems)
                   [] OTHER           -> Known({object}, NoItems)],
   total |-> 3]

MCBaselines == {Baseline({string}, {Integer}),
                Baseline({string, Null}, {Integer, Number})}
=============================================================================
