----------------------------- MODULE MCCascader -----------------------------
(* A small tree with every kind of level: "s" and "p" are filled by `items`,  *)
(* "a" and "b" are fetched, "a" in three pages of which the second brings     *)
(* nothing new; "q" is disabled.  Two children of "s" may be selected, one of *)
(* them a branch, so either may be without the other.  The configurations     *)
(* cover the three modes, single, plain and cascading selection, server       *)
(* search, prefetch, hover, resolved values and an inline panel.              *)
EXTENDS Cascader

MCNodes == {"a", "b", "s", "p", "q", "r", "w", "x", "y", "z"}
MCItems == << [value |-> "a", parent |-> ""], [value |-> "b", parent |-> ""],
              [value |-> "s", parent |-> ""], [value |-> "p", parent |-> "s"],
              [value |-> "q", parent |-> "s"], [value |-> "r", parent |-> "p"],
              [value |-> "r", parent |-> "s"], [value |-> "w", parent |-> "s"] >>
MCServer == [k \in Levels |->
               CASE k = "a" -> << <<"x">>, <<"x">>, <<"y">> >>
                 [] k = "b" -> << <<"z">> >>
                 [] OTHER -> << <<>> >>]
MCChains == [n \in MCNodes |-> CASE n = "y" -> <<"a", "y">> [] OTHER -> <<>>]
MCQueries == {"u", "v"}
MCMatching == [q \in MCQueries |-> IF q = "u" THEN {"x", "r"} ELSE {"b", "z"}]
MCHits == [q \in MCQueries |-> IF q = "u" THEN {"x"} ELSE {"b"}]

Plain == [mode |-> "drill", multiple |-> FALSE, cascade |-> FALSE, selectable |-> "leaf", max |-> 0,
          scope |-> "level", search |-> FALSE, resolve |-> FALSE, loader |-> TRUE, reveal |-> TRUE,
          closeOnSelect |-> TRUE, inline |-> FALSE, prefetch |-> FALSE, hover |-> FALSE,
          actions |-> FALSE, value |-> {}, queries |-> {}, requests |-> 3]
Drill == Plain
Columns == [Plain EXCEPT !.mode = "columns", !.hover = TRUE, !.inline = TRUE, !.requests = 2]
Tree == [Plain EXCEPT !.mode = "tree", !.prefetch = TRUE, !.inline = TRUE, !.requests = 2]
Searching == [Plain EXCEPT !.search = TRUE, !.loader = FALSE, !.queries = MCQueries]
Resolving == [Plain EXCEPT !.resolve = TRUE, !.value = {"y"}]
Checks == [Plain EXCEPT !.mode = "tree", !.multiple = TRUE, !.cascade = TRUE, !.selectable = "any",
                        !.max = 4, !.loader = FALSE, !.inline = TRUE, !.queries = {"u"}]
Several == [Plain EXCEPT !.multiple = TRUE, !.max = 1, !.scope = "deep", !.loader = FALSE,
                         !.actions = TRUE, !.queries = MCQueries]

MCConfigs == {Drill, Columns, Tree, Searching, Resolving, Checks, Several}
=============================================================================
