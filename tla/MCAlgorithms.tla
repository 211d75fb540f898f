---------------------------- MODULE MCAlgorithms ----------------------------
(* Values for the constants of Algorithms.                                 *)
EXTENDS Algorithms

-----------------------------------------------------------------------------
(* Import: columns 1 to 3 have names that are identifiers, 4 has not.      *)

V(kind, of) == [kind |-> kind, of |-> of]

Call(format, header, data, columns, mode) ==
    [ format : {format}, header : {header}, data : {data}, columns : columns, mode : mode,
      create : BOOLEAN, infer : {TRUE}, truncate : BOOLEAN, batch : {1, 2} ]

Modes == {"none", "ignore", "replace"}

MCCsvData == {
    << >>, << << 1, 2 >> >>, << << 1, 0 >>, << 1, 2 >> >>, << << 2, 1 >>, << 1 >> >>,
    << << 1, 1 >>, << 2, 1 >>, << 1, 2 >> >> }

MCCsv ==
    UNION { Call("csv", header, data, {<< >>, << 2 >>, << 3, 1 >>}, Modes) :
              header \in {<< 1, 2 >>, << 2, 1 >>}, data \in MCCsvData }

(* One column, in which every mixture of kinds occurs.                     *)
MCKinds == {Null, V("bool", 1), V("int", 2), V("uint", 3), V("real", 4), V("text", 0), V("nested", 0)}

MCMixtures ==
    [ format : {"json"}, header : {<< >>}, columns : {<< >>}, mode : {"none"}, batch : {2},
      create : {TRUE}, infer : {TRUE, FALSE}, truncate : {FALSE},
      data : UNION { [1 .. n -> [{1} -> MCKinds]] : n \in 1 .. 3 } ]

MCObjects == {
    << 1 :> V("int", 1) @@ 2 :> V("text", 0), 2 :> V("real", 4) >>,
    << 1 :> V("int", 1) @@ 2 :> V("int", 5), 1 :> V("int", 1) @@ 2 :> V("int", 6) >>,
    << 4 :> V("int", 1) >>,
    << 1 :> Null, 1 :> V("text", 1), 1 :> V("int", 1), 1 :> Null >> }

MCJson ==
    UNION { Call("json", << >>, data, {<< >>, << 2, 1 >>}, Modes) : data \in MCObjects }

MCRefused == { [r EXCEPT !.batch = 0] : r \in Call("csv", << 1 >>, << << 1 >> >>, {<< >>}, {"none"}) }

MCImports == MCCsv \cup MCMixtures \cup MCJson \cup MCRefused

MCOldTables == {
    NoTable,
    [types |-> << "TEXT", "INTEGER" >>, unique |-> FALSE, rows |-> << << V("text", 0), Null >> >>],
    [types |-> << "TEXT", "NONE" >>, unique |-> TRUE,
     rows |-> << << Null, Null >>, << V("text", 1), V("text", 2) >> >>] }

-----------------------------------------------------------------------------
(* SqlText                                                                 *)

Each(bytes) == { << b >> : b \in bytes }

MCFamilies == {"comments", "quotes", "inserts", "pragmas", "quoted", "schemas", "open", "names", "calls"}

MCPrefix == [f \in MCFamilies |->
    CASE f = "pragmas" -> << "p", " " >> [] f = "quoted" -> << "'", "p", "'" >>
      [] f = "schemas" -> << "p", " ", "'" >> [] f = "open" -> << "p", " ", "m" >> [] OTHER -> << >> ]

MCAlphabet == [f \in MCFamilies |->
    CASE f = "comments" -> Each({"-", "/", "*", "\n", ";", "x"})
      [] f = "quotes" -> Each({"'", "\"", "[", "]", ";", "x"})
      [] f = "inserts" -> Each({"x", "_", "-", "/", "*", "\n"}) \cup {Insert}
      [] f = "pragmas" -> Each({"m", ".", "=", "'", "[", "]", " "}) \cup {<< "-", "-", "\n" >>}
      [] f = "quoted" -> Each({"m", "'", ".", "="})
      [] f = "schemas" -> Each({"m", "'"}) \cup {<< ".", "m", "=" >>}
      [] f = "open" -> Each({"/", "*", "=", "("})
      [] f = "names" -> Each({"_", "'", "\"", "]", "[", "-", "\n"}) \cup {Protected}
      [] f = "calls" -> Each({"(", "'", " ", "x"}) \cup {LoadExtension, << "h", "t" >>} ]

MCMaxText == [f \in MCFamilies |->
    CASE f \in {"pragmas", "open"} -> 7 [] f = "quoted" -> 9 [] f = "schemas" -> 11 [] f = "names" -> 5 [] OTHER -> 6]

-----------------------------------------------------------------------------
(* PersistRoot: directories are 100 and more.                              *)

File(path) == [kind |-> "file", path |-> path]
Dir(path) == [kind |-> "dir", path |-> path]
Link(path) == [kind |-> "link", path |-> path]

MCTrees == {
    << >>, 100 :> {},
    100 :> {File(3), File(1), File(2)},
    100 :> {File(5), Dir(101), Link(6)} @@ 101 :> {File(1), Dir(102), File(4)} @@ 102 :> {File(2), File(3)},
    100 :> {Dir(101), Dir(102)} @@ 101 :> {} @@ 102 :> {File(1), File(2)} }
=============================================================================
