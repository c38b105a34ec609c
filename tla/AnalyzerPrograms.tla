--------------------------- MODULE AnalyzerPrograms ---------------------------
(***************************************************************************)
(* Programs of up to three files for Analyzer.tla, written as nested terms *)
(* and laid out as trees in the order of the source.                       *)
(***************************************************************************)
EXTENDS Integers, Sequences, SequencesExt

CONSTANT NoNode

Scoping == INSTANCE Scoping

Term(kind, name, children) ==
  [kind |-> kind, name |-> name, children |-> children, path |-> "", valid |-> TRUE]

Name(n) == Term("Identifier", n, <<>>)
Num == Term("Expression", "", <<>>)
PrintOf(e) == Term("Statement", "", <<e>>)
Call(f, arguments) == Term("Call", "", <<Name(f)>> \o arguments)
Let(x, e) == Term("Variable", x, <<e>>)
Constant(x) == Term("Constant", x, <<Num>>)
If(e, block) == Term("Statement", "", <<e>> \o block)
Return(e) == Term("Return", "", <<e>>)
Parameter(x) == Term("Parameter", x, <<>>)
Function(f, parameters, block) ==
  Term("Function", f, [i \in 1 .. Len(parameters) |-> Parameter(parameters[i])] \o block)
Foreign(f, parameters) ==
  Term("ForeignFunction", f, [i \in 1 .. Len(parameters) |-> Parameter(parameters[i])])
Namespace(n, items) == Term("Namespace", n, items)
Import(file, symbol, alias) ==
  [Term("Import", alias, <<Name(symbol)>>) EXCEPT !.path = file]
File(file, items) == [Term("Module", "", items) EXCEPT !.path = file]
Invalid(term) == [term EXCEPT !.valid = FALSE]

(* The nodes of a term, its own with number id first. *)
RECURSIVE Laid(_, _, _, _)
Laid(term, id, owner, root) ==
  LET inside == IF term.kind \in {"Module", "Namespace", "Function"} THEN id ELSE owner
      Add(done, child) ==
        [children |-> Append(done.children, id + 1 + Len(done.nodes)),
         nodes |-> done.nodes \o Laid(child, id + 1 + Len(done.nodes), inside, root)]
      below == FoldLeft(Add, [children |-> <<>>, nodes |-> <<>>], term.children)
  IN  <<[kind |-> term.kind, name |-> term.name, children |-> below.children,
         owner |-> owner, root |-> root, last |-> id + Len(below.nodes),
         path |-> term.path, valid |-> term.valid]>> \o below.nodes

Tree(files) ==
  FoldLeft(LAMBDA nodes, file : nodes \o Laid(file, Len(nodes) + 1, 0, Len(nodes) + 1),
           <<>>, files)

------------------------------------------------------------------------------
(* The second file imports from the third and, in a circle, from the first. *)
Second == File("second", <<
  Import("third", "deep", "deep"), Import("main", "main", "main"),
  Function("one", <<>>, <<Return(Num)>>),
  Foreign("put", <<"c">>),
  Function("two", <<"a", "b">>, <<Let("s", Name("a")), PrintOf(Call("one", <<>>)),
                                  Return(Name("s"))>>)>>)

Third == File("third", <<
  Namespace("inner", <<
    Function("hidden", <<"p">>, <<Let("h", Name("p")), Let("i", Name("h")),
                                  Return(Name("i"))>>),
    Function("deeper", <<>>, <<PrintOf(Call("hidden", <<Num>>)),
                               PrintOf(Call("deep", <<>>))>>)>>),
  Function("deep", <<>>, <<Let("d", Num), Return(Name("d"))>>),
  Constant("limit")>>)

Imports == <<
  <<>>,
  <<Import("second", "one", "one")>>,
  <<Import("second", "one", "f")>>,
  <<Import("second", "deep", "one"), Import("second", "one", "deep"),
    Import("second", "two", "two")>>,
  <<Import("second", "deep", "f"), Import("third", "deep", "two")>>,
  <<Import("second", "put", "f")>>,
  <<Import("second", "missing", "f")>>>>

Statements == <<
  Let("x", Num), Let("x", Name("x")), Let("y", Name("x")), Invalid(Let("x", Num)),
  PrintOf(Name("x")), PrintOf(Name("a")), PrintOf(Call("f", <<>>)),
  PrintOf(Call("one", <<>>)), PrintOf(Call("two", <<Num, Name("x")>>)),
  PrintOf(Call("f", <<Num>>)), PrintOf(Call("x", <<>>)),
  Constant("k"), If(Name("x"), <<Let("y", Num), PrintOf(Name("y"))>>),
  If(Invalid(Num), <<PrintOf(Name("z"))>>), Return(Name("z")),
  Invalid(PrintOf(Name("y"))), PrintOf(Call("later", <<Name("x")>>)),
  Import("second", "one", "one")>>

Later == Function("later", <<"a">>, <<Let("x", Name("a")), Return(Name("x"))>>)

(* The libraries come first: their nodes are the same for all programs. *)
Libraries == Tree(<<Second, Third>>)
Start == Len(Libraries) + 1
Program(items) == Libraries \o Laid(File("main", items), Start, 0, Start)
Main(imports, s, t, later) ==
  Program(imports \o <<Function("main", <<>>, <<s, t, PrintOf(Num)>>)>> \o later)

AllPrograms ==
  {Main(Imports[i], Statements[s], Statements[t], <<Later>>) :
     i \in 1 .. 2, s \in DOMAIN Statements, t \in DOMAIN Statements}
  \union
  {Main(Imports[i], Let("x", Num), Statements[s], later) :
     i \in DOMAIN Imports, s \in DOMAIN Statements,
     later \in {<<>>, <<Invalid(Later)>>,
                <<Namespace("n", <<Later>>), Foreign("g", <<"c">>)>>}}
  \union
  {Program(Imports[i] \o <<Later>>) : i \in DOMAIN Imports}

(* The programs of the run have no shadowed names, one main function, and *)
(* no constants outside of functions before a function with variables.    *)
AnalyzerSources == {t \in AllPrograms : Scoping!Unshadowed(t)}
==============================================================================
