------------------------------- MODULE Analyzer -------------------------------
(***************************************************************************)
(* From a parsed file to a program whose names are linked and whose        *)
(* functions and variables have their indices: tree/import.c loads the     *)
(* modules, the two passes of tree/analyze.c walk their trees with the     *)
(* scopes of tree/scope.c, and the generator enters the functions in its   *)
(* table.                                                                  *)
(*                                                                         *)
(* A tree is a sequence of nodes in the order of the source; each has      *)
(*   kind      Module, Namespace, Function, ForeignFunction, Parameter,    *)
(*             Variable, Constant, Import, Identifier, Call, Statement     *)
(*             (any kind of CLASS_STATEMENT), Return, Expression           *)
(*   name      an Import's is its alias, its Identifier has the imported   *)
(*   children, owner (the nearest Module, Namespace or Function around     *)
(*             it), root (its module), last (its last descendant)          *)
(*   path      of a Module, or of the file an Import names                 *)
(*   valid     whether the rules about types accept it                     *)
(* The program's own file is "main"; the files it may import are in the    *)
(* tree from the start, and count when they have been loaded.  Types       *)
(* and classes are left out, and blocks, which the walk passes through.    *)
(***************************************************************************)
EXTENDS Integers, Sequences, FiniteSets

CONSTANTS
  Sources,     \* the trees the analyzer may be given
  NoNode,      \* the NULL pointer
  MaxNesting   \* lengthof(stack->scopes), 10 in the code

VARIABLES
  tree,            \* the nodes
  modules,         \* the list of modules, in the order they were loaded
  module_link,     \* module_link[n]: the module of Import n
  symbols,         \* symbols[n]: the scope of n, as the parser filled it
  link,            \* link[n]: what Identifier n refers to
  is_set,          \* the Variables that have been given a value
  index,           \* index[n]: of a function or a variable
  errors,          \* errors[n]: num_errors of Module n
  phase,           \* import, link (pass 1), check (pass 2), generate, or
                   \* finished, rejected, aborted (an assertion failed),
                   \* crashed (endless recursion)
  module,          \* position in the list of modules
  cursor,          \* the node of this module that was done last
  path,            \* the nodes around the walk, each with children left
  scopes,          \* scope_stack.scopes, as the nodes they belong to
  type_checking,   \* scope_stack.type_checking
  function_index, foreign_index, variable_index, has_main, panic,
                   \* struct tarot_analyzer
  table            \* table[i]: the function entered at index i

sourceVars == <<tree, modules, module_link>>
walkVars == <<module, cursor, path, scopes, type_checking>>
resultVars == <<symbols, link, is_set, index, errors>>
analyzerVars == <<function_index, foreign_index, variable_index, has_main, panic>>
vars == <<sourceVars, walkVars, resultVars, analyzerVars, phase, table>>

(* A node is followed by its children and what is below them, one child    *)
(* behind the other, up to its last descendant.                            *)
ChildrenLaid(t, n) ==
  LET kids == t[n].children
  IN  /\ t[n].last \in n .. Len(t)
      /\ kids \in Seq(n + 1 .. t[n].last)
      /\ kids = <<>> => t[n].last = n
      /\ kids # <<>> => kids[1] = n + 1 /\ t[kids[Len(kids)]].last = t[n].last
      /\ \A i \in 1 .. Len(kids) - 1 : kids[i + 1] = t[kids[i]].last + 1

(* A tree as the parser leaves it: every node is in a module, each file    *)
(* has one, and what an Import or a Call names is its first child.         *)
Shaped(t) ==
  /\ Len(t) \in Nat /\ DOMAIN t = 1 .. Len(t)
  /\ \A n \in 1 .. Len(t) :
       /\ ChildrenLaid(t, n)
       /\ t[n].root \in 1 .. n /\ n <= t[t[n].root].last
       /\ t[t[n].root].kind = "Module"
       /\ t[n].kind = "Module" => \A m \in n .. t[n].last : t[m].root = n
       /\ t[n].kind \in {"Import", "Call"} =>
            t[n].children # <<>> /\ t[t[n].children[1]].kind = "Identifier"
       /\ t[n].kind = "Import" => Len(t[n].children) = 1
       /\ t[n].kind = "Identifier" => t[n].children = <<>>
  /\ \A m, n \in 1 .. Len(t) :
       t[m].kind = "Module" /\ t[n].kind = "Module" /\ t[m].path = t[n].path => m = n
  /\ \E n \in 1 .. Len(t) : t[n].kind = "Module" /\ t[n].path = "main"

(* One function has the name main, at most, and it is in the program's own *)
(* file.  Nothing in the analyzer asks for it: index_node gives index 0 to *)
(* every function of that name.                                            *)
OneMain(t) ==
  \A f \in 1 .. Len(t) : t[f].kind = "Function" /\ t[f].name = "main" =>
    /\ t[t[f].root].path = "main"
    /\ \A g \in 1 .. Len(t) : t[g].kind = "Function" /\ t[g].name = "main" => g = f

(* A function has no module, namespace or function inside, and owns all of  *)
(* what is inside of it: parse_statement begins none (parse.c:1515).        *)
FlatFunctions(t) ==
  \A f, n \in 1 .. Len(t) : t[f].kind = "Function" =>
    /\ t[n].owner = f <=> f < n /\ n <= t[f].last
    /\ t[n].owner = f => t[n].kind \notin {"Module", "Namespace", "Function"}

ASSUME AnalyzerAssumption ==
  /\ MaxNesting \in Nat \ {0}
  /\ \A t \in Sources : Shaped(t) /\ NoNode \notin 1 .. Len(t)

------------------------------------------------------------------------------
(* The tree. *)

Node == 1 .. Len(tree)
Kind(n) == IF n = NoNode THEN "NULL" ELSE tree[n].kind
Name(n) == tree[n].name

(* The modules in a file, of which there is one, or none if it is missing. *)
File(file) == {n \in Node : Kind(n) = "Module" /\ tree[n].path = file}
Main == CHOOSE n \in File("main") : TRUE

Owning == {"Module", "Namespace", "Function"}
Declaring == {"Namespace", "Function", "ForeignFunction", "Parameter",
              "Variable", "Constant", "Import"}

(* The Identifier of an Import or a Call. *)
IdentifierOf(n) == tree[n].children[1]
Parameters(f) == {i \in 1 .. Len(tree[f].children) :
                    Kind(tree[f].children[i]) = "Parameter"}

------------------------------------------------------------------------------
(* Symbols (scope.c) and links (node.c). *)

(* lookup_symbol_in_scope: an Import that is linked stands for its link. *)
LookupInScope(scope, name) ==
  LET found == {s \in symbols[scope] : Name(s) = name}
      symbol == CHOOSE s \in found : TRUE
  IN  IF found = {} THEN NoNode
      ELSE IF Kind(symbol) = "Import" /\ link[IdentifierOf(symbol)] # NoNode
      THEN link[IdentifierOf(symbol)]
      ELSE symbol

(* lookup_symbol: the outermost scope that has the name. *)
Lookup(stack, name) ==
  LET hits == {i \in 1 .. Len(stack) : LookupInScope(stack[i], name) # NoNode}
  IN  IF hits = {} THEN NoNode
      ELSE LookupInScope(stack[CHOOSE i \in hits : \A j \in hits : i <= j], name)

(* definition_of, which follows links as long as there are any. *)
Linking == {"Identifier", "Import", "Call"}
Follow(n) ==
  CASE Kind(n) = "Identifier"         -> link[n]
    [] Kind(n) \in {"Import", "Call"} -> IdentifierOf(n)
    [] OTHER                          -> n
Definition(n) ==
  LET follow == [m \in Node \union {NoNode} |-> Follow(m)]
      after[k \in 0 .. 2 * Len(tree)] == IF k = 0 THEN n ELSE follow[after[k - 1]]
  IN  after[2 * Len(tree)]
Endless(n) == Kind(Definition(n)) \in Linking

------------------------------------------------------------------------------
(* Where the phases are. *)

Root == modules[module]

(* The nodes of the module that the phases without a walk still have to do. *)
Ahead(kind) == {n \in Node : tree[n].root = Root /\ Kind(n) = kind /\ n > cursor}
First(set) == CHOOSE n \in set : \A m \in set : n <= m

ModuleDone ==
  CASE phase = "import"             -> Ahead("Import") = {}
    [] phase \in {"link", "check"}  -> path = <<>> /\ cursor = Root
    [] phase = "generate"           -> Ahead("Function") = {}
    [] OTHER                        -> FALSE

Open == path[Len(path)]             \* the innermost node around the walk
Scoped(n) == Kind(n) \in Owning

------------------------------------------------------------------------------
(* Imports (import.c). *)

Loaded(file) == \E m \in 1 .. Len(modules) : tree[modules[m]].path = file

(* Mutant: an import is not linked to a module that was loaded before. *)
ImportOnce(n) ==
  LET file == tree[n].path
      new == First(File(file))
  IN  IF File(file) = {} \/ Loaded(file)
      THEN UNCHANGED <<modules, module_link>>
      ELSE /\ modules' = Append(modules, new)
           /\ module_link' = [module_link EXCEPT ![n] = new]

(* import_module: the module that was loaded from this path, or else the   *)
(* file, parsed and appended to the list, or else an error that is counted *)
(* nowhere.                                                                *)
ImportModule(n) ==
  LET file == tree[n].path
      new == First(File(file))
  IN  IF File(file) = {}
      THEN UNCHANGED <<modules, module_link>>
      ELSE /\ modules' = IF Loaded(file) THEN modules ELSE Append(modules, new)
           /\ module_link' = [module_link EXCEPT ![n] = new]

ResolveImport ==
  /\ phase = "import"
  /\ Ahead("Import") # {}
  /\ ImportModule(First(Ahead("Import")))
  /\ cursor' = First(Ahead("Import"))
  /\ UNCHANGED <<tree, module, path, scopes, type_checking, resultVars,
                 analyzerVars, phase, table>>

------------------------------------------------------------------------------
(* The walk (traverse_node). *)

(* The next node: the module itself, or the next child of the open node. *)
Pending ==
  IF path = <<>> THEN IF cursor = Root THEN NoNode ELSE Root
  ELSE IF Open.left = <<>> THEN NoNode ELSE Head(Open.left)

(* Mutant: the symbol is looked up by its alias. *)
LinkImportByAlias(n) ==
  IF phase = "link" /\ Kind(n) = "Import"
  THEN link' = [link EXCEPT ![IdentifierOf(n)] = LookupInScope(module_link[n], Name(n))]
  ELSE UNCHANGED link

(* link_import_nodeptr, in the first pass only *)
LinkImport(n) ==
  IF phase = "link" /\ Kind(n) = "Import"
  THEN link' = [link EXCEPT ![IdentifierOf(n)] =
                  LookupInScope(module_link[n], Name(IdentifierOf(n)))]
  ELSE UNCHANGED link

(* The scope of a module that was not loaded is asked for, or a scope is *)
(* entered that the stack has no room for.                               *)
EnterFails(n) ==
  \/ phase = "link" /\ Kind(n) = "Import" /\ module_link[n] = NoNode
  \/ Scoped(n) /\ Len(scopes) = MaxNesting

(* enter1 or enter2, then enter_node *)
Enter ==
  /\ phase \in {"link", "check"}
  /\ Pending # NoNode
  /\ LET n == Pending
     IN  IF EnterFails(n)
         THEN phase' = "aborted" /\ UNCHANGED <<path, scopes, type_checking, link>>
         ELSE /\ path' = Append(IF path = <<>> THEN path
                                ELSE [path EXCEPT ![Len(path)].left = Tail(@)],
                                [node |-> n, left |-> tree[n].children])
              /\ scopes' = IF Scoped(n) THEN Append(scopes, n) ELSE scopes
              /\ type_checking' = type_checking + (IF Kind(n) = "Import" THEN 1 ELSE 0)
              /\ LinkImport(n)
              /\ UNCHANGED phase
  /\ UNCHANGED <<sourceVars, module, cursor, symbols, is_set, index, errors,
                 analyzerVars, table>>

Leaving == path # <<>> /\ Open.left = <<>>

(* Mutant: an Import goes on to count as a type. *)
LeaveNodeTyped(n) ==
  /\ path' = SubSeq(path, 1, Len(path) - 1)
  /\ scopes' = IF Scoped(n) THEN SubSeq(scopes, 1, Len(scopes) - 1) ELSE scopes
  /\ cursor' = n
  /\ UNCHANGED <<type_checking, module>>

(* leave_node *)
LeaveNode(n) ==
  /\ path' = SubSeq(path, 1, Len(path) - 1)
  /\ scopes' = IF Scoped(n) THEN SubSeq(scopes, 1, Len(scopes) - 1) ELSE scopes
  /\ type_checking' = type_checking - (IF Kind(n) = "Import" THEN 1 ELSE 0)
  /\ cursor' = n
  /\ UNCHANGED module

(* link_nodeptr: an Identifier that has no link yet gets one. *)
Linked(n) ==
  IF Kind(n) = "Identifier" /\ link[n] = NoNode
  THEN [link EXCEPT ![n] = Lookup(scopes', Name(n))]
  ELSE link

(* leave1 *)
LeaveFirst ==
  /\ phase = "link"
  /\ Leaving
  /\ LeaveNode(Open.node)
  /\ link' = IF type_checking' > 0 THEN Linked(Open.node) ELSE link
  /\ UNCHANGED <<sourceVars, symbols, is_set, index, errors, analyzerVars,
                 phase, table>>

------------------------------------------------------------------------------
(* The second pass (validate.c, analyze.c). *)

(* Mutant: a variable is set from the start. *)
ValidUnset(n, to) ==
  CASE Kind(n) = "Identifier" -> to # NoNode
    [] Kind(n) = "Import"     -> link[IdentifierOf(n)] # NoNode
    [] Kind(n) = "Call"       ->
         /\ Kind(Definition(n)) \in {"Function", "ForeignFunction"}
         /\ Cardinality(Parameters(Definition(n))) = Len(tree[n].children) - 1
    [] OTHER                  -> tree[n].valid

(* validate_nodeptr, for an Identifier that is linked to the node to: the *)
(* code compares lines, and here every node has one of its own.  A call   *)
(* is told from its definition, the types of its arguments aside.         *)
Valid(n, to) ==
  CASE Kind(n) = "Identifier" ->
         /\ to # NoNode
         /\ type_checking' > 0
              \/ /\ Kind(to) \in {"Variable", "Parameter"} => n >= to
                 /\ Kind(to) = "Variable" => to \in is_set
    [] Kind(n) = "Import"     -> link[IdentifierOf(n)] # NoNode
    [] Kind(n) = "Call"       ->
         /\ Kind(Definition(n)) \in {"Function", "ForeignFunction"}
         /\ Cardinality(Parameters(Definition(n))) = Len(tree[n].children) - 1
    [] OTHER                  -> tree[n].valid

IsMain(n) == Name(n) = "main"

(* Mutant: the variables of all functions are counted together. *)
IndexNodeOn(n) ==
  /\ index' = CASE Kind(n) = "Function"        ->
                     [index EXCEPT ![n] = IF IsMain(n) THEN 0 ELSE function_index + 1]
                [] Kind(n) = "ForeignFunction" -> [index EXCEPT ![n] = foreign_index]
                [] Kind(n) \in {"Variable", "Constant"} ->
                     [index EXCEPT ![n] = variable_index]
                [] OTHER                       -> index
  /\ has_main' = (has_main \/ (Kind(n) = "Function" /\ IsMain(n)))
  /\ function_index' = function_index + (IF Kind(n) = "Function" /\ ~IsMain(n) THEN 1 ELSE 0)
  /\ foreign_index' = foreign_index + (IF Kind(n) = "ForeignFunction" THEN 1 ELSE 0)
  /\ variable_index' = variable_index + (IF Kind(n) \in {"Variable", "Constant"} THEN 1 ELSE 0)

(* Mutant: main takes the next index like any function. *)
IndexNodeMain(n) ==
  /\ index' = CASE Kind(n) = "Function"        ->
                     [index EXCEPT ![n] = function_index + 1]
                [] Kind(n) = "ForeignFunction" -> [index EXCEPT ![n] = foreign_index]
                [] Kind(n) \in {"Variable", "Constant"} ->
                     [index EXCEPT ![n] = variable_index]
                [] OTHER                       -> index
  /\ has_main' = (has_main \/ (Kind(n) = "Function" /\ IsMain(n)))
  /\ function_index' = function_index + (IF Kind(n) = "Function" THEN 1 ELSE 0)
  /\ foreign_index' = foreign_index + (IF Kind(n) = "ForeignFunction" THEN 1 ELSE 0)
  /\ variable_index' = CASE Kind(n) = "Function" -> 0
                         [] Kind(n) \in {"Variable", "Constant"} -> variable_index + 1
                         [] OTHER -> variable_index

(* index_node: leaving a function starts the next one's variables. *)
IndexNode(n) ==
  /\ index' = CASE Kind(n) = "Function"        ->
                     [index EXCEPT ![n] = IF IsMain(n) THEN 0 ELSE function_index + 1]
                [] Kind(n) = "ForeignFunction" -> [index EXCEPT ![n] = foreign_index]
                [] Kind(n) \in {"Variable", "Constant"} ->
                     [index EXCEPT ![n] = variable_index]
                [] OTHER                       -> index
  /\ has_main' = (has_main \/ (Kind(n) = "Function" /\ IsMain(n)))
  /\ function_index' = function_index + (IF Kind(n) = "Function" /\ ~IsMain(n) THEN 1 ELSE 0)
  /\ foreign_index' = foreign_index + (IF Kind(n) = "ForeignFunction" THEN 1 ELSE 0)
  /\ variable_index' = CASE Kind(n) = "Function" -> 0
                         [] Kind(n) \in {"Variable", "Constant"} -> variable_index + 1
                         [] OTHER -> variable_index

(* leave2 of a node that nothing is wrong with: a variable with a value is *)
(* set from now on (tree/validate.c:743-755).                              *)
Accept(n) ==
  /\ Valid(n, Linked(n)[n])
  /\ is_set' = IF Kind(n) = "Variable" /\ tree[n].children # <<>>
               THEN is_set \union {n} ELSE is_set
  /\ IndexNode(n)
  /\ UNCHANGED <<symbols, errors, panic>>

(* leave2 of a node with an error: the rest of its statement is skipped. *)
Reject(n) ==
  /\ ~Valid(n, Linked(n)[n])
  /\ errors' = [errors EXCEPT ![Root] = @ + 1]
  /\ panic' = TRUE
  /\ symbols' = IF Kind(n) \in {"Function", "Import"}
                THEN [symbols EXCEPT ![scopes'[Len(scopes')]] = @ \ {n}]
                ELSE symbols
  /\ UNCHANGED <<is_set, index, function_index, foreign_index, variable_index,
                 has_main>>

LeaveSecond ==
  /\ phase = "check"
  /\ Leaving
  /\ ~panic
  /\ LeaveNode(Open.node)
  /\ link' = Linked(Open.node)
  /\ IF Kind(Open.node) = "Call" /\ Endless(Open.node)
     THEN /\ phase' = "crashed"
          /\ UNCHANGED <<symbols, is_set, index, errors, analyzerVars>>
     ELSE /\ Accept(Open.node) \/ Reject(Open.node)
          /\ UNCHANGED phase
  /\ UNCHANGED <<sourceVars, table>>

(* leave2 after an error: statements, but not definitions, end the panic. *)
LeaveInPanic ==
  /\ phase = "check"
  /\ Leaving
  /\ panic
  /\ LeaveNode(Open.node)
  /\ panic' = (Kind(Open.node) \notin {"Statement", "Import"})
  /\ UNCHANGED <<sourceVars, resultVars, function_index, foreign_index,
                 variable_index, has_main, phase, table>>

------------------------------------------------------------------------------
(* The function table (bytecode.c). *)

Register ==
  /\ phase = "generate"
  /\ Ahead("Function") # {}
  /\ LET f == First(Ahead("Function"))
     IN  /\ table' = [i \in DOMAIN table \union {index[f]} |->
                        IF i = index[f] THEN f ELSE table[i]]
         /\ cursor' = f
  /\ UNCHANGED <<sourceVars, module, path, scopes, type_checking, resultVars,
                 analyzerVars, phase>>

------------------------------------------------------------------------------
(* From module to module and from phase to phase. *)

(* Mutant: the list of modules is not followed. *)
StaysWithModule ==
  /\ ModuleDone
  /\ module < Len(modules)
  /\ cursor' = 0
  /\ UNCHANGED <<module, sourceVars, path, scopes, type_checking, resultVars,
                 analyzerVars, phase, table>>

NextModule ==
  /\ ModuleDone
  /\ module < Len(modules)
  /\ module' = module + 1
  /\ cursor' = 0
  /\ UNCHANGED <<sourceVars, path, scopes, type_checking, resultVars,
                 analyzerVars, phase, table>>

AllDone == ModuleDone /\ module = Len(modules)

(* tarot_analyze_ast and main.c call the phases one after the other. *)
Begin(next) ==
  /\ phase' = next
  /\ module' = 1
  /\ cursor' = 0
  /\ UNCHANGED <<sourceVars, path, scopes, type_checking, symbols, link, is_set,
                 index, analyzerVars, table>>

FinishImport == phase = "import" /\ AllDone /\ Begin("link") /\ UNCHANGED errors
FinishFirst == phase = "link" /\ AllDone /\ Begin("check") /\ UNCHANGED errors

(* run_pass_2 asks for a main function, tarot_validate for errors. *)
FinishSecond ==
  /\ phase = "check"
  /\ AllDone
  /\ errors' = [errors EXCEPT ![Main] = @ + (IF has_main THEN 0 ELSE 1)]
  /\ Begin(IF \A i \in 1 .. Len(modules) : errors'[modules[i]] = 0
           THEN "generate" ELSE "rejected")

FinishGenerate == phase = "generate" /\ AllDone /\ Begin("finished") /\ UNCHANGED errors

Over == phase \in {"finished", "rejected", "aborted", "crashed"}
Stopped == Over /\ UNCHANGED vars

Init ==
  /\ tree \in Sources
  /\ modules = <<Main>>
  /\ module_link = [n \in Node |-> NoNode]
  /\ symbols = [n \in Node |-> {s \in Node : tree[s].owner = n /\ Kind(s) \in Declaring}]
  /\ link = [n \in Node |-> NoNode]
  /\ is_set = {}
  /\ index = [n \in Node |-> 0]
  /\ errors = [n \in Node |-> 0]
  /\ phase = "import"
  /\ module = 1
  /\ cursor = 0
  /\ path = <<>>
  /\ scopes = <<>>
  /\ type_checking = 0
  /\ function_index = 0
  /\ foreign_index = 0
  /\ variable_index = 0
  /\ has_main = FALSE
  /\ panic = FALSE
  /\ table = <<>>

Proceed ==
  \/ ResolveImport \/ Enter \/ LeaveFirst \/ LeaveSecond \/ LeaveInPanic
  \/ Register \/ NextModule
  \/ FinishImport \/ FinishFirst \/ FinishSecond \/ FinishGenerate

Next == Proceed \/ Stopped

Spec == Init /\ [][Next]_vars /\ WF_vars(Proceed)

------------------------------------------------------------------------------
(* Properties. *)

(* The types of the state; an import is the only node that raises and *)
(* lowers type_checking, so it is a flag.                             *)
TypeOK ==
  /\ modules \in Seq(Node)
  /\ module \in 1 .. Len(modules)
  /\ module_link \in [Node -> Node \union {NoNode}]
  /\ link \in [Node -> Node \union {NoNode}]
  /\ symbols \in [Node -> SUBSET Node]
  /\ cursor \in 0 .. Len(tree)
  /\ Len(scopes) <= MaxNesting
  /\ type_checking \in 0 .. 1
  /\ is_set \subseteq Node
  /\ index \in [Node -> Nat]
  /\ errors \in [Node -> Nat]

Belongs(n) == \E i \in 1 .. Len(modules) : modules[i] = tree[n].root
Functions == {n \in Node : Belongs(n) /\ Kind(n) = "Function"}
Values == {"Variable", "Constant"}
ValuesOf(f) == {n \in Node : tree[n].owner = f /\ Kind(n) \in Values}

(* The variables of a function have the slots from 0 on, without gaps and  *)
(* within what register_function reserves for a frame, and the function    *)
(* refers to no others: index_node counts them over the whole program      *)
(* (tree/analyze.c:221).                                                   *)
SlotsOfFrame ==
  phase = "finished" =>
    /\ \A f \in Functions :
         /\ {index[n] : n \in ValuesOf(f)} = 0 .. Cardinality(ValuesOf(f)) - 1
         /\ Cardinality(ValuesOf(f)) <= Cardinality(symbols[f]) - Cardinality(Parameters(f))
    /\ \A n \in Node : Belongs(n) /\ Kind(n) = "Identifier" /\ Kind(link[n]) \in Values
         => tree[n].owner = tree[link[n]].owner

(* The constants outside of functions; and they are apart from the         *)
(* variables, if no function with variables comes after one of them and no *)
(* name refers to them.  They take their indices from the same counter.    *)
Globals == {c \in Node : /\ Kind(c) \in Values
                         /\ \A f \in Node : Kind(f) = "Function" => tree[c].owner # f}
InOrder(m, n) ==
  \E i, j \in 1 .. Len(modules) :
    /\ tree[m].root = modules[i] /\ tree[n].root = modules[j]
    /\ i < j \/ (i = j /\ m < n)
GlobalsLast ==
  \A c \in Globals, f \in Functions : Belongs(c) /\ ValuesOf(f) # {} => InOrder(f, c)
GlobalsApart ==
  /\ GlobalsLast
  /\ \A n \in Node : Belongs(n) /\ Kind(n) = "Identifier" => link[n] \notin Globals

(* Every function of every module has an entry of its own, without gaps in *)
(* between, and index 0, where the program begins, is its own main         *)
(* (bytecode/bytecode.c:816), if that is the only main there is (OneMain). *)
TableComplete ==
  phase = "finished" =>
    /\ DOMAIN table = 0 .. Cardinality(Functions) - 1
    /\ {table[i] : i \in DOMAIN table} = Functions
    /\ IsMain(table[0]) /\ tree[table[0]].root = Main

(* The import, the passes and the generator end, and accept or reject the  *)
(* program, though its modules import each other (tree/import.c:73 follows *)
(* the list that import_module appends to).                                *)
Decides == <>(phase \in {"finished", "rejected"})

(* The assertions of the C code hold: a node is what it is cast to         *)
(* (tree/node.c:334), and scopes are entered within the stack (scope.c:26). *)
AssertionsHold == phase # "aborted"

------------------------------------------------------------------------------
(* What names mean, and which programs are right (Scoping.tla). *)
Reference == INSTANCE Scoping

(* What is loaded is what the program needs, each file once, and every *)
(* import is linked to the module of its file (tree/import.c:69 walks  *)
(* the list of modules while it grows).                                *)
ModulesLoaded ==
  phase # "import" =>
    /\ {modules[i] : i \in DOMAIN modules} = Reference!Belonging(tree)
    /\ Len(modules) = Cardinality(Reference!Belonging(tree))
    /\ \A n \in Node : Belongs(n) /\ Kind(n) = "Import"
         => module_link[n] = Reference!ModuleAt(tree, tree[n].path)

(* A program is accepted if, and only if, it is right: after an error     *)
(* leave2 skips what follows up to the end of a statement, and what it    *)
(* skips is neither indexed nor marked as set (tree/analyze.c:306-317).   *)
AcceptsRight ==
  /\ phase = "finished" => Reference!Right(tree)
  /\ phase = "rejected" => ~Reference!Right(tree)

(* In an accepted program every name is linked to what it means: the      *)
(* passes resolve imports, types and names in an order that depends on    *)
(* the order of the modules (tree/analyze.c:254-266).                     *)
LinksMean ==
  phase = "finished" =>
    \A n \in Node : Belongs(n) /\ Kind(n) = "Identifier" =>
      Definition(n) = IF n \in Reference!Imported(tree)
                      THEN Reference!Origin(tree, n - 1)
                      ELSE Reference!Meaning(tree, n)
==============================================================================
