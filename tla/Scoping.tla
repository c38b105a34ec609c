------------------------------- MODULE Scoping -------------------------------
(***************************************************************************)
(* What names mean, and which programs are right, read off the tree of     *)
(* Analyzer.tla without walks, passes or scope stacks: the reference that  *)
(* the analyzer is compared with.                                          *)
(***************************************************************************)
EXTENDS Integers, Sequences, FiniteSets

CONSTANT NoNode

Declaring == {"Namespace", "Function", "ForeignFunction", "Parameter",
              "Variable", "Constant", "Import"}

(* The declaration of a name in the scope of o itself. *)
Declared(t, o, name) ==
  LET found == {s \in 1 .. Len(t) : /\ t[s].owner = o
                                    /\ t[s].kind \in Declaring
                                    /\ t[s].name = name}
  IN  IF found = {} THEN NoNode ELSE CHOOSE s \in found : TRUE

(* The module in a file. *)
Modules(t) == {m \in 1 .. Len(t) : t[m].kind = "Module"}
ModuleAt(t, path) ==
  LET found == {m \in Modules(t) : t[m].path = path}
  IN  IF found = {} THEN NoNode ELSE CHOOSE m \in found : TRUE

(* An import means what the module it names declares, or imports, in turn. *)
Source(t, s) ==
  IF s # NoNode /\ t[s].kind = "Import" /\ ModuleAt(t, t[s].path) # NoNode
  THEN Declared(t, ModuleAt(t, t[s].path), t[t[s].children[1]].name)
  ELSE s
Origin(t, s) ==
  LET source[k \in 0 .. Cardinality(Modules(t))] ==
        IF k = 0 THEN s ELSE Source(t, source[k - 1])
  IN  source[Cardinality(Modules(t))]

(* An identifier means the innermost declaration around it. *)
Around(t, n, name) ==
  LET homes == {o \in 1 .. n : t[o].last >= n /\ Declared(t, o, name) # NoNode}
  IN  IF homes = {} THEN NoNode
      ELSE Declared(t, CHOOSE o \in homes : \A p \in homes : p <= o, name)

Meaning(t, n) == Origin(t, Around(t, n, t[n].name))

(* The modules that belong to the program: the least set with its own file *)
(* that has all files its members import from, as far as there are such.   *)
Closed(t, set) ==
  /\ ModuleAt(t, "main") \in set
  /\ \A n \in 1 .. Len(t) : t[n].kind = "Import" /\ t[n].root \in set =>
       ModuleAt(t, t[n].path) \in set \union {NoNode}
Belonging(t) ==
  LET closed == {set \in SUBSET Modules(t) : Closed(t, set)}
  IN  CHOOSE set \in closed : \A other \in closed : set \subseteq other
Nodes(t) == {n \in 1 .. Len(t) : t[n].root \in Belonging(t)}

(* The identifiers of import statements name symbols of another module. *)
Imported(t) == {t[n].children[1] : n \in {i \in 1 .. Len(t) : t[i].kind = "Import"}}

ParametersOf(t, f) ==
  {i \in 1 .. Len(t[f].children) : t[t[f].children[i]].kind = "Parameter"}

(* A name is right when it means something, a variable from the end of its *)
(* declaration on; a call when it is one of a function with as many        *)
(* parameters; anything else when the rules about its types accept it.     *)
RightNode(t, n) ==
  CASE t[n].kind = "Import" -> Origin(t, n) # NoNode
    [] t[n].kind = "Identifier" /\ n \notin Imported(t) ->
         /\ Meaning(t, n) # NoNode
         /\ t[Meaning(t, n)].kind = "Variable" => n > t[Meaning(t, n)].last
    [] t[n].kind = "Call" ->
         LET f == Meaning(t, t[n].children[1])
         IN  /\ f # NoNode
             /\ t[f].kind \in {"Function", "ForeignFunction"}
             /\ Cardinality(ParametersOf(t, f)) = Len(t[n].children) - 1
    [] OTHER -> t[n].valid

Right(t) ==
  /\ \A n \in Nodes(t) : RightNode(t, n)
  /\ \E n \in Nodes(t) : t[n].kind = "Function" /\ t[n].name = "main"

(* No name is declared in a scope inside of another scope that has it.  The *)
(* parser sees to that for the declarations that come later.                *)
Unshadowed(t) ==
  LET declarations == {n \in 1 .. Len(t) : t[n].kind \in Declaring}
  IN  \A m, n \in declarations :
        m # n /\ t[m].name = t[n].name
          => ~(t[m].owner <= n /\ n <= t[t[m].owner].last)
==============================================================================
