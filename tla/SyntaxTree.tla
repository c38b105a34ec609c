----------------------------- MODULE SyntaxTree -----------------------------
(***************************************************************************)
(* The nodes of tree/node.c in a heap: a function from the nodes that are  *)
(* allocated to what the parser puts into them.  A node keeps its kind,    *)
(* its name or operator, a second text (a path, a visibility, the kind of  *)
(* a block), the node it links to and the nodes in its fields, in the      *)
(* order in which they were set.                                           *)
(***************************************************************************)
EXTENDS Integers, Sequences, FiniteSets, TLC

\* The pointer to no node.
Null == 0

\* What tarot_create_node leaves in a node: nothing but its kind.
Fresh(id, kind, text) ==
    [kind |-> kind, text |-> text, note |-> "none", link |-> Null,
     kids |-> <<>>, below |-> {id}]

Create(heap, id, kind, text) ==
    [n \in DOMAIN heap \cup {id} |-> IF n = id THEN Fresh(id, kind, text) ELSE heap[n]]

\* The fields that traverse_node visits, for the kinds that have any.
Traversed ==
    [Module |-> {"block"}, Block |-> {"element"}, Namespace |-> {"block"},
     LogicalExpression |-> {"left_operand", "right_operand"},
     RelationalExpression |-> {"left_operand", "right_operand"},
     ArithmeticExpression |-> {"left_operand", "right_operand"},
     InfixExpression |-> {"expression"}, Not |-> {"expression"},
     Neg |-> {"expression"}, Abs |-> {"expression"},
     Range |-> {"start", "end", "stepsize"},
     FunctionCall |-> {"identifier", "arguments"}, Relation |-> {"parent"},
     Subscript |-> {"identifier", "index"}, Pair |-> {"key", "value"},
     Typecast |-> {"operand"}, List |-> {"element"}, Dict |-> {"element"},
     FString |-> {"element"}, FStringExpression |-> {"expression"},
     Type |-> {"identifier", "subtype"},
     If |-> {"condition", "block", "elseif"}, While |-> {"condition", "block"},
     For |-> {"identifier", "expression", "block"},
     Match |-> {"pattern", "block"}, Case |-> {"condition", "block"},
     Assignment |-> {"identifier", "value"},
     ExpressionStatement |-> {"expression"}, Import |-> {"identifier"},
     PrintStatement |-> {"arguments"}, Input |-> {"prompt"},
     Try |-> {"block", "handlers"}, Catch |-> {"identifiers", "block"},
     Raise |-> {"identifier"}, Return |-> {"expression"},
     Assert |-> {"condition"}, Class |-> {"extends", "block"},
     Enum |-> {"block"}, Constructor |-> {"parameters", "block"},
     Function |-> {"parameters", "return_value", "block"},
     Method |-> {"parameters", "return_value", "block"},
     ForeignFunction |-> {"parameters", "return_value"}, Union |-> {"block"},
     Variable |-> {"type", "value"}, Attribute |-> {"type", "value"},
     Constant |-> {"type", "value"}, Parameter |-> {"type", "value"}]

IsTraversed(kind, field) ==
    kind \in DOMAIN Traversed /\ field \in Traversed[kind]

\* node->field = kid; the nodes that a traversal reaches are kept in "below".
Attach(heap, node, field, kid) ==
    IF kid = Null THEN heap
    ELSE [heap EXCEPT
            ![node].kids = Append(@, [field |-> field, node |-> kid]),
            ![node].below = IF IsTraversed(heap[node].kind, field)
                            THEN @ \cup heap[kid].below ELSE @]

\* The node in a field, Null when the field was never set.
Kid(heap, node, field) ==
    LET kids == heap[node].kids
        set == {i \in DOMAIN kids : kids[i].field = field}
    IN  IF set = {} THEN Null ELSE kids[CHOOSE i \in set : \A j \in set : i <= j].node

(* Mutant: the nodes below are not freed. *)
FreeOne(heap, node) == [n \in DOMAIN heap \ {node} |-> heap[n]]

\* tarot_free_node: a postorder traversal that frees what it visits.
Free(heap, node) == [n \in DOMAIN heap \ heap[node].below |-> heap[n]]

\* The kinds tarot_copy_node has no case for: it aborts on them.
NotCopied == {"Range", "Break", "Breakpoint"}

CanCopy(heap, node) ==
    \A n \in heap[node].below : heap[n].kind \notin NotCopied

\* tarot_copy_node: node n becomes n + shift, and only the fields that are
\* traversed are copied too.
Copy(heap, node, shift) ==
    LET Moved(k, kind) == IF IsTraversed(kind, k.field)
                          THEN [k EXCEPT !.node = @ + shift] ELSE k
        Copied(n) == [heap[n] EXCEPT
                        !.below = {b + shift : b \in @},
                        !.kids = [i \in DOMAIN @ |-> Moved(@[i], heap[n].kind)]]
        copies == {b + shift : b \in heap[node].below}
    IN  [n \in DOMAIN heap \cup copies |->
            IF n \in copies THEN Copied(n - shift) ELSE heap[n]]
=============================================================================
