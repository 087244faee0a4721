----------------------------- MODULE RecipeBook -----------------------------
(***************************************************************************)
(* What the recipe service promises, without tables, statements or         *)
(* transactions: a book of products and of recipes with their ingredients. *)
(* A request takes effect at one instant and as a whole, or not at all,    *)
(* and its answer says which, except for Storage: after a storage failure  *)
(* the caller does not know.                                               *)
(***************************************************************************)
EXTENDS Integers, Sequences, FiniteSets

CONSTANTS Requests,   \* the calls clients make
          NoCall,     \* no call is in progress
          Empty,      \* the empty name
          Null        \* absent

VARIABLES products,  \* set of [id, key, amount]
          recipes,   \* set of [id, name, items], items a set of [key, amount]
          call,      \* the request in progress, or NoCall
          applied,   \* whether it has taken effect
          reply      \* the last answer, or Null

vars == <<products, recipes, call, applied, reply>>

Init ==
    /\ products = {}
    /\ recipes = {}
    /\ call = NoCall
    /\ applied = FALSE
    /\ reply = Null
-----------------------------------------------------------------------------
ValidProduct(p) == p.key # Empty /\ p.amount >= 0

ValidRecipe(r) == r.name # Empty /\ \A i \in DOMAIN r.items : ValidProduct(r.items[i])

\* RecipeService.hpp: what is validated before anything is persisted.
Valid(c) ==
    /\ c.op \in {"CreateProduct", "UpdateProduct"} => ValidProduct(c.arg)
    /\ c.op \in {"CreateRecipe", "UpdateRecipe"} => ValidRecipe(c.arg)

\* The ingredients of a recipe as given: of two with one key the last counts.
Ingredients(r) ==
    {r.items[i] : i \in {i \in DOMAIN r.items :
                            \A k \in i + 1 .. Len(r.items) : r.items[k].key # r.items[i].key}}

ProductIs(p, arg) == p.key = arg.key /\ p.amount = arg.amount

RecipeIs(r, arg) == r.name = arg.name /\ r.items = Ingredients(arg)

\* One new element, with an id nobody else has.
Adds(new, old, Is(_, _), arg) ==
    \E x \in new :
        /\ new = old \cup {x}
        /\ Is(x, arg)
        /\ \A y \in old : y.id # x.id

\* The element with this id is exchanged for one with the same id.
Replaces(new, old, id, Is(_, _), arg) ==
    /\ \E y \in old : y.id = id
    /\ \E x \in new :
           /\ x.id = id
           /\ Is(x, arg)
           /\ new = {y \in old : y.id # id} \cup {x}

Removes(new, old, id) ==
    /\ \E y \in old : y.id = id
    /\ new = {y \in old : y.id # id}

\* A batch: elements named in it are added or overwritten in place, in order,
\* so of two with one name the last counts; the others stay.
Merges(new, old, Is(_, _), Name(_), args) ==
    LET given == {Name(args[i]) : i \in DOMAIN args}
        IsLast(i) == \A k \in DOMAIN args : k > i => Name(args[k]) # Name(args[i])
    IN /\ {Name(x) : x \in new} = {Name(x) : x \in old} \cup given
       /\ \A x, y \in new : (x.id = y.id \/ Name(x) = Name(y)) => x = y
       /\ \A x \in new : \A i \in DOMAIN args : Name(args[i]) = Name(x) /\ IsLast(i) => Is(x, args[i])
       /\ \A x \in new : Name(x) \notin given => x \in old
       /\ \A x \in old : \E y \in new : y.id = x.id /\ Name(y) = Name(x)

Key(p) == p.key

Name(r) == r.name

\* What the request in progress means.
Effect(op, id, arg) ==
    \/ op = "CreateProduct" /\ Adds(products', products, ProductIs, arg) /\ recipes' = recipes
    \/ op = "UpdateProduct" /\ Replaces(products', products, id, ProductIs, arg) /\ recipes' = recipes
    \/ op = "DeleteProduct" /\ Removes(products', products, id) /\ recipes' = recipes
    \/ op = "InsertProduct" /\ Merges(products', products, ProductIs, Key, <<arg>>) /\ recipes' = recipes
    \/ op = "InsertProducts" /\ Merges(products', products, ProductIs, Key, arg) /\ recipes' = recipes
    \/ op = "CreateRecipe" /\ Adds(recipes', recipes, RecipeIs, arg) /\ products' = products
    \/ op = "UpdateRecipe" /\ Replaces(recipes', recipes, id, RecipeIs, arg) /\ products' = products
    \/ op = "DeleteRecipe" /\ Removes(recipes', recipes, id) /\ products' = products
    \/ op = "InsertRecipe" /\ Merges(recipes', recipes, RecipeIs, Name, <<arg>>) /\ products' = products
    \/ op = "InsertRecipes" /\ Merges(recipes', recipes, RecipeIs, Name, arg) /\ products' = products

Reads == {"GetProduct", "GetProducts", "GetRecipe", "GetRecipes", "GetCookableRecipes"}

\* The sequence holds the elements of the set, each once.
Lists(seq, set) == Len(seq) = Cardinality(set) /\ {seq[i] : i \in DOMAIN seq} = set

\* RecipeService.hpp:49: the recipes whose required ingredients are available.
Cookable ==
    {r \in recipes : \A i \in r.items : \E p \in products : p.key = i.key /\ p.amount >= i.amount}

\* What a completed request answers with.
Answers(op, id, arg, value) ==
    \/ op = "CreateProduct" /\ value \in products /\ ProductIs(value, arg)
    \/ op = "CreateRecipe" /\ value \in recipes /\ RecipeIs(value, arg)
    \/ op \in {"UpdateProduct", "DeleteProduct", "UpdateRecipe", "DeleteRecipe",
               "InsertProduct", "InsertProducts", "InsertRecipe", "InsertRecipes"} /\ value = Null
    \/ op = "GetProducts" /\ Lists(value, products)
    \/ op = "GetRecipes" /\ Lists(value, recipes)
    \/ op = "GetCookableRecipes" /\ Lists(value, Cookable)
    \/ op = "GetProduct" /\ value \in products /\ value.id = id
    \/ op = "GetRecipe" /\ value \in recipes /\ value.id = id
    \/ op = "GetProduct" /\ value = Null /\ \A p \in products : p.id # id
    \/ op = "GetRecipe" /\ value = Null /\ \A r \in recipes : r.id # id

Absent(op, id) ==
    \/ op \in {"UpdateProduct", "DeleteProduct"} /\ \A p \in products : p.id # id
    \/ op \in {"UpdateRecipe", "DeleteRecipe"} /\ \A r \in recipes : r.id # id
-----------------------------------------------------------------------------
Request ==
    /\ call = NoCall
    /\ call' \in Requests
    /\ applied' = FALSE
    /\ reply' = Null
    /\ UNCHANGED <<products, recipes>>

TakeEffect ==
    /\ call # NoCall
    /\ ~applied
    /\ Valid(call)
    /\ Effect(call.op, call.id, call.arg)
    /\ applied' = TRUE
    /\ UNCHANGED <<call, reply>>

Reply(status, value) ==
    /\ call # NoCall
    /\ \/ /\ status = "ok"
          /\ applied \/ call.op \in Reads
          /\ Answers(call.op, call.id, call.arg, value)
       \/ status = "Validation" /\ ~applied /\ ~Valid(call)
       \/ status = "NotFound" /\ ~applied /\ Absent(call.op, call.id)
       \/ status = "Storage" /\ Valid(call)
    /\ reply' = [status |-> status, value |-> value]
    /\ call' = NoCall
    /\ UNCHANGED <<products, recipes, applied>>

\* The process dies: nobody gets an answer, and what took effect stays.
Crash ==
    /\ call' = NoCall
    /\ reply' = Null
    /\ UNCHANGED <<products, recipes>>

Next ==
    \/ Request
    \/ TakeEffect
    \/ reply' # Null /\ Reply(reply'.status, reply'.value)
    \/ Crash

Spec == Init /\ [][Next]_vars
=============================================================================
