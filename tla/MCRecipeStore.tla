---------------------------- MODULE MCRecipeStore ----------------------------
(* Instances of RecipeStore for TLC: which calls the clients make.         *)
EXTENDS RouterJobs

Product(key, amount) == [key |-> key, amount |-> amount]
Recipe(name, items) == [name |-> name, items |-> items]
Request(op, id, arg) == [op |-> op, id |-> id, arg |-> arg]

\* Products under two keys; an empty name, a negative amount; a batch that
\* overwrites itself and one whose second row fails the CHECK.
ProductArgs == {Product(1, 0), Product(1, 1), Product(2, 1)}
ProductRequests ==
    {Request("CreateProduct", 0, p) : p \in ProductArgs \cup {Product(Empty, 1), Product(2, -1)}}
    \cup {Request("UpdateProduct", i, p) : i \in 1 .. 2, p \in ProductArgs \cup {Product(1, -1)}}
    \cup {Request(op, i, Null) : op \in {"GetProduct", "DeleteProduct"}, i \in 1 .. 2}
    \cup {Request("GetProducts", 0, Null), Request("InsertProduct", 0, Product(1, -1)),
          Request("InsertProduct", 0, Product(2, 0))}
    \cup {Request("InsertProducts", 0, b) : b \in
             {<<Product(1, 1), Product(1, 0)>>, <<Product(2, 0), Product(1, -1)>>}}

\* Recipes under two names: without ingredients, with one, with two, and with
\* one listed twice; an invalid one; batches as above.
RecipeArgs ==
    {Recipe(1, <<>>), Recipe(1, <<Product(1, 1), Product(2, 1)>>),
     Recipe(2, <<Product(1, 1), Product(1, 0)>>)}
RecipeRequests ==
    {Request("CreateRecipe", 0, r) : r \in RecipeArgs \cup {Recipe(2, <<Product(Empty, 1)>>)}}
    \cup {Request("UpdateRecipe", i, r) : i \in 1 .. 2, r \in RecipeArgs}
    \cup {Request(op, i, Null) : op \in {"GetRecipe", "DeleteRecipe"}, i \in 1 .. 2}
    \cup {Request("GetRecipes", 0, Null), Request("InsertRecipe", 0, Recipe(2, <<Product(2, 1)>>))}
    \cup {Request("InsertRecipes", 0, b) : b \in
             {<<Recipe(1, <<Product(2, 1)>>), Recipe(1, <<Product(1, 1)>>)>>,
              <<Recipe(2, <<Product(1, 0)>>), Recipe(1, <<Product(1, -1)>>)>>}}

\* A pantry and recipes that need more of it, just as much, less, or nothing, and
\* what is refused or fails half-way.
PantryRequests ==
    {Request("CreateProduct", 0, p) : p \in {Product(1, 1), Product(2, 1), Product(2, -1), Product(Empty, 1)}}
    \cup {Request("UpdateProduct", i, p) : i \in 1 .. 2, p \in {Product(1, 0), Product(2, 1), Product(1, -1)}}
    \cup {Request(op, i, Null) : op \in {"GetProduct", "DeleteProduct"}, i \in 1 .. 2}
    \cup {Request("DeleteRecipe", 1, Null), Request("InsertProduct", 0, Product(1, -1)),
          Request("InsertProduct", 0, Product(2, 0))}
    \cup {Request("InsertProducts", 0, b) : b \in
             {<<Product(1, 1), Product(1, 0)>>, <<Product(1, 1), Product(2, -1)>>}}
    \cup {Request("CreateRecipe", 0, r) : r \in {Recipe(2, <<Product(1, 1), Product(2, 1)>>), Recipe(3, <<>>)}}
    \cup {Request("UpdateRecipe", i, Recipe(2, <<Product(1, 0)>>)) : i \in 1 .. 2}
    \cup {Request(op, 0, Null) : op \in {"GetProducts", "GetCookableRecipes"}}
=============================================================================
