--------------------------- MODULE RecipeDatabase ---------------------------
(***************************************************************************)
(* The tables and prepared statements of types/SQL/Types.hpp as operators  *)
(* on a database value.  A product's (name, dimension) pair is one key, a  *)
(* number, because the code only ever compares the two together; recipe    *)
(* names are numbers too, so that ORDER BY has an order.  Dates are left   *)
(* out: no statement reads them.                                           *)
(*                                                                         *)
(*   products    : rows [id, key, amount]        UNIQUE(name, dimension)   *)
(*   recipes     : rows [id, name]               UNIQUE(name)              *)
(*   ingredients : rows [recipe, key, amount]    PRIMARY KEY(recipe, key)  *)
(*   productSeq, recipeSeq : the AUTOINCREMENT counters (sqlite_sequence)  *)
(***************************************************************************)
EXTENDS Integers, SequencesExt

\* The empty string, as a product key or as a recipe name.
Empty == 0

\* std::nullopt, and SQL's NULL.
Null == [null |-> TRUE]

EmptyDb == [products |-> {}, recipes |-> {}, ingredients |-> {}, productSeq |-> 0, recipeSeq |-> 0]

\* What the schema lets a database be.
SchemaHolds(db) ==
    /\ \A p, q \in db.products : (p.id = q.id \/ p.key = q.key) => p = q
    /\ \A r, s \in db.recipes : (r.id = s.id \/ r.name = s.name) => r = s
    /\ \A i, j \in db.ingredients : (i.recipe = j.recipe /\ i.key = j.key) => i = j
    /\ \A i \in db.ingredients : \E r \in db.recipes : r.id = i.recipe
    /\ \A x \in db.products \cup db.ingredients : x.amount >= 0
    /\ \A p \in db.products : p.id \in 1 .. db.productSeq
    /\ \A r \in db.recipes : r.id \in 1 .. db.recipeSeq
-----------------------------------------------------------------------------
(* Mutants, <Definition>_<Slip>, are never part of the model; each is a      *)
(* plausible slip in the code that a property has to notice.               *)

\* Without AUTOINCREMENT SQLite reuses the id of a deleted last row.
NextId_Reuses(rows, seq) == Max({r.id : r \in rows} \cup {0}) + 1

\* AUTOINCREMENT: one more than the largest id there ever was.
NextId(rows, seq) == seq + 1

-----------------------------------------------------------------------------
(* Products.                                                               *)

AddProduct(db, p) ==
    LET id == NextId(db.products, db.productSeq)
    IN [db EXCEPT !.products = @ \cup {[id |-> id, key |-> p.key, amount |-> p.amount]},
                  !.productSeq = IF @ < id THEN id ELSE @]

KeyTaken(db, key) == \E p \in db.products : p.key = key

\* kCreateProduct: a plain INSERT.
CreateProductFails(db, p) == p.amount < 0 \/ KeyTaken(db, p.key)

\* kInsertProduct: ON CONFLICT(name, dimension) DO UPDATE.  Whether an INSERT
\* that ends as an update uses up an AUTOINCREMENT value is SQLite's affair.
InsertProduct(db, p) ==
    IF KeyTaken(db, p.key)
    THEN {[db EXCEPT !.products = {IF q.key = p.key THEN [q EXCEPT !.amount = p.amount] ELSE q : q \in @},
                     !.productSeq = s] : s \in {db.productSeq, db.productSeq + 1}}
    ELSE {AddProduct(db, p)}

HasProduct(db, id) == \E p \in db.products : p.id = id

\* kSelectProductById.
ProductById(db, id) ==
    IF HasProduct(db, id) THEN CHOOSE p \in db.products : p.id = id ELSE Null

\* kUpdateProductById.
UpdateProductFails(db, id, p) ==
    /\ HasProduct(db, id)
    /\ p.amount < 0 \/ \E q \in db.products : q.key = p.key /\ q.id # id

UpdateProductRow(db, id, p) ==
    [db EXCEPT !.products =
        {IF q.id = id THEN [id |-> id, key |-> p.key, amount |-> p.amount] ELSE q : q \in @}]

\* kDeleteProductById.
DeleteProductRow(db, id) == [db EXCEPT !.products = {q \in @ : q.id # id}]
-----------------------------------------------------------------------------
(* Recipes.                                                                *)

NameTaken(db, name) == \E r \in db.recipes : r.name = name

\* kCreateRecipe: a plain INSERT.
AddRecipe(db, name) ==
    LET id == NextId(db.recipes, db.recipeSeq)
    IN [db EXCEPT !.recipes = @ \cup {[id |-> id, name |-> name]},
                  !.recipeSeq = IF @ < id THEN id ELSE @]

\* kInsertRecipeIfAbsent: INSERT OR IGNORE, with SQLite's affair as above.
InsertRecipeIfAbsent(db, name) ==
    IF NameTaken(db, name)
    THEN {[db EXCEPT !.recipeSeq = s] : s \in {db.recipeSeq, db.recipeSeq + 1}}
    ELSE {AddRecipe(db, name)}

\* kSelectRecipeIdByName.
RecipeIdByName(db, name) == (CHOOSE r \in db.recipes : r.name = name).id

HasRecipe(db, id) == \E r \in db.recipes : r.id = id

\* kUpdateRecipeNameById.
RenameFails(db, id, name) ==
    HasRecipe(db, id) /\ \E r \in db.recipes : r.name = name /\ r.id # id

RenameRecipe(db, id, name) ==
    [db EXCEPT !.recipes = {IF r.id = id THEN [r EXCEPT !.name = name] ELSE r : r \in @}]

\* kDeleteRecipeIngredientsByRecipeId.
DeleteIngredients(db, id) == [db EXCEPT !.ingredients = {i \in @ : i.recipe # id}]

\* kDeleteRecipeById where PRAGMA foreign_keys was left OFF.
DeleteRecipeRow_NoCascade(db, id) == [db EXCEPT !.recipes = {r \in @ : r.id # id}]

\* kDeleteRecipeById, with the cascade to recipe_ingredients.
DeleteRecipeRow(db, id) ==
    [db EXCEPT !.recipes = {r \in @ : r.id # id},
               !.ingredients = {i \in @ : i.recipe # id}]

\* kInsertRecipeIngredient: an ingredient named twice keeps the last amount.
PutIngredient(db, id, item) ==
    [db EXCEPT !.ingredients =
        {i \in @ : i.recipe # id \/ i.key # item.key}
            \cup {[recipe |-> id, key |-> item.key, amount |-> item.amount]}]
-----------------------------------------------------------------------------
(* The joins.  A row is [id, name, item]; item is Null for a recipe with   *)
(* no ingredients (LEFT JOIN).                                             *)

ItemsOf(db, id) == {[key |-> i.key, amount |-> i.amount] : i \in {i \in db.ingredients : i.recipe = id}}

RowsOf(db, recipes) ==
    UNION {{[id |-> r.id, name |-> r.name, item |-> x] :
               x \in IF ItemsOf(db, r.id) = {} THEN {Null} ELSE ItemsOf(db, r.id)} : r \in recipes}

\* ORDER BY r.name, ri.product_name, ri.dimension.
RowBefore(a, b) ==
    \/ a.name < b.name
    \/ a.name = b.name /\ a.item # Null /\ b.item # Null /\ a.item.key < b.item.key

\* kSelectCookableRecipesWithIngredients' subquery selects a missing or
\* insufficient ingredient; the slip compares with <= instead of <.
Lacking_OffByOne(db, r) ==
    {i \in db.ingredients :
        /\ i.recipe = r.id
        /\ \A p \in db.products : p.key = i.key => p.amount <= i.amount}

\* LEFT JOIN products: p.id IS NULL, or the stock is too small.
Lacking(db, r) ==
    {i \in db.ingredients :
        /\ i.recipe = r.id
        /\ \/ ~KeyTaken(db, i.key)
           \/ \E p \in db.products : p.key = i.key /\ p.amount < i.amount}

CookableRows(db) == RowsOf(db, {r \in db.recipes : Lacking(db, r) = {}})

AllRows(db) == RowsOf(db, db.recipes)

RowsById(db, id) == RowsOf(db, {r \in db.recipes : r.id = id})

\* What a SELECT may step through: every row once, none after one that ORDER BY
\* puts behind it.  Rows that tie come in any order.
Ordered(rows, Before(_, _)) ==
    {seq \in [1 .. Cardinality(rows) -> rows] :
        /\ \A row \in rows : \E i \in DOMAIN seq : seq[i] = row
        /\ \A i, j \in DOMAIN seq : i < j => ~Before(seq[j], seq[i])}

\* DBManager::FetchRecipes: consecutive rows with one id are one recipe.
AddRow(recipes, row) ==
    LET items == IF row.item = Null THEN {} ELSE {row.item}
        last  == Len(recipes)
    IN IF recipes # <<>> /\ recipes[last].id = row.id
       THEN [recipes EXCEPT ![last].items = @ \cup items]
       ELSE Append(recipes, [id |-> row.id, name |-> row.name, items |-> items])

\* fetched[n]: after n calls of executeStep.
FetchRecipes(rows) ==
    LET fetched[n \in 0 .. Len(rows)] == IF n = 0 THEN <<>> ELSE AddRow(fetched[n - 1], rows[n])
    IN fetched[Len(rows)]

\* GetRecipe takes the first of what FetchRecipes returns, if any.
FirstOf(found) == IF found = <<>> THEN Null ELSE found[1]
=============================================================================
