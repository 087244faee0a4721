----------------------------- MODULE RecipeStore -----------------------------
(***************************************************************************)
(* RecipeService over SqliteRecipeRepository over DBManager: the calls that *)
(* the database worker executes, one after the other, each as the sequence *)
(* of SQL statements DBManager runs for it.  Every statement is a step; it *)
(* can fail because of a constraint or of the storage, and the process can *)
(* die between any two steps.  The four Insert methods, which only tests   *)
(* and tools beside the server use, are calls too.                         *)
(*                                                                         *)
(* A prepared statement outlives the call that used it.  If its last step  *)
(* failed, sqlite3_reset returns that old error, SQLiteCpp's reset throws  *)
(* it, and so the next call that uses the statement fails in              *)
(* ResetStatement.  Such a statement is in the set `failed'.               *)
(***************************************************************************)
EXTENDS RecipeDatabase

CONSTANTS Requests,  \* the calls [op, id, arg] clients make
          NoCall,    \* no call is in progress
          MaxRows,   \* ids a table may use before no more rows are asked for
          MaxFailed, \* statements that may carry an error before the storage fails at no other
          Failures   \* whether the storage may fail and the process may die

\* What Json.cpp and the tools make of their input: a product, and a recipe
\* with its ingredients.  The names and the keys are there, the amounts are
\* numbers; nothing else is known of them.
Products == [key : Int, amount : Int]
Recipes == [name : Int, items : Seq(Products)]

ASSUME StoreAssumption ==
    /\ NoCall \notin Requests
    /\ MaxRows \in Nat
    /\ MaxFailed \in Nat
    /\ Failures \in BOOLEAN
    /\ \A c \in Requests :
           /\ c.id \in Int
           /\ c.op \in {"CreateProduct", "GetProduct", "GetProducts", "UpdateProduct", "DeleteProduct",
                        "InsertProduct", "InsertProducts", "CreateRecipe", "GetRecipe", "GetRecipes",
                        "GetCookableRecipes", "UpdateRecipe", "DeleteRecipe", "InsertRecipe", "InsertRecipes"}
           /\ c.op \in {"CreateProduct", "UpdateProduct", "InsertProduct"} => c.arg \in Products
           /\ c.op = "InsertProducts" => c.arg \in Seq(Products)
           /\ c.op \in {"CreateRecipe", "UpdateRecipe", "InsertRecipe"} => c.arg \in Recipes
           /\ c.op = "InsertRecipes" => c.arg \in Seq(Recipes)

VARIABLES
    db,      \* the database as the connection sees it
    saved,   \* the database to roll back to, or Null outside a transaction
    failed,  \* the prepared statements whose last step failed
    call,    \* the call on the worker, or NoCall
    todo,    \* the statements it has yet to execute
    rowid,   \* the local product_id or recipe_id
    value,   \* what the call has read
    reply,   \* the last answer, or Null
    applied, \* history: the call in progress has changed the durable database
    seen     \* history: every id <<table, id>> that was ever durable

vars == <<db, saved, failed, call, todo, rowid, value, reply, applied, seen>>

\* What survives a crash: an open transaction is rolled back.
Durable == IF saved = Null THEN db ELSE saved

Ids(d) == {<<"product", p.id>> : p \in d.products} \cup {<<"recipe", r.id>> : r \in d.recipes}

Init ==
    /\ db = EmptyDb
    /\ saved = Null
    /\ failed = {}
    /\ call = NoCall
    /\ todo = <<>>
    /\ rowid = 0
    /\ value = Null
    /\ reply = Null
    /\ applied = FALSE
    /\ seen = {}
-----------------------------------------------------------------------------
(* The service's validation and DBManager's methods as statement lists.    *)

ValidateProduct(p) == p.key # Empty /\ p.amount >= 0

ValidateRecipe(r) ==
    r.name # Empty /\ \A i \in DOMAIN r.items : ValidateProduct(r.items[i])

\* An update is taken as it comes.
Accepted_CreatesOnly(c) ==
    /\ c.op = "CreateProduct" => ValidateProduct(c.arg)
    /\ c.op = "CreateRecipe" => ValidateRecipe(c.arg)

Accepted(c) ==
    /\ c.op \in {"CreateProduct", "UpdateProduct"} => ValidateProduct(c.arg)
    /\ c.op \in {"CreateRecipe", "UpdateRecipe"} => ValidateRecipe(c.arg)

Sql(stmt, arg) == <<[stmt |-> stmt, arg |-> arg]>>

\* The rows there are stay.
ReplaceRecipeIngredients_KeepsOld(recipe) ==
    [i \in DOMAIN recipe.items |->
        [stmt |-> "insert_recipe_ingredient", arg |-> recipe.items[i]]]

ReplaceRecipeIngredients(recipe) ==
    Sql("delete_recipe_ingredients_by_recipe_id", Null)
        \o [i \in DOMAIN recipe.items |->
                [stmt |-> "insert_recipe_ingredient", arg |-> recipe.items[i]]]

InTransaction(statements) == Sql("BEGIN", Null) \o statements \o Sql("COMMIT", Null)

InsertProducts(products) ==
    InTransaction([i \in DOMAIN products |-> [stmt |-> "insert_product", arg |-> products[i]]])

\* What InsertRecipe, and each round of the loop of InsertRecipes, executes.
UpsertRecipe(recipe) ==
    Sql("insert_recipe_if_absent", recipe.name)
        \o Sql("select_recipe_id_by_name", recipe.name)
        \o ReplaceRecipeIngredients(recipe)

\* A round stands in the list as one element, until it begins.
InsertRecipe(recipe) == InTransaction(Sql("next_recipe", recipe))

InsertRecipes(recipes) ==
    InTransaction([i \in DOMAIN recipes |-> [stmt |-> "next_recipe", arg |-> recipes[i]]])

\* The repository reads a created product or recipe back.
CreateProduct(product) ==
    Sql("create_product", product) \o Sql("select_product_by_id", Null)

CreateRecipe(recipe) ==
    InTransaction(Sql("create_recipe", recipe.name) \o ReplaceRecipeIngredients(recipe))
        \o Sql("select_recipe_by_id_with_ingredients", Null)

UpdateRecipe_NoTransaction(recipe) ==
    Sql("update_recipe_name_by_id", recipe.name) \o ReplaceRecipeIngredients(recipe)

UpdateRecipe(recipe) ==
    InTransaction(Sql("update_recipe_name_by_id", recipe.name) \o ReplaceRecipeIngredients(recipe))

Statements(c) ==
    CASE c.op = "CreateProduct"      -> CreateProduct(c.arg)
      [] c.op = "GetProduct"         -> Sql("select_product_by_id", Null)
      [] c.op = "GetProducts"        -> Sql("select_all_products", Null)
      [] c.op = "UpdateProduct"      -> Sql("update_product_by_id", c.arg)
      [] c.op = "DeleteProduct"      -> Sql("delete_product_by_id", Null)
      [] c.op = "InsertProduct"      -> Sql("insert_product", c.arg)
      [] c.op = "InsertProducts"     -> InsertProducts(c.arg)
      [] c.op = "CreateRecipe"       -> CreateRecipe(c.arg)
      [] c.op = "GetRecipe"          -> Sql("select_recipe_by_id_with_ingredients", Null)
      [] c.op = "GetRecipes"         -> Sql("select_all_recipes_with_ingredients", Null)
      [] c.op = "GetCookableRecipes" -> Sql("select_cookable_recipes_with_ingredients", Null)
      [] c.op = "UpdateRecipe"       -> UpdateRecipe(c.arg)
      [] c.op = "DeleteRecipe"       -> Sql("delete_recipe_by_id", Null)
      [] c.op = "InsertRecipe"       -> InsertRecipe(c.arg)
      [] c.op = "InsertRecipes"      -> InsertRecipes(c.arg)
-----------------------------------------------------------------------------
(* Statements.                                                             *)

Reading == {"select_product_by_id", "select_all_products", "select_recipe_by_id_with_ingredients",
            "select_all_recipes_with_ingredients", "select_cookable_recipes_with_ingredients",
            "select_recipe_id_by_name"}

Writing == {"insert_product", "create_product", "update_product_by_id", "delete_product_by_id",
            "insert_recipe_if_absent", "create_recipe", "update_recipe_name_by_id",
            "delete_recipe_ingredients_by_recipe_id", "insert_recipe_ingredient",
            "delete_recipe_by_id"}

\* A constraint of the schema makes exec throw.
Violates(stmt, arg) ==
    \/ stmt = "create_product" /\ CreateProductFails(db, arg)
    \/ stmt \in {"insert_product", "insert_recipe_ingredient"} /\ arg.amount < 0
    \/ stmt = "update_product_by_id" /\ UpdateProductFails(db, rowid, arg)
    \/ stmt = "create_recipe" /\ NameTaken(db, arg)
    \/ stmt = "update_recipe_name_by_id" /\ RenameFails(db, rowid, arg)

\* db_.getChanges() is 0 and the method returns false.
ChangesNothing(stmt) ==
    \/ stmt \in {"update_product_by_id", "delete_product_by_id"} /\ ~HasProduct(db, rowid)
    \/ stmt \in {"update_recipe_name_by_id", "delete_recipe_by_id"} /\ ~HasRecipe(db, rowid)

\* The databases exec can leave behind.
Written(stmt, arg) ==
    CASE stmt = "insert_product"           -> InsertProduct(db, arg)
      [] stmt = "create_product"           -> {AddProduct(db, arg)}
      [] stmt = "update_product_by_id"     -> {UpdateProductRow(db, rowid, arg)}
      [] stmt = "delete_product_by_id"     -> {DeleteProductRow(db, rowid)}
      [] stmt = "insert_recipe_if_absent"  -> InsertRecipeIfAbsent(db, arg)
      [] stmt = "create_recipe"            -> {AddRecipe(db, arg)}
      [] stmt = "update_recipe_name_by_id" -> {RenameRecipe(db, rowid, arg)}
      [] stmt = "delete_recipe_ingredients_by_recipe_id" -> {DeleteIngredients(db, rowid)}
      [] stmt = "insert_recipe_ingredient" -> {PutIngredient(db, rowid, arg)}
      [] stmt = "delete_recipe_by_id"      -> {DeleteRecipeRow(db, rowid)}

\* ORDER BY amount_base.
ProductBefore(p, q) == p.amount < q.amount

\* What the call may have in its hands after the rows were stepped through.
ValuesRead(stmt) ==
    CASE stmt = "select_product_by_id" -> {ProductById(db, rowid)}
      [] stmt = "select_all_products" -> Ordered(db.products, ProductBefore)
      [] stmt = "select_recipe_by_id_with_ingredients" ->
             {FirstOf(FetchRecipes(rows)) : rows \in Ordered(RowsById(db, rowid), RowBefore)}
      [] stmt = "select_all_recipes_with_ingredients" ->
             {FetchRecipes(rows) : rows \in Ordered(AllRows(db), RowBefore)}
      [] stmt = "select_cookable_recipes_with_ingredients" ->
             {FetchRecipes(rows) : rows \in Ordered(CookableRows(db), RowBefore)}
      [] OTHER -> {value}
-----------------------------------------------------------------------------
\* Bound: calls that may add rows come only while each table has used fewer
\* than MaxRows ids.
RoomFor(c) ==
    /\ c.op \in {"CreateProduct", "InsertProduct", "InsertProducts"} => db.productSeq < MaxRows
    /\ c.op \in {"CreateRecipe", "InsertRecipe", "InsertRecipes"} => db.recipeSeq < MaxRows

\* A call reaches the worker while none is in progress.
Call(c) ==
    /\ call = NoCall
    /\ RoomFor(c)
    /\ call' = c
    /\ todo' = IF Accepted(c) THEN Statements(c) ELSE <<>>
    /\ rowid' = c.id
    /\ value' = Null
    /\ reply' = Null
    /\ applied' = FALSE
    /\ UNCHANGED <<db, saved, failed, seen>>

Head1 == Head(todo).stmt
Arg1 == Head(todo).arg

\* The constructor and commit() of SQLite::Transaction.
Begin ==
    /\ todo # <<>> /\ Head1 = "BEGIN"
    /\ saved' = db
    /\ todo' = Tail(todo)
    /\ UNCHANGED <<db, failed, call, rowid, value, reply, applied, seen>>

Commit ==
    /\ todo # <<>> /\ Head1 = "COMMIT"
    /\ saved' = Null
    /\ applied' = TRUE
    /\ todo' = Tail(todo)
    /\ UNCHANGED <<db, failed, call, rowid, value, reply>>
    /\ seen' = seen \cup Ids(Durable')

NextRecipe ==
    /\ todo # <<>> /\ Head1 = "next_recipe"
    /\ todo' = UpsertRecipe(Arg1) \o Tail(todo)
    /\ UNCHANGED <<db, saved, failed, call, rowid, value, reply, applied, seen>>

\* ResetStatement, bind, exec.
Write ==
    /\ todo # <<>> /\ Head1 \in Writing \ failed
    /\ ~Violates(Head1, Arg1)
    /\ ~ChangesNothing(Head1)
    /\ db' \in Written(Head1, Arg1)
    /\ rowid' = CASE Head1 = "create_product" -> NextId(db.products, db.productSeq)
                  [] Head1 = "create_recipe" -> NextId(db.recipes, db.recipeSeq)
                  [] OTHER -> rowid
    /\ applied' = (applied \/ saved = Null)
    /\ todo' = Tail(todo)
    /\ UNCHANGED <<saved, failed, call, value, reply>>
    /\ seen' = seen \cup Ids(Durable')

\* ResetStatement, bind, executeStep.
Read ==
    /\ todo # <<>> /\ Head1 \in Reading \ failed
    /\ value' \in ValuesRead(Head1)
    /\ rowid' = IF Head1 = "select_recipe_id_by_name" THEN RecipeIdByName(db, Arg1) ELSE rowid
    /\ todo' = Tail(todo)
    /\ UNCHANGED <<db, saved, failed, call, reply, applied, seen>>

\* The transaction is left open.
Answer_StaysOpen(status, result) ==
    /\ reply' = [status |-> status, value |-> result]
    /\ call' = NoCall
    /\ todo' = <<>>
    /\ value' = Null
    /\ UNCHANGED <<db, saved, rowid, applied, seen>>

\* The method is left, by a return or by an exception, and its Transaction,
\* if there is one, rolls back.
Answer(status, result) ==
    /\ reply' = [status |-> status, value |-> result]
    /\ call' = NoCall
    /\ todo' = <<>>
    /\ db' = Durable
    /\ saved' = Null
    /\ value' = Null
    /\ UNCHANGED <<rowid, applied, seen>>

ReturnFalse ==
    /\ todo # <<>> /\ Head1 \in Writing \ failed
    /\ ChangesNothing(Head1)
    /\ Answer("NotFound", Null)
    /\ UNCHANGED failed

ConstraintFails ==
    /\ todo # <<>> /\ Head1 \in Writing \ failed
    /\ Violates(Head1, Arg1)
    /\ Answer("Storage", Null)
    /\ failed' = failed \cup {Head1}

\* The error of an earlier call comes out of this call's reset.
ResetFails ==
    /\ todo # <<>> /\ Head1 \in failed
    /\ Answer("Storage", Null)
    /\ failed' = failed \ {Head1}

\* Bound: at a prepared statement the storage fails while fewer than MaxFailed
\* of them carry an error.
MayFail == Head1 \in Reading \cup Writing => Cardinality(failed) < MaxFailed

\* BEGIN and COMMIT are taken for prepared statements.
StorageFails_AnyStatement ==
    /\ Failures
    /\ todo # <<>> /\ Head1 \notin failed \cup {"next_recipe"}
    /\ MayFail
    /\ Answer("Storage", Null)
    /\ failed' = failed \cup {Head1}

\* An I/O error, a full disk, a database locked by another process.
StorageFails ==
    /\ Failures
    /\ todo # <<>> /\ Head1 \notin failed \cup {"next_recipe"}
    /\ MayFail
    /\ Answer("Storage", Null)
    /\ failed' = IF Head1 \in Reading \cup Writing THEN failed \cup {Head1} ELSE failed

Return ==
    /\ call # NoCall
    /\ todo = <<>>
    /\ IF Accepted(call) THEN Answer("ok", value) ELSE Answer("Validation", Null)
    /\ UNCHANGED failed

\* The process dies and is started again on the same file.
Crash ==
    /\ Failures
    /\ db' = Durable
    /\ saved' = Null
    /\ failed' = {}
    /\ call' = NoCall
    /\ todo' = <<>>
    /\ value' = Null
    /\ reply' = Null
    /\ UNCHANGED <<rowid, applied, seen>>

Next ==
    \/ \E c \in Requests : Call(c)
    \/ Begin
    \/ Commit
    \/ NextRecipe
    \/ Write
    \/ Read
    \/ ReturnFalse
    \/ ConstraintFails
    \/ ResetFails
    \/ StorageFails
    \/ Return
    \/ Crash

Spec == Init /\ [][Next]_vars
-----------------------------------------------------------------------------
\* Type invariant.  Only prepared statements carry an error over: BEGIN, COMMIT
\* and ROLLBACK are compiled anew each time.
TypeOK ==
    /\ failed \subseteq Reading \cup Writing
    /\ call \in Requests \cup {NoCall}
    /\ \A i \in DOMAIN todo : todo[i].stmt \in Reading \cup Writing \cup {"BEGIN", "COMMIT", "next_recipe"}
    /\ rowid \in Int
    /\ reply # Null => reply.status \in {"ok", "Validation", "NotFound", "Storage"}
    /\ applied \in BOOLEAN

\* Keys, names and ingredients stay unique, no ingredient outlives its
\* recipe and no amount is negative, in the durable database and inside a
\* transaction alike.
ConsistentTables == SchemaHolds(db) /\ SchemaHolds(Durable)

\* A transaction is open only while its call has work left, so no call leaves
\* the connection inside one for its successor.
TransactionsEnd == saved # Null => call # NoCall /\ todo # <<>>

\* An id once given to a product or a recipe never comes back for another
\* one: a client that kept the id of a deleted recipe cannot hit a new one.
IdsNotRecycled ==
    [][ Ids(Durable') \cap seen \subseteq Ids(Durable) ]_vars

\* Violated.  RecipeRepository.hpp:23 "Persists a product and returns it with
\* its assigned ID": a valid product whose key is free is not refused.
FreshProductIsPersisted ==
    [][ (call # NoCall /\ call' = NoCall /\ call.op = "CreateProduct"
            /\ reply' # Null /\ reply'.status = "Storage")
            => KeyTaken(db, call.arg.key) ]_vars

\* The tables read as a book: a recipe with its ingredients is one document.
Documents(d) == {[id |-> r.id, name |-> r.name, items |-> ItemsOf(d, r.id)] : r \in d.recipes}

Book == INSTANCE RecipeBook WITH products <- Durable.products, recipes <- Documents(Durable)

\* Every call takes effect at once or not at all, and is answered truthfully.
ImplementsBook == Book!Spec
=============================================================================
