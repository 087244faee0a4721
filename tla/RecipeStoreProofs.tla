------------------------- MODULE RecipeStoreProofs -------------------------
(***************************************************************************)
(* The recipe store for any calls, any number of rows and any failures:    *)
(* the tables stay consistent, no transaction is left open and no id comes *)
(* back.                                                                   *)
(***************************************************************************)
EXTENDS RecipeStore, SequenceTheorems, TLAPS

-----------------------------------------------------------------------------
(* What the proofs rest on.                                                *)

AboutProducts == {"insert_product", "create_product", "update_product_by_id", "insert_recipe_ingredient"}
ByName == {"create_recipe", "update_recipe_name_by_id", "insert_recipe_if_absent", "select_recipe_id_by_name"}

\* The statements after which rowid is the id of a recipe that is there.
Locating == {"create_recipe", "update_recipe_name_by_id", "select_recipe_id_by_name"}

\* The statements that give a recipe its ingredients.
Filling == {"insert_recipe_ingredient", "next_recipe"}

IsList(list) == Len(list) \in Nat /\ list = [i \in 1 .. Len(list) |-> list[i]]

Typed(list) ==
    /\ IsList(list)
    /\ \A i \in DOMAIN list :
           /\ list[i].stmt \in Reading \cup Writing \cup {"BEGIN", "COMMIT", "next_recipe"}
           /\ list[i].stmt \in AboutProducts => list[i].arg \in Products
           /\ list[i].stmt \in ByName => list[i].arg \in Int
           /\ list[i].stmt = "next_recipe" => list[i].arg \in Recipes

\* A recipe is looked up by a name that has just been inserted, and gets
\* ingredients after it was located.
LookedUp(list, i) == i > 1 /\ list[i - 1] = [stmt |-> "insert_recipe_if_absent", arg |-> list[i].arg]
Located(list, i) == \E k \in 1 .. i - 1 : list[k].stmt \in Locating

\* What may stand between BEGIN and COMMIT.
Body(list) ==
    /\ Typed(list)
    /\ \A i \in DOMAIN list :
           /\ list[i].stmt \notin {"BEGIN", "COMMIT", "create_product", "delete_recipe_by_id"}
           /\ list[i].stmt = "select_recipe_id_by_name" => LookedUp(list, i)
           /\ list[i].stmt = "insert_recipe_ingredient" => Located(list, i)

\* The statements of a call.
Planned(list) ==
    /\ Typed(list)
    /\ \A i \in DOMAIN list :
           /\ list[i].stmt = "BEGIN" => i = 1 /\ \E k \in DOMAIN list : list[k].stmt = "COMMIT"
           /\ list[i].stmt \in {"create_product", "delete_recipe_by_id"} =>
                  \A k \in DOMAIN list : list[k].stmt \notin Filling
           /\ list[i].stmt = "select_recipe_id_by_name" => LookedUp(list, i)
           /\ list[i].stmt = "insert_recipe_ingredient" => Located(list, i)

\* Those a call has yet to execute.
TodoKnown ==
    /\ Typed(todo)
    /\ call = NoCall => todo = <<>>
    /\ saved # Null => \E k \in DOMAIN todo : todo[k].stmt = "COMMIT"
    /\ \A i \in DOMAIN todo :
           /\ todo[i].stmt = "BEGIN" => /\ i = 1 /\ saved = Null
                                        /\ \E k \in DOMAIN todo : todo[k].stmt = "COMMIT"
           /\ todo[i].stmt \in {"create_product", "delete_recipe_by_id"} =>
                  \A k \in DOMAIN todo : todo[k].stmt \notin Filling
           /\ todo[i].stmt = "select_recipe_id_by_name" =>
                  IF i = 1 THEN NameTaken(db, todo[i].arg) ELSE LookedUp(todo, i)
           /\ todo[i].stmt = "insert_recipe_ingredient" => HasRecipe(db, rowid) \/ Located(todo, i)

Rows(d) ==
    d \in [products : SUBSET [id : Int, key : Int, amount : Int],
           recipes : SUBSET [id : Int, name : Int],
           ingredients : SUBSET [recipe : Int, key : Int, amount : Int],
           productSeq : Nat, recipeSeq : Nat]

\* The counters of d and e, and the ids e has that d has not.
Grown(d, e) ==
    /\ d.productSeq <= e.productSeq
    /\ d.recipeSeq <= e.recipeSeq
    /\ \A q \in e.products : q.id > d.productSeq \/ \E p \in d.products : p.id = q.id
    /\ \A q \in e.recipes : q.id > d.recipeSeq \/ \E r \in d.recipes : r.id = q.id

SeenKnown ==
    \A x \in seen :
        \/ x[1] = "product" /\ x[2] \in 1 .. Durable.productSeq
        \/ x[1] = "recipe" /\ x[2] \in 1 .. Durable.recipeSeq

\* The inductive invariant.
IndInv ==
    /\ Rows(db) /\ Rows(Durable) /\ SchemaHolds(db) /\ SchemaHolds(Durable)
    /\ Grown(Durable, db)
    /\ SeenKnown
    /\ TodoKnown
    /\ failed \subseteq Reading \cup Writing
    /\ call \in Requests \cup {NoCall}
    /\ rowid \in Int
    /\ reply # Null => reply.status \in {"ok", "Validation", "NotFound", "Storage"}
    /\ applied \in BOOLEAN
-----------------------------------------------------------------------------
(* Databases.                                                              *)

\* A statement leads from a sound database to a sound one.
Follows(d, e) == Rows(e) /\ SchemaHolds(e) /\ Grown(d, e)

Keeps(d, e) == \A r \in d.recipes : HasRecipe(e, r.id)

\* The empty database, and doing nothing.
LEMMA EmptyRows == Rows(EmptyDb) /\ SchemaHolds(EmptyDb)
  BY DEF Rows, SchemaHolds, EmptyDb

LEMMA FollowsSelf ==
    ASSUME NEW d, Rows(d), SchemaHolds(d)
    PROVE  Follows(d, d) /\ Keeps(d, d)
  BY DEF Rows, Follows, Grown, Keeps, HasRecipe

\* Ids that were new to a database are new to every earlier one.
LEMMA GrownFurther ==
    ASSUME NEW c, NEW d, NEW e, Rows(c), Rows(d), Rows(e), Grown(c, d), Grown(d, e)
    PROVE  Grown(c, e)
  <1>1. /\ c.productSeq \in Nat /\ d.productSeq \in Nat /\ e.productSeq \in Nat
        /\ c.recipeSeq \in Nat /\ d.recipeSeq \in Nat /\ e.recipeSeq \in Nat
    BY DEF Rows
  <1>2. \A q \in e.products \cup e.recipes : q.id \in Int
    BY DEF Rows
  <1>3. \A q \in e.products : q.id > c.productSeq \/ \E p \in c.products : p.id = q.id
    BY <1>1, <1>2 DEF Grown
  <1>4. \A q \in e.recipes : q.id > c.recipeSeq \/ \E r \in c.recipes : r.id = q.id
    BY <1>1, <1>2 DEF Grown
  <1>5. QED
    BY <1>1, <1>3, <1>4 DEF Grown

\* What a change of products has to respect.
LEMMA ProductsFollow ==
    ASSUME NEW d, Rows(d), SchemaHolds(d), NEW e, Rows(e),
           e.recipes = d.recipes, e.ingredients = d.ingredients, e.recipeSeq = d.recipeSeq,
           d.productSeq <= e.productSeq,
           \A q \in e.products : q.amount >= 0 /\ q.id \in 1 .. e.productSeq,
           \A q, r \in e.products : (q.id = r.id \/ q.key = r.key) => q = r,
           \A q \in e.products : q.id > d.productSeq \/ \E p \in d.products : p.id = q.id
    PROVE  Follows(d, e) /\ Keeps(d, e)
  <1>1. SchemaHolds(e)
    BY DEF SchemaHolds
  <1>2. Grown(d, e)
    BY DEF Grown, Rows
  <1>3. Keeps(d, e)
    BY DEF Keeps, HasRecipe
  <1>4. QED
    BY <1>1, <1>2, <1>3 DEF Follows

\* What a change of recipes and ingredients has to respect.
LEMMA RecipesFollow ==
    ASSUME NEW d, Rows(d), SchemaHolds(d), NEW e, Rows(e),
           e.products = d.products, e.productSeq = d.productSeq, d.recipeSeq <= e.recipeSeq,
           \A r \in e.recipes : r.id \in 1 .. e.recipeSeq,
           \A q, r \in e.recipes : (q.id = r.id \/ q.name = r.name) => q = r,
           \A r \in e.recipes : r.id > d.recipeSeq \/ \E q \in d.recipes : q.id = r.id,
           \A i \in e.ingredients : i.amount >= 0 /\ \E r \in e.recipes : r.id = i.recipe,
           \A i, j \in e.ingredients : (i.recipe = j.recipe /\ i.key = j.key) => i = j
    PROVE  Follows(d, e)
  <1>1. SchemaHolds(e)
    BY DEF SchemaHolds
  <1>2. Grown(d, e)
    BY DEF Grown, Rows
  <1>3. QED
    BY <1>1, <1>2 DEF Follows

\* INSERT INTO products.
LEMMA AddProductFollows ==
    ASSUME NEW d, Rows(d), SchemaHolds(d), NEW p \in Products, p.amount >= 0, ~KeyTaken(d, p.key)
    PROVE  Follows(d, AddProduct(d, p)) /\ Keeps(d, AddProduct(d, p))
  <1> DEFINE new == [id |-> d.productSeq + 1, key |-> p.key, amount |-> p.amount]
             ps == d.products \cup {new}
             n == d.productSeq + 1
             e == [d EXCEPT !.products = ps, !.productSeq = n]
  <1>1. /\ d.productSeq \in Nat /\ n \in Nat /\ d.productSeq < n
        /\ ps \in SUBSET [id : Int, key : Int, amount : Int]
    BY DEF Rows, Products
  <1>2. AddProduct(d, p) = e
    BY <1>1 DEF AddProduct, NextId
  <1> HIDE DEF ps, n
  <1>3. /\ Rows(e) /\ e.products = ps /\ e.productSeq = n
        /\ e.recipes = d.recipes /\ e.ingredients = d.ingredients /\ e.recipeSeq = d.recipeSeq
    BY <1>1 DEF Rows
  <1> HIDE DEF e
  <1>4. \A q \in d.products : q.id # new.id /\ q.key # new.key
    BY <1>1 DEF SchemaHolds, KeyTaken
  <1>5. \A q \in e.products : q.amount >= 0 /\ q.id \in 1 .. e.productSeq
    BY <1>1, <1>3 DEF ps, n, SchemaHolds
  <1>6. \A q, r \in e.products : (q.id = r.id \/ q.key = r.key) => q = r
    BY <1>3, <1>4 DEF ps, n, SchemaHolds
  <1>7. \A q \in e.products : q.id > d.productSeq \/ \E r \in d.products : r.id = q.id
    BY <1>1, <1>3 DEF ps, n
  <1>8. QED
    BY <1>1, <1>2, <1>3, <1>5, <1>6, <1>7, ProductsFollow

\* INSERT ... ON CONFLICT DO UPDATE.
LEMMA InsertProductFollows ==
    ASSUME NEW d, Rows(d), SchemaHolds(d), NEW p \in Products, p.amount >= 0, NEW e \in InsertProduct(d, p)
    PROVE  Follows(d, e) /\ Keeps(d, e)
  <1>1. CASE ~KeyTaken(d, p.key)
    BY <1>1, AddProductFollows DEF InsertProduct
  <1>2. CASE KeyTaken(d, p.key)
    <2> DEFINE new(q) == IF q.key = p.key THEN [q EXCEPT !.amount = p.amount] ELSE q
               ps == {new(q) : q \in d.products}
    <2>1. PICK n \in {d.productSeq, d.productSeq + 1} : e = [d EXCEPT !.products = ps, !.productSeq = n]
      BY <1>2 DEF InsertProduct
    <2>2. n \in Nat /\ d.productSeq \in Nat /\ d.productSeq <= n
      BY DEF Rows
    <2>3. \A q \in d.products : /\ new(q) \in [id : Int, key : Int, amount : Int]
                                /\ new(q).id = q.id /\ new(q).key = q.key
                                /\ new(q).amount \in {q.amount, p.amount}
      BY DEF Rows, Products
    <2> HIDE DEF new
    <2>4. ps \in SUBSET [id : Int, key : Int, amount : Int]
      BY <2>3
    <2> HIDE DEF ps
    <2>5. /\ Rows(e) /\ e.products = ps /\ e.productSeq = n
          /\ e.recipes = d.recipes /\ e.ingredients = d.ingredients /\ e.recipeSeq = d.recipeSeq
      BY <2>1, <2>2, <2>4 DEF Rows
    <2>6. \A q \in ps : \E r \in d.products : q = new(r)
      BY DEF ps
    <2>7. \A q \in e.products : q.amount >= 0 /\ q.id \in 1 .. e.productSeq
      BY <2>2, <2>3, <2>5, <2>6 DEF SchemaHolds
    <2>8. \A q, r \in e.products : (q.id = r.id \/ q.key = r.key) => q = r
      BY <2>3, <2>5, <2>6 DEF SchemaHolds
    <2>9. \A q \in e.products : q.id > d.productSeq \/ \E r \in d.products : r.id = q.id
      BY <2>3, <2>5, <2>6
    <2>10. QED
      BY <2>2, <2>5, <2>7, <2>8, <2>9, ProductsFollow
  <1>3. QED
    BY <1>1, <1>2

\* UPDATE products.
LEMMA UpdateProductFollows ==
    ASSUME NEW d, Rows(d), SchemaHolds(d), NEW id \in Int, NEW p \in Products,
           HasProduct(d, id), ~UpdateProductFails(d, id, p)
    PROVE  Follows(d, UpdateProductRow(d, id, p)) /\ Keeps(d, UpdateProductRow(d, id, p))
  <1> DEFINE new(q) == IF q.id = id THEN [id |-> id, key |-> p.key, amount |-> p.amount] ELSE q
             ps == {new(q) : q \in d.products}
             e == [d EXCEPT !.products = ps]
  <1>1. p.amount >= 0 /\ \A q \in d.products : q.key = p.key => q.id = id
    BY DEF UpdateProductFails, Products
  <1>2. UpdateProductRow(d, id, p) = e
    BY DEF UpdateProductRow
  <1>3. \A q \in d.products :
          /\ new(q) \in [id : Int, key : Int, amount : Int] /\ new(q).id = q.id
          /\ IF q.id = id THEN new(q).key = p.key /\ new(q).amount = p.amount ELSE new(q) = q
    BY DEF Rows, Products
  <1> HIDE DEF new
  <1>4. ps \in SUBSET [id : Int, key : Int, amount : Int]
    BY <1>3
  <1> HIDE DEF ps
  <1>5. /\ Rows(e) /\ e.products = ps /\ e.productSeq = d.productSeq
        /\ e.recipes = d.recipes /\ e.ingredients = d.ingredients /\ e.recipeSeq = d.recipeSeq
    BY <1>4 DEF Rows
  <1> HIDE DEF e
  <1>6. \A q \in ps : \E r \in d.products : q = new(r)
    BY DEF ps
  <1>7. \A q \in e.products : q.amount >= 0 /\ q.id \in 1 .. e.productSeq
    BY <1>1, <1>3, <1>5, <1>6 DEF SchemaHolds
  <1>8. \A q, r \in e.products : (q.id = r.id \/ q.key = r.key) => q = r
    BY <1>1, <1>3, <1>5, <1>6 DEF SchemaHolds
  <1>9. \A q \in e.products : q.id > d.productSeq \/ \E r \in d.products : r.id = q.id
    BY <1>3, <1>5, <1>6
  <1>10. d.productSeq <= e.productSeq
    BY <1>5 DEF Rows
  <1>11. QED
    BY <1>2, <1>5, <1>7, <1>8, <1>9, <1>10, ProductsFollow

\* DELETE FROM products.
LEMMA DeleteProductFollows ==
    ASSUME NEW d, Rows(d), SchemaHolds(d), NEW id \in Int
    PROVE  Follows(d, DeleteProductRow(d, id)) /\ Keeps(d, DeleteProductRow(d, id))
  <1> DEFINE ps == {q \in d.products : q.id # id}
             e == [d EXCEPT !.products = ps]
  <1>1. DeleteProductRow(d, id) = e
    BY DEF DeleteProductRow
  <1>2. ps \subseteq d.products
    OBVIOUS
  <1> HIDE DEF ps
  <1>3. /\ Rows(e) /\ e.products = ps /\ e.productSeq = d.productSeq /\ d.productSeq <= e.productSeq
        /\ e.recipes = d.recipes /\ e.ingredients = d.ingredients /\ e.recipeSeq = d.recipeSeq
    BY <1>2 DEF Rows
  <1> HIDE DEF e
  <1>4. \A q \in e.products : q.amount >= 0 /\ q.id \in 1 .. e.productSeq
    BY <1>2, <1>3 DEF SchemaHolds
  <1>5. \A q, r \in e.products : (q.id = r.id \/ q.key = r.key) => q = r
    BY <1>2, <1>3 DEF SchemaHolds
  <1>6. \A q \in e.products : q.id > d.productSeq \/ \E r \in d.products : r.id = q.id
    BY <1>2, <1>3
  <1>7. QED
    BY <1>1, <1>3, <1>4, <1>5, <1>6, ProductsFollow

\* INSERT INTO recipes: the new recipe is there.
LEMMA AddRecipeFollows ==
    ASSUME NEW d, Rows(d), SchemaHolds(d), NEW name \in Int, ~NameTaken(d, name)
    PROVE  /\ Follows(d, AddRecipe(d, name)) /\ Keeps(d, AddRecipe(d, name))
           /\ HasRecipe(AddRecipe(d, name), d.recipeSeq + 1)
           /\ NameTaken(AddRecipe(d, name), name)
  <1> DEFINE n == d.recipeSeq + 1
             new == [id |-> n, name |-> name]
             rs == d.recipes \cup {new}
             e == [d EXCEPT !.recipes = rs, !.recipeSeq = n]
  <1>1. /\ d.recipeSeq \in Nat /\ n \in Nat /\ d.recipeSeq < n
        /\ rs \in SUBSET [id : Int, name : Int]
    BY DEF Rows
  <1>2. AddRecipe(d, name) = e
    BY <1>1 DEF AddRecipe, NextId
  <1> HIDE DEF rs, n
  <1>3. /\ Rows(e) /\ e.recipes = rs /\ e.recipeSeq = n
        /\ e.products = d.products /\ e.ingredients = d.ingredients /\ e.productSeq = d.productSeq
    BY <1>1 DEF Rows
  <1> HIDE DEF e
  <1>4. \A r \in d.recipes : r.id # new.id /\ r.name # new.name
    BY <1>1 DEF SchemaHolds, NameTaken, n
  <1>5. \A r \in e.recipes : r.id \in 1 .. e.recipeSeq
    BY <1>1, <1>3 DEF rs, n, SchemaHolds
  <1>6. \A q, r \in e.recipes : (q.id = r.id \/ q.name = r.name) => q = r
    BY <1>3, <1>4 DEF rs, SchemaHolds
  <1>7. \A r \in e.recipes : r.id > d.recipeSeq \/ \E q \in d.recipes : q.id = r.id
    BY <1>1, <1>3 DEF rs
  <1>8. \A r \in d.recipes : \E q \in e.recipes : q.id = r.id
    BY <1>3 DEF rs
  <1>9. \A i \in e.ingredients : i.amount >= 0 /\ \E r \in e.recipes : r.id = i.recipe
    BY <1>3 DEF rs, SchemaHolds
  <1>10. \A i, j \in e.ingredients : (i.recipe = j.recipe /\ i.key = j.key) => i = j
    BY <1>3 DEF SchemaHolds
  <1>11. Follows(d, e)
    BY <1>1, <1>3, <1>5, <1>6, <1>7, <1>9, <1>10, RecipesFollow
  <1>12. Keeps(d, e) /\ HasRecipe(e, n) /\ NameTaken(e, name)
    <2>1. new \in e.recipes /\ new.id = n /\ new.name = name
      BY <1>3 DEF rs
    <2>2. QED
      BY <1>8, <2>1 DEF Keeps, HasRecipe, NameTaken
  <1>13. QED
    BY <1>2, <1>11, <1>12 DEF n

\* INSERT OR IGNORE INTO recipes.
LEMMA InsertRecipeFollows ==
    ASSUME NEW d, Rows(d), SchemaHolds(d), NEW name \in Int, NEW e \in InsertRecipeIfAbsent(d, name)
    PROVE  Follows(d, e) /\ Keeps(d, e) /\ NameTaken(e, name)
  <1>1. CASE ~NameTaken(d, name)
    BY <1>1, AddRecipeFollows DEF InsertRecipeIfAbsent
  <1>2. CASE NameTaken(d, name)
    <2>1. PICK n \in {d.recipeSeq, d.recipeSeq + 1} : e = [d EXCEPT !.recipeSeq = n]
      BY <1>2 DEF InsertRecipeIfAbsent
    <2>2. n \in Nat /\ d.recipeSeq \in Nat /\ d.recipeSeq <= n
      BY DEF Rows
    <2>3. /\ Rows(e) /\ e.recipes = d.recipes /\ e.recipeSeq = n
          /\ e.products = d.products /\ e.ingredients = d.ingredients /\ e.productSeq = d.productSeq
      BY <2>1, <2>2 DEF Rows
    <2>4. \A r \in e.recipes : r.id \in 1 .. e.recipeSeq
      BY <2>2, <2>3 DEF SchemaHolds
    <2>5. Follows(d, e)
      BY <2>2, <2>3, <2>4, RecipesFollow DEF SchemaHolds
    <2>6. QED
      BY <1>2, <2>3, <2>5 DEF Keeps, HasRecipe, NameTaken
  <1>3. QED
    BY <1>1, <1>2

\* UPDATE recipes.
LEMMA RenameRecipeFollows ==
    ASSUME NEW d, Rows(d), SchemaHolds(d), NEW id \in Int, NEW name \in Int,
           HasRecipe(d, id), ~RenameFails(d, id, name)
    PROVE  Follows(d, RenameRecipe(d, id, name)) /\ Keeps(d, RenameRecipe(d, id, name))
  <1> DEFINE new(r) == IF r.id = id THEN [r EXCEPT !.name = name] ELSE r
             rs == {new(r) : r \in d.recipes}
             e == [d EXCEPT !.recipes = rs]
  <1>1. \A r \in d.recipes : r.name = name => r.id = id
    BY DEF RenameFails
  <1>2. RenameRecipe(d, id, name) = e
    BY DEF RenameRecipe
  <1>3. \A r \in d.recipes :
          /\ new(r) \in [id : Int, name : Int] /\ new(r).id = r.id
          /\ IF r.id = id THEN new(r).name = name ELSE new(r) = r
    BY DEF Rows
  <1> HIDE DEF new
  <1>4. rs \in SUBSET [id : Int, name : Int]
    BY <1>3
  <1>5. \A r \in d.recipes : new(r) \in rs
    OBVIOUS
  <1>6. \A r \in rs : \E q \in d.recipes : r = new(q)
    OBVIOUS
  <1> HIDE DEF rs
  <1>7. /\ Rows(e) /\ e.recipes = rs /\ e.recipeSeq = d.recipeSeq /\ d.recipeSeq <= e.recipeSeq
        /\ e.products = d.products /\ e.ingredients = d.ingredients /\ e.productSeq = d.productSeq
    BY <1>4 DEF Rows
  <1> HIDE DEF e
  <1>8. \A r \in e.recipes : r.id \in 1 .. e.recipeSeq
    BY <1>3, <1>6, <1>7 DEF SchemaHolds
  <1>9. \A q, r \in e.recipes : (q.id = r.id \/ q.name = r.name) => q = r
    BY <1>1, <1>3, <1>6, <1>7 DEF SchemaHolds
  <1>10. \A r \in e.recipes : r.id > d.recipeSeq \/ \E q \in d.recipes : q.id = r.id
    BY <1>3, <1>6, <1>7
  <1>11. \A r \in d.recipes : \E q \in e.recipes : q.id = r.id
    BY <1>3, <1>5, <1>7
  <1>12. \A i \in e.ingredients : i.amount >= 0 /\ \E r \in e.recipes : r.id = i.recipe
    BY <1>7, <1>11 DEF SchemaHolds
  <1>13. \A i, j \in e.ingredients : (i.recipe = j.recipe /\ i.key = j.key) => i = j
    BY <1>7 DEF SchemaHolds
  <1>14. Follows(d, e)
    BY <1>7, <1>8, <1>9, <1>10, <1>12, <1>13, RecipesFollow
  <1>15. QED
    BY <1>2, <1>11, <1>14 DEF Keeps, HasRecipe

\* DELETE FROM recipe_ingredients, and INSERT OR REPLACE INTO it.
LEMMA IngredientsFollow ==
    ASSUME NEW d, Rows(d), SchemaHolds(d), NEW is \in SUBSET [recipe : Int, key : Int, amount : Int],
           \A i \in is : i.amount >= 0 /\ HasRecipe(d, i.recipe),
           \A i, j \in is : (i.recipe = j.recipe /\ i.key = j.key) => i = j
    PROVE  Follows(d, [d EXCEPT !.ingredients = is]) /\ Keeps(d, [d EXCEPT !.ingredients = is])
  <1> DEFINE e == [d EXCEPT !.ingredients = is]
  <1>1. /\ Rows(e) /\ e.recipes = d.recipes /\ e.recipeSeq = d.recipeSeq /\ d.recipeSeq <= e.recipeSeq
        /\ e.products = d.products /\ e.ingredients = is /\ e.productSeq = d.productSeq
    BY DEF Rows
  <1> HIDE DEF e
  <1>2. /\ \A r \in e.recipes : r.id \in 1 .. e.recipeSeq
        /\ \A q, r \in e.recipes : (q.id = r.id \/ q.name = r.name) => q = r
        /\ \A i \in e.ingredients : i.amount >= 0 /\ \E r \in e.recipes : r.id = i.recipe
    BY <1>1 DEF SchemaHolds, HasRecipe
  <1>3. Follows(d, e)
    BY <1>1, <1>2, RecipesFollow
  <1>4. Keeps(d, e)
    BY <1>1 DEF Keeps, HasRecipe
  <1>5. QED
    BY <1>3, <1>4 DEF e

LEMMA DeleteIngredientsFollows ==
    ASSUME NEW d, Rows(d), SchemaHolds(d), NEW id \in Int
    PROVE  Follows(d, DeleteIngredients(d, id)) /\ Keeps(d, DeleteIngredients(d, id))
  <1> DEFINE is == {i \in d.ingredients : i.recipe # id}
  <1>1. is \in SUBSET [recipe : Int, key : Int, amount : Int]
    BY DEF Rows
  <1>2. /\ \A i \in is : i.amount >= 0 /\ HasRecipe(d, i.recipe)
        /\ \A i, j \in is : (i.recipe = j.recipe /\ i.key = j.key) => i = j
    BY DEF SchemaHolds, HasRecipe
  <1> HIDE DEF is
  <1>3. QED
    BY <1>1, <1>2, IngredientsFollow DEF DeleteIngredients, is

LEMMA PutIngredientFollows ==
    ASSUME NEW d, Rows(d), SchemaHolds(d), NEW id \in Int, NEW item \in Products, item.amount >= 0, HasRecipe(d, id)
    PROVE  Follows(d, PutIngredient(d, id, item)) /\ Keeps(d, PutIngredient(d, id, item))
  <1> DEFINE new == [recipe |-> id, key |-> item.key, amount |-> item.amount]
             is == {i \in d.ingredients : i.recipe # id \/ i.key # item.key} \cup {new}
  <1>1. is \in SUBSET [recipe : Int, key : Int, amount : Int]
    BY DEF Rows, Products
  <1>2. \A i \in is : i.amount >= 0 /\ HasRecipe(d, i.recipe)
    BY DEF SchemaHolds, HasRecipe
  <1>3. \A i, j \in is : (i.recipe = j.recipe /\ i.key = j.key) => i = j
    BY DEF SchemaHolds
  <1> HIDE DEF is
  <1>4. QED
    BY <1>1, <1>2, <1>3, IngredientsFollow DEF PutIngredient, is

\* DELETE FROM recipes, with the cascade.
LEMMA DeleteRecipeFollows ==
    ASSUME NEW d, Rows(d), SchemaHolds(d), NEW id \in Int
    PROVE  Follows(d, DeleteRecipeRow(d, id))
  <1> DEFINE rs == {r \in d.recipes : r.id # id}
             is == {i \in d.ingredients : i.recipe # id}
             e == [d EXCEPT !.recipes = rs, !.ingredients = is]
  <1>1. DeleteRecipeRow(d, id) = e
    BY DEF DeleteRecipeRow
  <1>2. /\ rs \in SUBSET [id : Int, name : Int] /\ is \in SUBSET [recipe : Int, key : Int, amount : Int]
        /\ rs \subseteq d.recipes /\ is \subseteq d.ingredients
    BY DEF Rows
  <1>3. \A i \in is : \E r \in rs : r.id = i.recipe
    BY DEF SchemaHolds
  <1> HIDE DEF rs, is
  <1>4. /\ Rows(e) /\ e.recipes = rs /\ e.recipeSeq = d.recipeSeq /\ d.recipeSeq <= e.recipeSeq
        /\ e.products = d.products /\ e.ingredients = is /\ e.productSeq = d.productSeq
    <2>1. /\ e.recipes = rs /\ e.recipeSeq = d.recipeSeq /\ d.recipeSeq <= e.recipeSeq
          /\ e.products = d.products /\ e.ingredients = is /\ e.productSeq = d.productSeq
      BY <1>2 DEF Rows
    <2>2. Rows(e)
      BY <1>2 DEF Rows
    <2>3. QED
      BY <2>1, <2>2
  <1> HIDE DEF e
  <1>5. /\ \A r \in e.recipes : r.id \in 1 .. e.recipeSeq
        /\ \A q, r \in e.recipes : (q.id = r.id \/ q.name = r.name) => q = r
        /\ \A r \in e.recipes : r.id > d.recipeSeq \/ \E q \in d.recipes : q.id = r.id
    BY <1>2, <1>4 DEF SchemaHolds
  <1>6. /\ \A i \in e.ingredients : i.amount >= 0 /\ \E r \in e.recipes : r.id = i.recipe
        /\ \A i, j \in e.ingredients : (i.recipe = j.recipe /\ i.key = j.key) => i = j
    BY <1>2, <1>3, <1>4 DEF SchemaHolds
  <1>7. QED
    BY <1>1, <1>4, <1>5, <1>6, RecipesFollow
-----------------------------------------------------------------------------
(* Lists of statements.                                                    *)

\* A list is a sequence, and a sequence a list.
LEMMA SeqIsList ==
    ASSUME NEW S, NEW list \in Seq(S)
    PROVE  IsList(list)
  BY LenProperties DEF IsList

LEMMA ListIsSeq ==
    ASSUME NEW list, IsList(list), NEW S, \A i \in DOMAIN list : list[i] \in S
    PROVE  list \in Seq(S) /\ DOMAIN list = 1 .. Len(list)
  <1>1. Len(list) \in Nat /\ list = [i \in 1 .. Len(list) |-> list[i]]
    BY DEF IsList
  <1>2. DOMAIN list = 1 .. Len(list)
    BY <1>1
  <1>3. list \in [1 .. Len(list) -> S]
    BY <1>1, <1>2
  <1>4. QED
    BY <1>1, <1>2, <1>3, SeqDef

\* Two lists strung together.
LEMMA Concatenated ==
    ASSUME NEW l, NEW m, IsList(l), IsList(m), NEW lm, lm = l \o m
    PROVE  /\ IsList(lm) /\ Len(lm) = Len(l) + Len(m)
           /\ Len(l) \in Nat /\ Len(m) \in Nat
           /\ DOMAIN l = 1 .. Len(l) /\ DOMAIN m = 1 .. Len(m) /\ DOMAIN lm = 1 .. Len(l) + Len(m)
           /\ \A i \in 1 .. Len(l) + Len(m) : lm[i] = IF i <= Len(l) THEN l[i] ELSE m[i - Len(l)]
  <1> DEFINE S == {l[i] : i \in DOMAIN l} \cup {m[i] : i \in DOMAIN m}
  <1>1. \A i \in DOMAIN l : l[i] \in S
    OBVIOUS
  <1>2. \A i \in DOMAIN m : m[i] \in S
    OBVIOUS
  <1> HIDE DEF S
  <1>3. /\ l \in Seq(S) /\ m \in Seq(S)
        /\ DOMAIN l = 1 .. Len(l) /\ DOMAIN m = 1 .. Len(m)
    BY <1>1, <1>2, ListIsSeq
  <1>4. Len(l) \in Nat /\ Len(m) \in Nat
    BY DEF IsList
  <1>5. /\ lm \in Seq(S) /\ Len(lm) = Len(l) + Len(m)
        /\ \A i \in 1 .. Len(l) + Len(m) : lm[i] = IF i <= Len(l) THEN l[i] ELSE m[i - Len(l)]
    BY <1>3, ConcatProperties
  <1>6. DOMAIN lm = 1 .. Len(l) + Len(m)
    BY <1>5, LenProperties
  <1>7. IsList(lm)
    BY <1>5, SeqIsList
  <1>8. QED
    BY <1>3, <1>4, <1>5, <1>6, <1>7

\* One statement.
LEMMA OneStatement ==
    ASSUME NEW stmt, NEW arg
    PROVE  /\ IsList(Sql(stmt, arg)) /\ Len(Sql(stmt, arg)) = 1 /\ DOMAIN Sql(stmt, arg) = {1}
           /\ Sql(stmt, arg)[1].stmt = stmt /\ Sql(stmt, arg)[1].arg = arg
  BY DEF Sql, IsList

\* The rest of a list.
LEMMA Rest ==
    ASSUME NEW list, IsList(list), list # <<>>
    PROVE  /\ IsList(Tail(list)) /\ Len(list) \in Nat \ {0} /\ Len(Tail(list)) = Len(list) - 1
           /\ DOMAIN list = 1 .. Len(list) /\ DOMAIN Tail(list) = 1 .. Len(list) - 1
           /\ Head(list) = list[1] /\ \A i \in 1 .. Len(list) - 1 : Tail(list)[i] = list[i + 1]
  <1> DEFINE S == {list[i] : i \in DOMAIN list}
  <1>1. \A i \in DOMAIN list : list[i] \in S
    OBVIOUS
  <1> HIDE DEF S
  <1>2. list \in Seq(S) /\ DOMAIN list = 1 .. Len(list)
    BY <1>1, ListIsSeq
  <1>3. /\ Tail(list) \in Seq(S) /\ Len(Tail(list)) = Len(list) - 1
        /\ \A i \in 1 .. Len(Tail(list)) : Tail(list)[i] = list[i + 1]
    BY <1>2, HeadTailProperties
  <1>4. Len(list) \in Nat \ {0}
    BY <1>2, EmptySeq
  <1>5. DOMAIN Tail(list) = 1 .. Len(list) - 1
    BY <1>3, LenProperties
  <1>6. IsList(Tail(list))
    BY <1>3, SeqIsList
  <1>7. Head(list) = list[1]
    BY <1>2, <1>4
  <1>8. QED
    BY <1>2, <1>3, <1>4, <1>5, <1>6, <1>7

LEMMA TypedTogether ==
    ASSUME NEW l, NEW m, Typed(l), Typed(m), NEW lm, lm = l \o m
    PROVE  Typed(lm)
  <1>1. IsList(l) /\ IsList(m)
    BY DEF Typed
  <1>2. /\ IsList(lm) /\ Len(l) \in Nat /\ Len(m) \in Nat
        /\ DOMAIN l = 1 .. Len(l) /\ DOMAIN m = 1 .. Len(m) /\ DOMAIN lm = 1 .. Len(l) + Len(m)
        /\ \A i \in 1 .. Len(l) + Len(m) : lm[i] = IF i <= Len(l) THEN l[i] ELSE m[i - Len(l)]
    BY <1>1, Concatenated
  <1>3. \A i \in DOMAIN lm :
          /\ lm[i].stmt \in Reading \cup Writing \cup {"BEGIN", "COMMIT", "next_recipe"}
          /\ lm[i].stmt \in AboutProducts => lm[i].arg \in Products
          /\ lm[i].stmt \in ByName => lm[i].arg \in Int
          /\ lm[i].stmt = "next_recipe" => lm[i].arg \in Recipes
    <2> SUFFICES ASSUME NEW i \in DOMAIN lm
                 PROVE  /\ lm[i].stmt \in Reading \cup Writing \cup {"BEGIN", "COMMIT", "next_recipe"}
                        /\ lm[i].stmt \in AboutProducts => lm[i].arg \in Products
                        /\ lm[i].stmt \in ByName => lm[i].arg \in Int
                        /\ lm[i].stmt = "next_recipe" => lm[i].arg \in Recipes
      OBVIOUS
    <2>1. CASE i <= Len(l)
      <3>1. i \in DOMAIN l /\ lm[i] = l[i]
        BY <1>2, <2>1
      <3>2. QED
        BY <3>1 DEF Typed
    <2>2. CASE ~(i <= Len(l))
      <3>1. i - Len(l) \in DOMAIN m /\ lm[i] = m[i - Len(l)]
        BY <1>2, <2>2
      <3>2. QED
        BY <3>1 DEF Typed
    <2>3. QED
      BY <2>1, <2>2
  <1>4. QED
    BY <1>2, <1>3 DEF Typed

\* The statement lists DBManager's methods consist of.
LEMMA OnePlanned ==
    ASSUME NEW stmt \in (Reading \cup Writing) \ {"insert_recipe_ingredient", "select_recipe_id_by_name"}, NEW arg,
           stmt \in AboutProducts => arg \in Products, stmt \in ByName => arg \in Int
    PROVE  Planned(Sql(stmt, arg)) /\ Typed(Sql(stmt, arg))
  <1>1. stmt \notin {"BEGIN", "COMMIT", "next_recipe"}
    BY DEF Reading, Writing
  <1>2. QED
    BY <1>1, OneStatement DEF Planned, Typed, Filling

\* A transaction, and what follows it.
LEMMA TransactionPlanned ==
    ASSUME NEW list, Body(list)
    PROVE  Planned(InTransaction(list)) /\ Planned(InTransaction(list) \o Sql("select_recipe_by_id_with_ingredients", Null))
  <1> DEFINE b == Sql("BEGIN", Null)
             c == Sql("COMMIT", Null)
             r == Sql("select_recipe_by_id_with_ingredients", Null)
             n == Len(list)
  <1>0. PICK bl, t, u : bl = b \o list /\ t = bl \o c /\ u = t \o r
    OBVIOUS
  <1>1. Typed(list) /\ n \in Nat /\ DOMAIN list = 1 .. n
    <2>1. Typed(list) /\ IsList(list)
      BY DEF Body, Typed
    <2>2. QED
      BY <2>1 DEF IsList
  <1>2. /\ IsList(b) /\ IsList(c) /\ IsList(r) /\ Len(b) = 1 /\ Len(c) = 1 /\ Len(r) = 1
        /\ DOMAIN b = {1} /\ DOMAIN c = {1} /\ DOMAIN r = {1}
        /\ b[1].stmt = "BEGIN" /\ c[1].stmt = "COMMIT" /\ r[1].stmt = "select_recipe_by_id_with_ingredients"
    BY OneStatement
  <1> HIDE DEF b, c, r
  <1>3. Typed(b) /\ Typed(c) /\ Typed(r)
    BY <1>2 DEF Typed, AboutProducts, ByName, Reading
  <1>4. /\ Typed(bl) /\ IsList(bl) /\ Len(bl) = n + 1 /\ bl[1] = b[1] /\ \A i \in 1 .. n : bl[1 + i] = list[i]
    <2>1. IsList(list)
      BY <1>1 DEF Typed
    <2>2. Typed(bl)
      BY <1>0, <1>1, <1>3, TypedTogether
    <2>3. /\ IsList(bl) /\ Len(bl) = Len(b) + n
          /\ \A i \in 1 .. Len(b) + n : bl[i] = IF i <= Len(b) THEN b[i] ELSE list[i - Len(b)]
      <3>1. IsList(b) /\ IsList(list) /\ bl = b \o list
        BY <1>0, <1>2, <2>1
      <3>2. QED
        BY <3>1, Concatenated DEF n
    <2>4. \A i \in 1 .. n : 1 + i \in 1 .. Len(b) + n /\ ~(1 + i <= Len(b)) /\ (1 + i) - Len(b) = i
      BY <1>1, <1>2
    <2>5. \A i \in 1 .. n : bl[1 + i] = list[i]
      BY <1>1, <1>2, <2>3, <2>4
    <2>6. QED
      BY <1>1, <1>2, <2>2, <2>3, <2>5
  <1> HIDE DEF n
  <1>5. /\ Typed(t) /\ IsList(t) /\ Len(t) = n + 2 /\ DOMAIN t = 1 .. n + 2
        /\ \A i \in 1 .. n + 1 : t[i] = bl[i]
        /\ t[n + 2] = c[1]
    <2>1. Typed(t)
      BY <1>0, <1>3, <1>4, TypedTogether
    <2>2. /\ IsList(t) /\ Len(t) = Len(bl) + Len(c) /\ DOMAIN t = 1 .. Len(bl) + Len(c)
          /\ \A i \in 1 .. Len(bl) + Len(c) : t[i] = IF i <= Len(bl) THEN bl[i] ELSE c[i - Len(bl)]
      <3>1. IsList(bl) /\ IsList(c) /\ t = bl \o c
        BY <1>0, <1>2, <1>4
      <3>2. QED
        BY <3>1, Concatenated
    <2>3. t[(n + 1) + 1] = c[1]
      BY <1>2, <1>4, <2>2
    <2>4. QED
      BY <1>1, <1>2, <1>4, <2>1, <2>2, <2>3
  <1>6. /\ Typed(u) /\ DOMAIN u = 1 .. n + 3
        /\ \A i \in 1 .. n + 2 : u[i] = t[i]
        /\ u[n + 3] = r[1]
    <2>1. Typed(u)
      BY <1>0, <1>3, <1>5, TypedTogether
    <2>2. /\ Len(u) = Len(t) + Len(r) /\ DOMAIN u = 1 .. Len(t) + Len(r)
          /\ \A i \in 1 .. Len(t) + Len(r) : u[i] = IF i <= Len(t) THEN t[i] ELSE r[i - Len(t)]
      <3>1. IsList(t) /\ IsList(r) /\ u = t \o r
        BY <1>0, <1>2, <1>5
      <3>2. QED
        BY <3>1, Concatenated
    <2>3. u[(n + 2) + 1] = r[1]
      BY <1>2, <1>5, <2>2
    <2>4. QED
      BY <1>1, <1>2, <1>5, <2>1, <2>2, <2>3
  \* the statements of t, one after the other
  <1>7. t[1].stmt = "BEGIN" /\ t[n + 2].stmt = "COMMIT" /\ \A i \in 1 .. n : t[i + 1] = list[i]
    BY <1>1, <1>2, <1>4, <1>5
  <1>8. \A i \in 2 .. n + 1 :
          /\ i - 1 \in DOMAIN list /\ t[i] = list[i - 1]
          /\ t[i].stmt \notin {"BEGIN", "COMMIT", "create_product", "delete_recipe_by_id"}
          /\ t[i].stmt = "select_recipe_id_by_name" => LookedUp(t, i)
          /\ t[i].stmt = "insert_recipe_ingredient" => Located(t, i)
    <2> SUFFICES ASSUME NEW i \in 2 .. n + 1
                 PROVE  /\ i - 1 \in DOMAIN list /\ t[i] = list[i - 1]
                        /\ t[i].stmt \notin {"BEGIN", "COMMIT", "create_product", "delete_recipe_by_id"}
                        /\ t[i].stmt = "select_recipe_id_by_name" => LookedUp(t, i)
                        /\ t[i].stmt = "insert_recipe_ingredient" => Located(t, i)
      OBVIOUS
    <2>1. i - 1 \in 1 .. n /\ (i - 1) + 1 = i
      BY <1>1
    <2>2. i - 1 \in DOMAIN list /\ t[i] = list[i - 1]
      BY <1>1, <1>7, <2>1
    <2>3. t[i].stmt \notin {"BEGIN", "COMMIT", "create_product", "delete_recipe_by_id"}
      BY <2>2 DEF Body
    <2>4. ASSUME t[i].stmt = "select_recipe_id_by_name" PROVE LookedUp(t, i)
      <3>1. i - 1 > 1 /\ list[(i - 1) - 1] = [stmt |-> "insert_recipe_if_absent", arg |-> list[i - 1].arg]
        BY <2>2, <2>4 DEF Body, LookedUp
      <3>2. (i - 1) - 1 \in 1 .. n /\ ((i - 1) - 1) + 1 = i - 1
        BY <1>1, <2>1, <3>1
      <3>3. t[i - 1] = list[(i - 1) - 1]
        BY <1>7, <3>2
      <3>4. QED
        BY <2>1, <2>2, <3>1, <3>3 DEF LookedUp
    <2>5. ASSUME t[i].stmt = "insert_recipe_ingredient" PROVE Located(t, i)
      <3>1. PICK k \in 1 .. (i - 1) - 1 : list[k].stmt \in Locating
        BY <2>2, <2>5 DEF Body, Located
      <3>2. k \in 1 .. n /\ k + 1 \in 1 .. i - 1
        BY <1>1, <2>1
      <3>3. t[k + 1].stmt \in Locating
        BY <1>7, <3>1, <3>2
      <3>4. QED
        BY <3>2, <3>3 DEF Located
    <2>6. QED
      BY <2>2, <2>3, <2>4, <2>5
  <1>9. Planned(t)
    <2>1. \A i \in DOMAIN t : i = 1 \/ i = n + 2 \/ i \in 2 .. n + 1
      BY <1>1, <1>5
    <2>2. n + 2 \in DOMAIN t
      BY <1>1, <1>5
    <2>3. QED
      BY <1>5, <1>7, <1>8, <2>1, <2>2 DEF Planned
  <1>10. Planned(u)
    <2>1. \A i \in DOMAIN u : i = n + 3 \/ i \in DOMAIN t
      BY <1>1, <1>5, <1>6
    <2>2. \A i \in DOMAIN t : u[i] = t[i] /\ i \in DOMAIN u
      BY <1>1, <1>5, <1>6
    <2>3. \A i \in DOMAIN t : (LookedUp(t, i) => LookedUp(u, i)) /\ (Located(t, i) => Located(u, i))
      BY <1>1, <1>5, <1>6, <2>2 DEF LookedUp, Located
    <2>4. u[n + 3].stmt = "select_recipe_by_id_with_ingredients"
      BY <1>2, <1>6
    <2>5. QED
      BY <1>6, <1>9, <2>1, <2>2, <2>3, <2>4 DEF Planned, Filling
  <1>11. QED
    BY <1>0, <1>9, <1>10 DEF InTransaction, b, c, r

\* One statement for every element of a sequence.
LEMMA ForEach ==
    ASSUME NEW items, NEW stmt,
           \/ items \in Seq(Products) /\ stmt = "insert_product"
           \/ items \in Seq(Products) /\ stmt = "insert_recipe_ingredient"
           \/ items \in Seq(Recipes) /\ stmt = "next_recipe"
    PROVE  LET list == [i \in DOMAIN items |-> [stmt |-> stmt, arg |-> items[i]]] IN
           Typed(list) /\ \A i \in DOMAIN list : list[i].stmt = stmt
  <1> DEFINE list == [i \in DOMAIN items |-> [stmt |-> stmt, arg |-> items[i]]]
             S == IF stmt = "next_recipe" THEN Recipes ELSE Products
  <1>1. items \in Seq(S)
    OBVIOUS
  <1>2. Len(items) \in Nat /\ DOMAIN items = 1 .. Len(items) /\ \A i \in DOMAIN items : items[i] \in S
    BY <1>1, LenProperties, ElementOfSeq
  <1>3. DOMAIN list = 1 .. Len(items) /\ list = [i \in 1 .. Len(items) |-> list[i]]
    BY <1>2
  <1>4. Len(list) = Len(items)
    BY <1>2, <1>3
  <1>5. \A i \in DOMAIN list : list[i].stmt = stmt /\ list[i].arg \in S
    BY <1>2, <1>3
  <1> HIDE DEF list
  <1>6. Typed(list)
    BY <1>2, <1>3, <1>4, <1>5 DEF Typed, IsList, ByName, AboutProducts, Writing
  <1>7. QED
    BY <1>5, <1>6 DEF list

\* A recipe gets its ingredients after the old ones are deleted.
LEMMA Replacement ==
    ASSUME NEW recipe \in Recipes
    PROVE  /\ Typed(ReplaceRecipeIngredients(recipe))
           /\ \A i \in DOMAIN ReplaceRecipeIngredients(recipe) :
                  ReplaceRecipeIngredients(recipe)[i].stmt
                      \in {"delete_recipe_ingredients_by_recipe_id", "insert_recipe_ingredient"}
  <1> DEFINE items == [i \in DOMAIN recipe.items |->
                          [stmt |-> "insert_recipe_ingredient", arg |-> recipe.items[i]]]
             d == Sql("delete_recipe_ingredients_by_recipe_id", Null)
  <1>1. recipe.items \in Seq(Products)
    BY DEF Recipes
  <1>2. IsList(d) /\ DOMAIN d = {1} /\ d[1].stmt = "delete_recipe_ingredients_by_recipe_id"
    BY OneStatement
  <1>3. Typed(items) /\ \A i \in DOMAIN items : items[i].stmt = "insert_recipe_ingredient"
    BY <1>1, ForEach
  <1> HIDE DEF items, d
  <1>4. Typed(d) /\ IsList(items)
    BY <1>2, <1>3 DEF Typed, AboutProducts, ByName, Writing
  <1>5. PICK r : r = d \o items
    OBVIOUS
  <1>6. Typed(r)
    BY <1>3, <1>4, <1>5, TypedTogether
  <1>7. /\ Len(d) \in Nat /\ DOMAIN d = 1 .. Len(d) /\ DOMAIN items = 1 .. Len(items)
        /\ Len(items) \in Nat /\ DOMAIN r = 1 .. Len(d) + Len(items)
        /\ \A i \in 1 .. Len(d) + Len(items) : r[i] = IF i <= Len(d) THEN d[i] ELSE items[i - Len(d)]
    BY <1>2, <1>4, <1>5, Concatenated
  <1>8. \A i \in DOMAIN r :
           r[i].stmt \in {"delete_recipe_ingredients_by_recipe_id", "insert_recipe_ingredient"}
    <2> SUFFICES ASSUME NEW i \in DOMAIN r
                 PROVE  r[i].stmt \in {"delete_recipe_ingredients_by_recipe_id", "insert_recipe_ingredient"}
      OBVIOUS
    <2>1. CASE i <= Len(d)
      <3>1. i \in DOMAIN d /\ r[i] = d[i]
        BY <1>7, <2>1
      <3>2. QED
        BY <1>2, <3>1
    <2>2. CASE ~(i <= Len(d))
      <3>1. i - Len(d) \in DOMAIN items /\ r[i] = items[i - Len(d)]
        BY <1>7, <2>2
      <3>2. QED
        BY <1>3, <3>1
    <2>3. QED
      BY <2>1, <2>2
  <1>9. QED
    BY <1>5, <1>6, <1>8 DEF ReplaceRecipeIngredients, items, d

\* A recipe is located before its ingredients are replaced.
LEMMA ReplacementBody ==
    ASSUME NEW recipe \in Recipes, NEW stmt \in {"create_recipe", "update_recipe_name_by_id"}
    PROVE  Body(Sql(stmt, recipe.name) \o ReplaceRecipeIngredients(recipe))
  <1>1. PICK s, r, l : /\ s = Sql(stmt, recipe.name) /\ r = ReplaceRecipeIngredients(recipe)
                       /\ l = s \o r
    OBVIOUS
  <1>2. IsList(s) /\ Len(s) = 1 /\ DOMAIN s = {1} /\ s[1].stmt = stmt /\ s[1].arg \in Int
    BY <1>1, OneStatement DEF Recipes
  <1>3. /\ Typed(r) /\ IsList(r)
        /\ \A i \in DOMAIN r :
               r[i].stmt \in {"delete_recipe_ingredients_by_recipe_id", "insert_recipe_ingredient"}
    BY <1>1, Replacement DEF Typed
  <1>4. Typed(s)
    BY <1>2 DEF Typed, AboutProducts, ByName, Writing
  <1>5. Typed(l)
    BY <1>1, <1>3, <1>4, TypedTogether
  <1>6. /\ Len(r) \in Nat /\ DOMAIN r = 1 .. Len(r) /\ DOMAIN l = 1 .. Len(s) + Len(r)
        /\ \A i \in 1 .. Len(s) + Len(r) : l[i] = IF i <= Len(s) THEN s[i] ELSE r[i - Len(s)]
    <2>1. IsList(s) /\ IsList(r) /\ l = s \o r
      BY <1>1, <1>2, <1>3
    <2>2. QED
      BY <2>1, Concatenated
  <1>7. l[1].stmt = stmt
    BY <1>2, <1>6
  <1>8. \A i \in DOMAIN l \ {1} :
           l[i].stmt \in {"delete_recipe_ingredients_by_recipe_id", "insert_recipe_ingredient"} /\ 1 \in 1 .. i - 1
    <2> SUFFICES ASSUME NEW i \in DOMAIN l, i # 1
                 PROVE  l[i].stmt \in {"delete_recipe_ingredients_by_recipe_id", "insert_recipe_ingredient"}
                        /\ 1 \in 1 .. i - 1
      OBVIOUS
    <2>1. i - 1 \in DOMAIN r /\ l[i] = r[i - 1] /\ 1 \in 1 .. i - 1
      BY <1>2, <1>6
    <2>2. QED
      BY <1>3, <2>1
  <1>9. \A i \in DOMAIN l \ {1} : Located(l, i)
    BY <1>7, <1>8 DEF Located, Locating
  <1>10. QED
    BY <1>1, <1>5, <1>7, <1>8, <1>9 DEF Body

\* A round of the loop over recipes: inserted if absent, looked up, filled.
LEMMA UpsertBody ==
    ASSUME NEW recipe \in Recipes
    PROVE  /\ Body(UpsertRecipe(recipe)) /\ Len(UpsertRecipe(recipe)) >= 2
           /\ UpsertRecipe(recipe)[2].stmt \in Locating
  <1>1. PICK a, b, ab, r, l :
            /\ a = Sql("insert_recipe_if_absent", recipe.name)
            /\ b = Sql("select_recipe_id_by_name", recipe.name)
            /\ r = ReplaceRecipeIngredients(recipe)
            /\ ab = a \o b /\ l = ab \o r
    OBVIOUS
  <1>2. /\ IsList(a) /\ Len(a) = 1 /\ DOMAIN a = {1}
        /\ IsList(b) /\ Len(b) = 1 /\ DOMAIN b = {1} /\ recipe.name \in Int
    BY <1>1, OneStatement DEF Recipes
  <1>3. /\ a[1] = [stmt |-> "insert_recipe_if_absent", arg |-> recipe.name]
        /\ b[1] = [stmt |-> "select_recipe_id_by_name", arg |-> recipe.name]
    BY <1>1 DEF Sql
  <1>4. /\ IsList(ab) /\ Len(ab) = 2 /\ DOMAIN ab = {1, 2}
        /\ ab[1] = [stmt |-> "insert_recipe_if_absent", arg |-> recipe.name]
        /\ ab[2] = [stmt |-> "select_recipe_id_by_name", arg |-> recipe.name]
    <2>1. IsList(a) /\ IsList(b) /\ ab = a \o b
      BY <1>1, <1>2
    <2>2. /\ IsList(ab) /\ Len(ab) = Len(a) + Len(b) /\ DOMAIN ab = 1 .. Len(a) + Len(b)
          /\ \A i \in 1 .. Len(a) + Len(b) : ab[i] = IF i <= Len(a) THEN a[i] ELSE b[i - Len(a)]
      BY <2>1, Concatenated
    <2>3. DOMAIN ab = 1 .. 2 /\ ab[1] = a[1] /\ ab[2] = b[1]
      BY <1>2, <2>2
    <2>4. QED
      BY <1>2, <1>3, <2>2, <2>3
  <1>5. Typed(ab)
    BY <1>2, <1>4 DEF Typed, AboutProducts, ByName, Reading, Writing
  <1>6. /\ Typed(r) /\ IsList(r)
        /\ \A i \in DOMAIN r :
               r[i].stmt \in {"delete_recipe_ingredients_by_recipe_id", "insert_recipe_ingredient"}
    BY <1>1, Replacement DEF Typed
  <1>7. Typed(l)
    BY <1>1, <1>5, <1>6, TypedTogether
  <1>8. /\ Len(r) \in Nat /\ DOMAIN r = 1 .. Len(r) /\ DOMAIN l = 1 .. Len(ab) + Len(r)
        /\ Len(l) = Len(ab) + Len(r)
        /\ \A i \in 1 .. Len(ab) + Len(r) : l[i] = IF i <= Len(ab) THEN ab[i] ELSE r[i - Len(ab)]
    BY <1>1, <1>4, <1>6, Concatenated
  <1>9. l[1] = ab[1] /\ l[2] = ab[2]
    BY <1>4, <1>8
  <1>10. LookedUp(l, 2) /\ l[2].stmt \in Locating
    BY <1>4, <1>9 DEF LookedUp, Locating
  <1>11. \A i \in DOMAIN l \ {1, 2} :
           l[i].stmt \in {"delete_recipe_ingredients_by_recipe_id", "insert_recipe_ingredient"} /\ 2 \in 1 .. i - 1
    <2> SUFFICES ASSUME NEW i \in DOMAIN l, i # 1, i # 2
                 PROVE  l[i].stmt \in {"delete_recipe_ingredients_by_recipe_id", "insert_recipe_ingredient"}
                        /\ 2 \in 1 .. i - 1
      OBVIOUS
    <2>1. i - 2 \in DOMAIN r /\ l[i] = r[i - 2] /\ 2 \in 1 .. i - 1
      BY <1>4, <1>8
    <2>2. QED
      BY <1>6, <2>1
  <1>12. \A i \in DOMAIN l \ {1, 2} : Located(l, i)
    BY <1>10, <1>11 DEF Located
  <1>13. Body(l)
    <2>1. ASSUME NEW i \in DOMAIN l
          PROVE  /\ l[i].stmt \notin {"BEGIN", "COMMIT", "create_product", "delete_recipe_by_id"}
                 /\ l[i].stmt = "select_recipe_id_by_name" => LookedUp(l, i)
                 /\ l[i].stmt = "insert_recipe_ingredient" => Located(l, i)
      <3>1. CASE i = 1
        BY <1>4, <1>9, <3>1
      <3>2. CASE i = 2
        BY <1>4, <1>9, <1>10, <3>2
      <3>3. CASE i \notin {1, 2}
        BY <1>11, <1>12, <3>3
      <3>4. QED
        BY <3>1, <3>2, <3>3
    <2>2. QED
      BY <1>7, <2>1 DEF Body
  <1>14. Len(l) >= 2
    BY <1>4, <1>8
  <1>15. QED
    BY <1>1, <1>10, <1>13, <1>14 DEF UpsertRecipe

\* Whatever the call, its statements are planned.
LEMMA StatementsPlanned ==
    ASSUME NEW c \in Requests
    PROVE  Planned(Statements(c))
  <1> USE StoreAssumption
  <1>1. CASE c.op = "CreateProduct"
    <2> DEFINE l == Sql("create_product", c.arg)
               m == Sql("select_product_by_id", Null)
    <2>1. /\ Typed(l) /\ Typed(m)
      BY <1>1, OnePlanned DEF AboutProducts, ByName, Reading, Writing
    <2>2. /\ IsList(l) /\ IsList(m) /\ Len(l) = 1 /\ Len(m) = 1
          /\ l[1].stmt = "create_product" /\ m[1].stmt = "select_product_by_id"
      BY OneStatement
    <2> HIDE DEF l, m
    <2>3. PICK lm : lm = l \o m
      OBVIOUS
    <2>4. Typed(lm)
      BY <2>1, <2>3, TypedTogether
    <2>5. /\ DOMAIN lm = 1 .. Len(l) + Len(m)
          /\ \A i \in 1 .. Len(l) + Len(m) : lm[i] = IF i <= Len(l) THEN l[i] ELSE m[i - Len(l)]
      <3>1. IsList(l) /\ IsList(m) /\ lm = l \o m
        BY <2>2, <2>3
      <3>2. QED
        BY <3>1, Concatenated
    <2>6. DOMAIN lm = 1 .. 2 /\ lm[1] = l[1] /\ lm[2] = m[1]
      BY <2>2, <2>5
    <2>7. Planned(lm)
      BY <2>2, <2>4, <2>6 DEF Planned, Filling
    <2>8. QED
      BY <1>1, <2>3, <2>7 DEF Statements, CreateProduct, l, m
  <1>2. CASE c.op = "UpdateProduct"
    BY <1>2, OnePlanned DEF Statements, AboutProducts, ByName, Reading, Writing
  <1>3. CASE c.op \in {"GetProduct", "GetProducts", "DeleteProduct", "GetRecipe", "GetRecipes",
                       "GetCookableRecipes", "DeleteRecipe"}
    BY <1>3, OnePlanned DEF Statements, AboutProducts, ByName, Reading, Writing
  <1>4. CASE c.op = "InsertProducts"
    <2> DEFINE list == [i \in DOMAIN c.arg |-> [stmt |-> "insert_product", arg |-> c.arg[i]]]
    <2>0. c.arg \in Seq(Products)
      BY <1>4
    <2> HIDE StoreAssumption
    <2>1. Typed(list) /\ \A i \in DOMAIN list : list[i].stmt = "insert_product"
      BY <2>0, ForEach
    <2> HIDE DEF list
    <2>2. Body(list)
      BY <2>1 DEF Body
    <2>3. QED
      BY <1>4, <2>2, TransactionPlanned DEF Statements, InsertProducts, list
  <1>5. CASE c.op = "CreateRecipe"
    <2>1. PICK list : list = Sql("create_recipe", c.arg.name) \o ReplaceRecipeIngredients(c.arg)
      OBVIOUS
    <2>2. Body(list)
      BY <1>5, <2>1, ReplacementBody
    <2>3. Planned(InTransaction(list) \o Sql("select_recipe_by_id_with_ingredients", Null))
      BY <2>2, TransactionPlanned
    <2>4. Statements(c) = InTransaction(list) \o Sql("select_recipe_by_id_with_ingredients", Null)
      BY <1>5, <2>1 DEF Statements, CreateRecipe
    <2>5. QED
      BY <2>3, <2>4
  <1>6. CASE c.op = "UpdateRecipe"
    <2>1. Body(Sql("update_recipe_name_by_id", c.arg.name) \o ReplaceRecipeIngredients(c.arg))
      BY <1>6, ReplacementBody
    <2>2. QED
      BY <1>6, <2>1, TransactionPlanned DEF Statements, UpdateRecipe
  <1>7. CASE c.op = "InsertRecipes"
    <2> DEFINE list == [i \in DOMAIN c.arg |-> [stmt |-> "next_recipe", arg |-> c.arg[i]]]
    <2>0. c.arg \in Seq(Recipes)
      BY <1>7
    <2> HIDE StoreAssumption
    <2>1. Typed(list) /\ \A i \in DOMAIN list : list[i].stmt = "next_recipe"
      BY <2>0, ForEach
    <2> HIDE DEF list
    <2>2. Body(list)
      BY <2>1 DEF Body
    <2>3. QED
      BY <1>7, <2>2, TransactionPlanned DEF Statements, InsertRecipes, list
  <1>8. CASE c.op = "InsertRecipe"
    <2>1. Typed(Sql("next_recipe", c.arg))
      BY <1>8, OneStatement DEF Typed, AboutProducts, ByName
    <2>2. Body(Sql("next_recipe", c.arg))
      BY <2>1, OneStatement DEF Body
    <2>3. QED
      BY <1>8, <2>2, TransactionPlanned DEF Statements, InsertRecipe
  <1>9. CASE c.op = "InsertProduct"
    BY <1>9, OnePlanned DEF Statements, AboutProducts, ByName, Reading, Writing
  <1>10. QED
    BY <1>1, <1>2, <1>3, <1>4, <1>5, <1>6, <1>7, <1>8, <1>9
-----------------------------------------------------------------------------
(* Steps.                                                                  *)

LEMMA InitIndInv == Init => IndInv
  <1> SUFFICES ASSUME Init PROVE IndInv
    OBVIOUS
  <1> USE DEF Init
  <1>1. Durable = EmptyDb
    BY DEF Durable
  <1>2. Grown(EmptyDb, EmptyDb)
    BY EmptyRows, FollowsSelf DEF Follows
  <1>3. TodoKnown
    BY DEF TodoKnown, Typed, IsList
  <1>4. SeenKnown
    BY DEF SeenKnown
  <1>5. Rows(db) /\ Rows(Durable) /\ SchemaHolds(db) /\ SchemaHolds(Durable) /\ Grown(Durable, db)
    BY <1>1, <1>2, EmptyRows
  <1>6. /\ failed \subseteq Reading \cup Writing /\ call \in Requests \cup {NoCall} /\ rowid \in Int
        /\ reply = Null /\ applied \in BOOLEAN
    <2>1. rowid \in Int
      OBVIOUS
    <2>2. failed \subseteq Reading \cup Writing /\ call \in Requests \cup {NoCall}
      OBVIOUS
    <2>3. reply = Null
      OBVIOUS
    <2>4. applied \in BOOLEAN
      OBVIOUS
    <2>5. QED
      BY <2>1, <2>2, <2>3, <2>4
  <1>7. QED
    BY <1>3, <1>4, <1>5, <1>6 DEF IndInv

\* The first statement of the call has been executed.
LEMMA TailKnown ==
    ASSUME TodoKnown, todo # <<>>, todo' = Tail(todo), UNCHANGED call,
           saved' = Null \/ (todo[1].stmt # "COMMIT" /\ (saved # Null \/ todo[1].stmt = "BEGIN")),
           todo[1].stmt = "insert_recipe_if_absent" => NameTaken(db', todo[1].arg),
           ((HasRecipe(db, rowid) \/ todo[1].stmt \in Locating)
               /\ \E i \in DOMAIN todo : todo[i].stmt = "insert_recipe_ingredient") => HasRecipe(db', rowid')
    PROVE  TodoKnown'
  <1> DEFINE n == Len(todo)
             rest == Tail(todo)
  <1>1. /\ IsList(rest) /\ n \in Nat \ {0} /\ Len(rest) = n - 1
        /\ DOMAIN todo = 1 .. n /\ DOMAIN rest = 1 .. n - 1
        /\ \A i \in 1 .. n - 1 : rest[i] = todo[i + 1]
    <2>1. IsList(todo)
      BY DEF TodoKnown, Typed
    <2>2. QED
      BY <2>1, Rest
  <1> HIDE DEF n, rest
  <1>2. \A i \in DOMAIN rest : i + 1 \in DOMAIN todo /\ i + 1 # 1 /\ (i + 1) - 1 = i /\ rest[i] = todo[i + 1]
    BY <1>1
  <1>3. Typed(rest)
    BY <1>1, <1>2 DEF TodoKnown, Typed
  <1>4. call # NoCall
    BY DEF TodoKnown
  <1>5. saved' # Null => \E k \in DOMAIN rest : rest[k].stmt = "COMMIT"
    <2> SUFFICES ASSUME saved' # Null PROVE \E k \in DOMAIN rest : rest[k].stmt = "COMMIT"
      OBVIOUS
    <2>1. 1 \in DOMAIN todo
      BY <1>1
    <2>2. PICK k \in DOMAIN todo : todo[k].stmt = "COMMIT"
      BY <2>1 DEF TodoKnown
    <2>3. k - 1 \in DOMAIN rest /\ rest[k - 1] = todo[k]
      <3>1. k # 1
        BY <2>2
      <3>2. k - 1 \in 1 .. n - 1 /\ (k - 1) + 1 = k
        BY <1>1, <3>1
      <3>3. QED
        BY <1>1, <3>2
    <2>4. QED
      BY <2>2, <2>3
  <1>6. ASSUME NEW i \in DOMAIN rest
        PROVE  /\ rest[i].stmt # "BEGIN"
               /\ rest[i].stmt \in {"create_product", "delete_recipe_by_id"} =>
                      \A k \in DOMAIN rest : rest[k].stmt \notin Filling
               /\ rest[i].stmt = "select_recipe_id_by_name" =>
                      IF i = 1 THEN NameTaken(db', rest[i].arg) ELSE LookedUp(rest, i)
               /\ rest[i].stmt = "insert_recipe_ingredient" => HasRecipe(db', rowid') \/ Located(rest, i)
    <2>1. i + 1 \in DOMAIN todo /\ i + 1 # 1 /\ (i + 1) - 1 = i /\ rest[i] = todo[i + 1]
      BY <1>2
    <2>2. rest[i].stmt # "BEGIN"
      BY <2>1 DEF TodoKnown
    <2>3. rest[i].stmt \in {"create_product", "delete_recipe_by_id"} =>
              \A k \in DOMAIN rest : rest[k].stmt \notin Filling
      BY <1>2, <2>1 DEF TodoKnown
    <2>4. ASSUME rest[i].stmt = "select_recipe_id_by_name"
          PROVE  IF i = 1 THEN NameTaken(db', rest[i].arg) ELSE LookedUp(rest, i)
      <3>1. todo[i] = [stmt |-> "insert_recipe_if_absent", arg |-> rest[i].arg]
        BY <2>1, <2>4 DEF TodoKnown, LookedUp
      <3>2. CASE i = 1
        BY <3>1, <3>2
      <3>3. CASE i # 1
        <4>1. i > 1 /\ i - 1 \in DOMAIN rest /\ (i - 1) + 1 = i
          BY <1>1, <3>3
        <4>2. rest[i - 1] = todo[i]
          BY <1>2, <4>1
        <4>3. QED
          BY <3>1, <3>3, <4>1, <4>2 DEF LookedUp
      <3>4. QED
        BY <3>2, <3>3
    <2>5. ASSUME rest[i].stmt = "insert_recipe_ingredient"
          PROVE  HasRecipe(db', rowid') \/ Located(rest, i)
      <3>1. HasRecipe(db, rowid) \/ Located(todo, i + 1)
        BY <2>1, <2>5 DEF TodoKnown
      <3>2. CASE HasRecipe(db, rowid)
        BY <2>1, <2>5, <3>2
      <3>3. CASE Located(todo, i + 1)
        <4>1. PICK k \in 1 .. i : todo[k].stmt \in Locating
          BY <2>1, <3>3 DEF Located
        <4>2. CASE k = 1
          BY <2>1, <2>5, <4>1, <4>2
        <4>3. CASE k # 1
          <5>1. k - 1 \in 1 .. i - 1 /\ k - 1 \in DOMAIN rest /\ (k - 1) + 1 = k
            BY <1>1, <4>3
          <5>2. rest[k - 1].stmt \in Locating
            BY <1>2, <4>1, <5>1
          <5>3. QED
            BY <5>1, <5>2 DEF Located
        <4>4. QED
          BY <4>2, <4>3
      <3>4. QED
        BY <3>1, <3>2, <3>3
    <2>6. QED
      BY <2>2, <2>3, <2>4, <2>5
  <1>7. QED
    BY <1>3, <1>4, <1>5, <1>6 DEF TodoKnown, rest

\* A round of the loop begins: its statements come before the rest.
LEMMA RoundKnown ==
    ASSUME TodoKnown, todo # <<>>, todo[1].stmt = "next_recipe",
           todo' = UpsertRecipe(todo[1].arg) \o Tail(todo), UNCHANGED <<db, saved, call, rowid>>
    PROVE  TodoKnown'
  <1>1. PICK u, rest, l : u = UpsertRecipe(todo[1].arg) /\ rest = Tail(todo) /\ l = u \o rest
    OBVIOUS
  <1>2. /\ IsList(rest) /\ Len(todo) \in Nat \ {0} /\ Len(rest) = Len(todo) - 1
        /\ DOMAIN todo = 1 .. Len(todo) /\ DOMAIN rest = 1 .. Len(todo) - 1
        /\ \A i \in 1 .. Len(todo) - 1 : rest[i] = todo[i + 1]
    <2>1. IsList(todo)
      BY DEF TodoKnown, Typed
    <2>2. QED
      BY <1>1, <2>1, Rest
  <1>3. 1 \in DOMAIN todo /\ call # NoCall
    BY <1>2 DEF TodoKnown
  <1>4. \A i \in DOMAIN rest : i + 1 \in DOMAIN todo /\ i + 1 # 1 /\ rest[i] = todo[i + 1]
    BY <1>2
  <1>5. Body(u) /\ Typed(u) /\ IsList(u) /\ Len(u) >= 2 /\ u[2].stmt \in Locating
    <2>1. todo[1].arg \in Recipes
      BY <1>3 DEF TodoKnown, Typed
    <2>2. QED
      BY <1>1, <2>1, UpsertBody DEF Body, Typed
  <1>6. Typed(rest)
    BY <1>2, <1>4 DEF TodoKnown, Typed
  <1>7. Typed(l)
    BY <1>1, <1>5, <1>6, TypedTogether
  <1>8. /\ Len(u) \in Nat /\ DOMAIN u = 1 .. Len(u) /\ Len(rest) \in Nat
        /\ DOMAIN rest = 1 .. Len(rest) /\ DOMAIN l = 1 .. Len(u) + Len(rest)
        /\ \A i \in 1 .. Len(u) + Len(rest) : l[i] = IF i <= Len(u) THEN u[i] ELSE rest[i - Len(u)]
    <2>1. IsList(u) /\ IsList(rest) /\ l = u \o rest
      BY <1>1, <1>2, <1>5
    <2>2. QED
      BY <2>1, Concatenated
  <1>9. \A i \in DOMAIN u : i \in DOMAIN l /\ l[i] = u[i] /\ i \in Nat \ {0}
    BY <1>8
  <1>10. \A j \in DOMAIN rest : j + Len(u) \in DOMAIN l /\ l[j + Len(u)] = rest[j]
    BY <1>8
  <1>11. \A i \in DOMAIN l : i \in DOMAIN u \/ (i - Len(u) \in DOMAIN rest /\ i > 2 /\ l[i] = rest[i - Len(u)])
    BY <1>5, <1>8
  <1>12. saved # Null => \E k \in DOMAIN l : l[k].stmt = "COMMIT"
    <2> SUFFICES ASSUME saved # Null PROVE \E k \in DOMAIN l : l[k].stmt = "COMMIT"
      OBVIOUS
    <2>1. PICK k \in DOMAIN todo : todo[k].stmt = "COMMIT"
      BY DEF TodoKnown
    <2>2. k - 1 \in DOMAIN rest /\ rest[k - 1] = todo[k]
      <3>1. k # 1
        BY <2>1
      <3>2. k - 1 \in 1 .. Len(todo) - 1 /\ (k - 1) + 1 = k
        BY <1>2, <3>1
      <3>3. QED
        BY <1>2, <3>2
    <2>3. QED
      BY <1>10, <2>1, <2>2
  <1>13. ASSUME NEW i \in DOMAIN l
         PROVE  /\ l[i].stmt \notin {"BEGIN", "create_product", "delete_recipe_by_id"}
                /\ l[i].stmt = "select_recipe_id_by_name" => i # 1 /\ LookedUp(l, i)
                /\ l[i].stmt = "insert_recipe_ingredient" => HasRecipe(db, rowid) \/ Located(l, i)
    <2>1. CASE i \in DOMAIN u
      <3>1. l[i] = u[i]
        BY <1>9, <2>1
      <3>2. ASSUME l[i].stmt = "select_recipe_id_by_name" PROVE i # 1 /\ LookedUp(l, i)
        <4>1. i > 1 /\ u[i - 1] = [stmt |-> "insert_recipe_if_absent", arg |-> u[i].arg]
          BY <1>5, <2>1, <3>1, <3>2 DEF Body, LookedUp
        <4>2. i # 1 /\ i - 1 \in DOMAIN u
          BY <1>8, <2>1, <4>1
        <4>3. QED
          BY <1>9, <3>1, <4>1, <4>2 DEF LookedUp
      <3>3. ASSUME l[i].stmt = "insert_recipe_ingredient" PROVE Located(l, i)
        <4>1. PICK k \in 1 .. i - 1 : u[k].stmt \in Locating
          BY <1>5, <2>1, <3>1, <3>3 DEF Body, Located
        <4>2. k \in DOMAIN u
          BY <1>8, <2>1
        <4>3. QED
          BY <1>9, <4>1, <4>2 DEF Located
      <3>4. QED
        BY <1>5, <2>1, <3>1, <3>2, <3>3 DEF Body
    <2>2. CASE i \notin DOMAIN u
      <3>1. PICK j \in DOMAIN rest : j = i - Len(u) /\ l[i] = rest[j] /\ i > 2 /\ i = j + Len(u)
        <4>1. i - Len(u) \in DOMAIN rest /\ l[i] = rest[i - Len(u)] /\ i > 2
          BY <1>11, <2>2
        <4>2. i = (i - Len(u)) + Len(u)
          BY <1>8
        <4>3. QED
          BY <4>1, <4>2
      <3>2. j + 1 \in DOMAIN todo /\ j + 1 # 1 /\ l[i] = todo[j + 1]
        BY <1>4, <3>1
      <3>3. l[i].stmt \notin {"BEGIN", "create_product", "delete_recipe_by_id"}
        BY <1>3, <3>2 DEF TodoKnown, Filling
      <3>4. ASSUME l[i].stmt = "select_recipe_id_by_name" PROVE i # 1 /\ LookedUp(l, i)
        <4>1. j + 1 > 1 /\ todo[(j + 1) - 1] = [stmt |-> "insert_recipe_if_absent", arg |-> l[i].arg]
          BY <3>2, <3>4 DEF TodoKnown, LookedUp
        <4>2. (j + 1) - 1 = j
          BY <1>2
        <4>3. j # 1
          BY <4>1, <4>2
        <4>4. j - 1 \in DOMAIN rest /\ (j - 1) + 1 = j /\ (j - 1) + Len(u) = i - 1
          BY <1>2, <1>8, <3>1, <4>3
        <4>5. l[i - 1] = todo[j]
          BY <1>4, <1>10, <4>4
        <4>6. l[i - 1] = [stmt |-> "insert_recipe_if_absent", arg |-> l[i].arg]
          BY <4>1, <4>2, <4>5
        <4>7. i \in Nat /\ i > 1 /\ i # 1
          BY <1>2, <1>8, <3>1
        <4>8. QED
          BY <4>6, <4>7 DEF LookedUp
      <3>5. Located(l, i)
        <4>1. 2 \in DOMAIN u /\ 2 \in 1 .. i - 1
          BY <1>5, <1>8, <3>1
        <4>2. QED
          BY <1>5, <1>9, <4>1 DEF Located
      <3>6. QED
        BY <3>3, <3>4, <3>5
    <2>3. QED
      BY <2>1, <2>2
  <1>14. todo' = l
    BY <1>1
  <1>15. QED
    BY <1>3, <1>7, <1>12, <1>13, <1>14 DEF TodoKnown

\* The ids that become durable are those of the counters, and none of them is
\* one that was durable and is not.
LEMMA NothingNew ==
    ASSUME SeenKnown, Rows(Durable), Rows(Durable)', SchemaHolds(Durable)', Grown(Durable, Durable')
    PROVE  /\ \A x \in seen \cup Ids(Durable') : \/ x[1] = "product" /\ x[2] \in 1 .. (Durable').productSeq
                                                 \/ x[1] = "recipe" /\ x[2] \in 1 .. (Durable').recipeSeq
           /\ Ids(Durable') \cap seen \subseteq Ids(Durable)
  <1> DEFINE d == Durable
             e == Durable'
  <1>1. /\ d.productSeq \in Nat /\ e.productSeq \in Nat /\ d.productSeq <= e.productSeq
        /\ d.recipeSeq \in Nat /\ e.recipeSeq \in Nat /\ d.recipeSeq <= e.recipeSeq
        /\ \A q \in e.products : /\ q.id \in 1 .. e.productSeq
                                 /\ q.id > d.productSeq \/ \E p \in d.products : p.id = q.id
        /\ \A q \in e.recipes : /\ q.id \in 1 .. e.recipeSeq
                                /\ q.id > d.recipeSeq \/ \E p \in d.recipes : p.id = q.id
    BY DEF Rows, Grown, SchemaHolds
  <1>2. \A x \in seen : \/ x[1] = "product" /\ x[2] \in 1 .. d.productSeq
                        \/ x[1] = "recipe" /\ x[2] \in 1 .. d.recipeSeq
    BY DEF SeenKnown
  <1>3. Ids(e) = {<<"product", p.id>> : p \in e.products} \cup {<<"recipe", r.id>> : r \in e.recipes}
    BY DEF Ids
  <1>4. Ids(d) = {<<"product", p.id>> : p \in d.products} \cup {<<"recipe", r.id>> : r \in d.recipes}
    BY DEF Ids
  <1> HIDE DEF d, e
  <1>5. \A x \in Ids(e) : \/ x[1] = "product" /\ x[2] \in 1 .. e.productSeq
                          \/ x[1] = "recipe" /\ x[2] \in 1 .. e.recipeSeq
    BY <1>1, <1>3
  <1>6. \A x \in seen : \/ x[1] = "product" /\ x[2] \in 1 .. e.productSeq
                        \/ x[1] = "recipe" /\ x[2] \in 1 .. e.recipeSeq
    BY <1>1, <1>2
  <1>7. ASSUME NEW x \in Ids(e), x \in seen PROVE x \in Ids(d)
    <2>1. CASE \E q \in e.products : x = <<"product", q.id>>
      <3>1. PICK q \in e.products : x = <<"product", q.id>>
        BY <2>1
      <3>2. q.id \in 1 .. d.productSeq
        BY <1>2, <1>7, <3>1
      <3>3. \E p \in d.products : p.id = q.id
        BY <1>1, <3>2
      <3>4. QED
        BY <1>4, <3>1, <3>3
    <2>2. CASE \E q \in e.recipes : x = <<"recipe", q.id>>
      <3>1. PICK q \in e.recipes : x = <<"recipe", q.id>>
        BY <2>2
      <3>2. q.id \in 1 .. d.recipeSeq
        BY <1>2, <1>7, <3>1
      <3>3. \E p \in d.recipes : p.id = q.id
        BY <1>1, <3>2
      <3>4. QED
        BY <1>4, <3>1, <3>3
    <2>3. QED
      BY <1>3, <2>1, <2>2
  <1>8. QED
    BY <1>5, <1>6, <1>7 DEF d, e

LEMMA SeenStep ==
    ASSUME SeenKnown, Rows(Durable), Rows(Durable)', SchemaHolds(Durable)', Grown(Durable, Durable'),
           seen' \in {seen, seen \cup Ids(Durable')}
    PROVE  SeenKnown'
  BY NothingNew DEF SeenKnown

\* An answer: the transaction, if there is one, is rolled back.
LEMMA AnswerStep ==
    ASSUME IndInv, db' = Durable, saved' = Null, todo' = <<>>, call' = NoCall,
           failed' \subseteq Reading \cup Writing, UNCHANGED <<rowid, applied, seen>>,
           reply' # Null => reply'.status \in {"ok", "Validation", "NotFound", "Storage"}
    PROVE  IndInv' /\ Durable' = Durable
  <1>1. Durable' = Durable
    BY DEF Durable
  <1>2. Rows(db)' /\ SchemaHolds(db)' /\ Rows(Durable)' /\ SchemaHolds(Durable)'
    BY <1>1 DEF IndInv
  <1>3. Grown(Durable, db)'
    BY <1>1, <1>2, FollowsSelf DEF Follows
  <1>4. SeenKnown'
    BY <1>1 DEF IndInv, SeenKnown
  <1>5. TodoKnown'
    BY DEF TodoKnown, Typed, IsList
  <1>6. QED
    BY <1>1, <1>2, <1>3, <1>4, <1>5 DEF IndInv

\* What is left of a call, and what its first statement is.
LEMMA FirstStatement ==
    ASSUME IndInv, todo # <<>>
    PROVE  /\ Head1 = todo[1].stmt /\ Arg1 = todo[1].arg /\ 1 \in DOMAIN todo
           /\ Head1 \in AboutProducts => Arg1 \in Products
           /\ Head1 \in ByName => Arg1 \in Int
           /\ Head1 = "insert_recipe_ingredient" => HasRecipe(db, rowid)
           /\ Head1 = "select_recipe_id_by_name" => NameTaken(db, Arg1)
           /\ Head1 \in {"create_product", "delete_recipe_by_id"} =>
                  \A k \in DOMAIN todo : todo[k].stmt \notin Filling
           /\ Head1 = "BEGIN" => saved = Null
  <1>1. TodoKnown /\ Typed(todo) /\ IsList(todo)
    BY DEF IndInv, TodoKnown, Typed
  <1>2. Head(todo) = todo[1] /\ 1 \in DOMAIN todo
    BY <1>1, Rest
  <1>3. Head1 = todo[1].stmt /\ Arg1 = todo[1].arg
    BY <1>2 DEF Head1, Arg1
  <1>4. ~Located(todo, 1)
    BY DEF Located
  <1>5. QED
    BY <1>1, <1>2, <1>3, <1>4 DEF TodoKnown, Typed

\* Every INSERT, UPDATE and DELETE that succeeds respects the schema.
LEMMA WriteFollows ==
    ASSUME IndInv, Write
    PROVE  /\ Follows(db, db') /\ rowid' \in Int
           /\ Head1 = "insert_recipe_if_absent" => NameTaken(db', Arg1)
           /\ Head1 # "delete_recipe_by_id" => Keeps(db, db')
           /\ Head1 \in Locating => HasRecipe(db', rowid')
           /\ Head1 \notin {"create_product", "create_recipe"} => rowid' = rowid
  <1> DEFINE h == Head1
             a == Arg1
  <1>1. /\ Rows(db) /\ SchemaHolds(db) /\ rowid \in Int /\ db.productSeq \in Nat /\ db.recipeSeq \in Nat
    BY DEF IndInv, Rows
  <1>2. /\ todo # <<>> /\ h \in Writing /\ ~Violates(h, a) /\ ~ChangesNothing(h) /\ db' \in Written(h, a)
        /\ rowid' = CASE h = "create_product" -> NextId(db.products, db.productSeq)
                      [] h = "create_recipe" -> NextId(db.recipes, db.recipeSeq)
                      [] OTHER -> rowid
    BY DEF Write
  <1>3. /\ h \in AboutProducts => a \in Products
        /\ h \in ByName => a \in Int
        /\ h = "insert_recipe_ingredient" => HasRecipe(db, rowid)
    BY <1>2, FirstStatement
  <1> HIDE DEF h, a
  <1>4. h \notin {"create_product", "create_recipe"} => rowid' = rowid
    BY <1>2
  <1>5. rowid' \in Int
    BY <1>1, <1>2 DEF NextId
  <1>6. CASE h = "insert_product"
    <2>1. a \in Products /\ a.amount >= 0 /\ db' \in InsertProduct(db, a)
      BY <1>2, <1>3, <1>6 DEF Violates, Written, AboutProducts, Products
    <2>2. QED
      BY <1>1, <1>4, <1>5, <1>6, <2>1, InsertProductFollows DEF Locating, h, a
  <1>7. CASE h = "create_product"
    <2>1. a \in Products /\ a.amount >= 0 /\ ~KeyTaken(db, a.key) /\ db' = AddProduct(db, a)
      BY <1>2, <1>3, <1>7 DEF Violates, CreateProductFails, Written, AboutProducts, Products
    <2>2. QED
      BY <1>1, <1>4, <1>5, <1>7, <2>1, AddProductFollows DEF Locating, h, a
  <1>8. CASE h = "update_product_by_id"
    <2>1. /\ a \in Products /\ HasProduct(db, rowid) /\ ~UpdateProductFails(db, rowid, a)
          /\ db' = UpdateProductRow(db, rowid, a)
      BY <1>2, <1>3, <1>8 DEF Violates, ChangesNothing, Written, AboutProducts
    <2>2. QED
      BY <1>1, <1>4, <1>5, <1>8, <2>1, UpdateProductFollows DEF Locating, h, a
  <1>9. CASE h = "delete_product_by_id"
    <2>1. db' = DeleteProductRow(db, rowid)
      BY <1>2, <1>9 DEF Written
    <2>2. QED
      BY <1>1, <1>4, <1>5, <1>9, <2>1, DeleteProductFollows DEF Locating, h, a
  <1>10. CASE h = "insert_recipe_if_absent"
    <2>1. a \in Int /\ db' \in InsertRecipeIfAbsent(db, a)
      BY <1>2, <1>3, <1>10 DEF Written, ByName
    <2>2. QED
      BY <1>1, <1>4, <1>5, <1>10, <2>1, InsertRecipeFollows DEF Locating, h, a
  <1>11. CASE h = "create_recipe"
    <2>1. a \in Int /\ ~NameTaken(db, a) /\ db' = AddRecipe(db, a) /\ rowid' = db.recipeSeq + 1
      BY <1>2, <1>3, <1>11 DEF Violates, Written, ByName, NextId
    <2>2. /\ Follows(db, db') /\ Keeps(db, db') /\ HasRecipe(db', rowid')
      BY <1>1, <2>1, AddRecipeFollows
    <2>3. QED
      BY <1>5, <1>11, <2>2 DEF h, a
  <1>12. CASE h = "update_recipe_name_by_id"
    <2>1. /\ a \in Int /\ HasRecipe(db, rowid) /\ ~RenameFails(db, rowid, a)
          /\ db' = RenameRecipe(db, rowid, a)
      BY <1>2, <1>3, <1>12 DEF Violates, ChangesNothing, Written, ByName
    <2>2. Follows(db, db') /\ Keeps(db, db')
      BY <1>1, <2>1, RenameRecipeFollows
    <2>3. HasRecipe(db', rowid)
      BY <2>1, <2>2 DEF Keeps, HasRecipe
    <2>4. QED
      BY <1>4, <1>5, <1>12, <2>2, <2>3 DEF h, a
  <1>13. CASE h = "delete_recipe_ingredients_by_recipe_id"
    <2>1. db' = DeleteIngredients(db, rowid)
      BY <1>2, <1>13 DEF Written
    <2>2. QED
      BY <1>1, <1>4, <1>5, <1>13, <2>1, DeleteIngredientsFollows DEF Locating, h, a
  <1>14. CASE h = "insert_recipe_ingredient"
    <2>1. a \in Products /\ a.amount >= 0 /\ HasRecipe(db, rowid) /\ db' = PutIngredient(db, rowid, a)
      BY <1>2, <1>3, <1>14 DEF Violates, Written, AboutProducts, Products
    <2>2. QED
      BY <1>1, <1>4, <1>5, <1>14, <2>1, PutIngredientFollows DEF Locating, h, a
  <1>15. CASE h = "delete_recipe_by_id"
    <2>1. db' = DeleteRecipeRow(db, rowid)
      BY <1>2, <1>15 DEF Written
    <2>2. QED
      BY <1>1, <1>4, <1>5, <1>15, <2>1, DeleteRecipeFollows DEF Locating, h, a
  <1>16. QED
    BY <1>2, <1>6, <1>7, <1>8, <1>9, <1>10, <1>11, <1>12, <1>13, <1>14, <1>15 DEF Writing

\* Every step, and what it does to the durable ids.
LEMMA Step ==
    ASSUME IndInv, Next
    PROVE  IndInv' /\ Grown(Durable, Durable')
  <1> DEFINE Sound == /\ Rows(db) /\ Rows(Durable) /\ SchemaHolds(db) /\ SchemaHolds(Durable)
                      /\ Grown(Durable, db)
  <1>1. /\ Sound /\ SeenKnown /\ TodoKnown /\ failed \subseteq Reading \cup Writing
        /\ call \in Requests \cup {NoCall} /\ rowid \in Int /\ applied \in BOOLEAN
        /\ reply # Null => reply.status \in {"ok", "Validation", "NotFound", "Storage"}
    BY DEF IndInv
  <1>2. Grown(Durable, Durable)
    BY <1>1, FollowsSelf DEF Follows
  \* answers
  <1>3. ASSUME NEW status \in {"ok", "Validation", "NotFound", "Storage"}, NEW result, Answer(status, result),
               failed' \subseteq Reading \cup Writing
        PROVE  IndInv' /\ Grown(Durable, Durable')
    <2>1. IndInv' /\ Durable' = Durable
      BY <1>3, AnswerStep DEF Answer
    <2>2. QED
      BY <1>2, <2>1
  <1>4. CASE ReturnFalse
    BY <1>1, <1>3, <1>4 DEF ReturnFalse
  <1>5. CASE ConstraintFails
    BY <1>1, <1>3, <1>5 DEF ConstraintFails
  <1>6. CASE ResetFails
    BY <1>1, <1>3, <1>6 DEF ResetFails
  <1>7. CASE StorageFails
    BY <1>1, <1>3, <1>7 DEF StorageFails
  <1>8. CASE Return
    BY <1>1, <1>3, <1>8 DEF Return
  <1>9. CASE Crash
    <2>1. IndInv' /\ Durable' = Durable
      BY <1>9, AnswerStep DEF Crash
    <2>2. QED
      BY <1>2, <2>1
  <1>10. CASE \E c \in Requests : Call(c)
    <2>1. PICK c \in Requests : Call(c)
      BY <1>10
    <2>2. /\ call = NoCall /\ call' = c /\ c # NoCall /\ c.id \in Int
          /\ todo' = IF Accepted(c) THEN Statements(c) ELSE <<>>
          /\ UNCHANGED <<db, saved, failed, seen>> /\ rowid' = c.id /\ reply' = Null /\ applied' = FALSE
      BY <2>1, StoreAssumption DEF Call
    <2>3. saved = Null
      BY <1>1, <2>2 DEF TodoKnown
    <2>4. Durable' = Durable
      BY <2>2 DEF Durable
    <2>5. Planned(Statements(c))
      BY <2>1, StatementsPlanned
    <2>6. TodoKnown'
      <3>1. CASE Accepted(c)
        <4>1. todo' = Statements(c) /\ saved' = Null /\ call' # NoCall
          BY <2>2, <2>3, <3>1
        <4>2. \A i \in DOMAIN Statements(c) : Statements(c)[i].stmt = "select_recipe_id_by_name" => i # 1
          <5>1. ~LookedUp(Statements(c), 1)
            BY DEF LookedUp
          <5>2. QED
            BY <2>5, <5>1 DEF Planned
        <4>3. Typed(todo') /\ Planned(todo')
          BY <2>5, <4>1 DEF Planned
        <4>4. ASSUME NEW i \in DOMAIN todo'
              PROVE  /\ todo'[i].stmt = "BEGIN" => /\ i = 1 /\ saved' = Null
                                                   /\ \E k \in DOMAIN todo' : todo'[k].stmt = "COMMIT"
                     /\ todo'[i].stmt \in {"create_product", "delete_recipe_by_id"} =>
                            \A k \in DOMAIN todo' : todo'[k].stmt \notin Filling
                     /\ todo'[i].stmt = "select_recipe_id_by_name" => i # 1 /\ LookedUp(todo', i)
                     /\ todo'[i].stmt = "insert_recipe_ingredient" => Located(todo', i)
          <5>1. Planned(todo')
            BY <4>3
          <5>2. todo'[i].stmt = "select_recipe_id_by_name" => i # 1
            BY <4>1, <4>2
          <5>3. QED
            BY <4>1, <5>1, <5>2 DEF Planned
        <4>5. QED
          BY <4>1, <4>3, <4>4 DEF TodoKnown
      <3>2. CASE ~Accepted(c)
        BY <2>2, <2>3, <3>2 DEF TodoKnown, Typed, IsList
      <3>3. QED
        BY <3>1, <3>2
    <2>7. Sound' /\ SeenKnown'
      BY <1>1, <2>2, <2>4 DEF SeenKnown
    <2>8. QED
      BY <1>1, <1>2, <2>1, <2>2, <2>4, <2>6, <2>7 DEF IndInv
  \* statements
  <1>11. CASE Begin
    <2> USE <1>11 DEF Begin
    <2>1. saved = Null /\ Head1 = todo[1].stmt
      BY FirstStatement
    <2>2. Durable = db /\ Durable' = db
      BY <2>1 DEF Durable
    <2>3. TodoKnown'
      BY <1>1, <2>1, TailKnown DEF Locating
    <2>4. Sound' /\ SeenKnown'
      BY <1>1, <2>2 DEF SeenKnown
    <2>5. QED
      BY <1>1, <1>2, <2>2, <2>3, <2>4 DEF IndInv
  <1>12. CASE Commit
    <2> USE <1>12 DEF Commit
    <2>1. Head1 = todo[1].stmt
      BY FirstStatement
    <2>2. Durable' = db /\ UNCHANGED db
      BY DEF Durable
    <2>3. TodoKnown'
      BY <1>1, <2>1, TailKnown DEF Locating
    <2>4. Grown(Durable, Durable')
      BY <1>1, <2>2
    <2>5. Sound'
      BY <1>1, <2>2, FollowsSelf DEF Follows
    <2>6. SeenKnown'
      BY <1>1, <2>4, <2>5, SeenStep
    <2>7. QED
      BY <1>1, <2>3, <2>4, <2>5, <2>6 DEF IndInv
  <1>13. CASE Read
    <2> USE <1>13 DEF Read
    <2>1. /\ Head1 = todo[1].stmt /\ Head1 \in Reading
          /\ Head1 = "select_recipe_id_by_name" => NameTaken(db, Arg1)
      BY FirstStatement
    <2>2. Durable' = Durable /\ UNCHANGED <<db, saved, failed, call, reply, applied, seen>>
      BY DEF Durable
    <2>3. Head1 = "select_recipe_id_by_name" => rowid' \in Int /\ HasRecipe(db, rowid')
      BY <1>1, <2>1 DEF RecipeIdByName, NameTaken, HasRecipe, Rows
    <2>4. rowid' \in Int /\ (Head1 # "select_recipe_id_by_name" => rowid' = rowid)
      BY <1>1, <2>3
    <2>5. /\ Head1 \notin {"COMMIT", "BEGIN", "insert_recipe_if_absent", "create_recipe", "update_recipe_name_by_id"}
      BY <2>1 DEF Reading
    <2>6. saved # Null \/ saved' = Null
      BY <2>2
    <2>7. (HasRecipe(db, rowid) \/ Head1 \in Locating) => HasRecipe(db, rowid')
      BY <2>3, <2>4, <2>5 DEF Locating
    <2>8. TodoKnown'
      BY <1>1, <2>1, <2>2, <2>5, <2>6, <2>7, TailKnown
    <2>9. Sound' /\ SeenKnown'
      BY <1>1, <2>2 DEF SeenKnown
    <2>10. QED
      BY <1>1, <1>2, <2>2, <2>4, <2>8, <2>9 DEF IndInv
  <1>14. CASE Write
    <2>1. /\ Head1 = todo[1].stmt /\ Arg1 = todo[1].arg /\ Head1 \in Writing /\ todo # <<>> /\ todo' = Tail(todo)
          /\ Head1 \in {"create_product", "delete_recipe_by_id"} =>
                 \A k \in DOMAIN todo : todo[k].stmt \notin Filling
          /\ UNCHANGED <<saved, failed, call, reply>>
      BY <1>14, FirstStatement DEF Write
    <2>2. /\ Follows(db, db') /\ rowid' \in Int
          /\ Head1 = "insert_recipe_if_absent" => NameTaken(db', Arg1)
          /\ Head1 # "delete_recipe_by_id" => Keeps(db, db')
          /\ Head1 \in Locating => HasRecipe(db', rowid')
          /\ Head1 \notin {"create_product", "create_recipe"} => rowid' = rowid
      BY <1>14, WriteFollows
    <2>3. Head1 \notin {"COMMIT", "BEGIN"}
      BY <2>1 DEF Writing
    <2>4. ((HasRecipe(db, rowid) \/ Head1 \in Locating)
              /\ \E i \in DOMAIN todo : todo[i].stmt = "insert_recipe_ingredient") => HasRecipe(db', rowid')
      BY <2>1, <2>2 DEF Keeps, HasRecipe, Locating, Filling
    <2>5. TodoKnown'
      BY <1>1, <2>1, <2>2, <2>3, <2>4, TailKnown
    <2>6. Sound' /\ Grown(Durable, Durable')
      <3>1. CASE saved = Null
        <4>1. Durable = db /\ Durable' = db'
          BY <2>1, <3>1 DEF Durable
        <4>2. Rows(db)' /\ SchemaHolds(db)' /\ Grown(db, db')
          BY <2>2 DEF Follows
        <4>3. Grown(db', db')
          BY <4>2, FollowsSelf DEF Follows
        <4>4. QED
          BY <4>1, <4>2, <4>3
      <3>2. CASE saved # Null
        <4>1. Durable' = Durable
          BY <2>1, <3>2 DEF Durable
        <4>2. Rows(db)' /\ SchemaHolds(db)' /\ Grown(db, db')
          BY <2>2 DEF Follows
        <4>3. Grown(Durable, db')
          BY <1>1, <4>2, GrownFurther
        <4>4. QED
          BY <1>1, <1>2, <4>1, <4>2, <4>3
      <3>3. QED
        BY <3>1, <3>2
    <2>7. SeenKnown'
      <3>1. seen' = seen \cup Ids(Durable')
        BY <1>14 DEF Write
      <3>2. QED
        BY <1>1, <2>6, <3>1, SeenStep
    <2>8. applied' \in BOOLEAN
      BY <1>1, <1>14 DEF Write
    <2>9. QED
      BY <1>1, <2>1, <2>2, <2>5, <2>6, <2>7, <2>8 DEF IndInv
  <1>15. CASE NextRecipe
    <2> USE <1>15 DEF NextRecipe
    <2>1. Head1 = todo[1].stmt /\ Arg1 = todo[1].arg
      BY FirstStatement
    <2>2. TodoKnown'
      BY <1>1, <2>1, RoundKnown
    <2>3. Durable' = Durable
      BY DEF Durable
    <2>4. Sound' /\ SeenKnown'
      BY <1>1, <2>3 DEF SeenKnown
    <2>5. QED
      BY <1>1, <1>2, <2>2, <2>3, <2>4 DEF IndInv
  <1>16. QED
    BY <1>4, <1>5, <1>6, <1>7, <1>8, <1>9, <1>10, <1>11, <1>12, <1>13, <1>14, <1>15 DEF Next

LEMMA StepIndInv == IndInv /\ [Next]_vars => IndInv' /\ [Ids(Durable') \cap seen \subseteq Ids(Durable)]_vars
  <1> SUFFICES ASSUME IndInv, [Next]_vars
               PROVE  IndInv' /\ [Ids(Durable') \cap seen \subseteq Ids(Durable)]_vars
    OBVIOUS
  <1>1. CASE Next
    <2>1. IndInv' /\ Grown(Durable, Durable')
      BY <1>1, Step
    <2>2. SeenKnown /\ Rows(Durable) /\ Rows(Durable)' /\ SchemaHolds(Durable)'
      BY <2>1 DEF IndInv
    <2>3. Ids(Durable') \cap seen \subseteq Ids(Durable)
      BY <2>1, <2>2, NothingNew
    <2>4. QED
      BY <2>1, <2>3
  <1>2. CASE UNCHANGED vars
    BY <1>2 DEF vars, IndInv, TodoKnown, SeenKnown, Durable
  <1>3. QED
    BY <1>1, <1>2

\* Whatever is called, fails or crashes: the tables are sound, inside a
\* transaction and on disk, the statements still to come fit what the call has
\* found, and every id ever given lies below the counters.
THEOREM IndInvAlways == Spec => []IndInv
  BY InitIndInv, StepIndInv, PTL DEF Spec

\* The connection, the call and its answer stay within their types.
THEOREM TypeCorrect == Spec => []TypeOK
  <1>1. IndInv => TypeOK
    BY DEF IndInv, TypeOK, TodoKnown, Typed
  <1>2. QED
    BY <1>1, IndInvAlways, PTL

\* The schema's constraints hold after every statement, whichever fails.
THEOREM TablesConsistent == Spec => []ConsistentTables
  <1>1. IndInv => ConsistentTables
    BY DEF IndInv, ConsistentTables
  <1>2. QED
    BY <1>1, IndInvAlways, PTL

\* No call, however it ends, leaves its transaction open for the next one.
THEOREM TransactionsAlwaysEnd == Spec => []TransactionsEnd
  <1>1. IndInv => TransactionsEnd
    BY DEF IndInv, TransactionsEnd, TodoKnown
  <1>2. QED
    BY <1>1, IndInvAlways, PTL

\* The id of a deleted row is never given to another, across crashes and
\* rollbacks too: only ids that became durable count as given.
THEOREM IdsStayTaken == Spec => IdsNotRecycled
  BY InitIndInv, StepIndInv, PTL DEF Spec, IdsNotRecycled
=============================================================================
