----------------------------- MODULE RouterJobs -----------------------------
(***************************************************************************)
(* The calls of RecipeStore as the jobs of Router.  Router says what a job *)
(* does to the stored products and recipes (Effect), when it is refused    *)
(* (Refusal) and what it hands back (ReturnedValue); here those are read   *)
(* over the tables: a router with one session whose job is the call on the *)
(* worker.                                                                 *)
(***************************************************************************)
EXTENDS RecipeStore

\* The router parses an id with from_chars and takes none below 1, and it
\* never calls the Insert methods.
ItemOps == {"GetProduct", "UpdateProduct", "DeleteProduct", "GetRecipe", "UpdateRecipe", "DeleteRecipe"}

CollectionOps == {"CreateProduct", "GetProducts", "CreateRecipe", "GetRecipes", "GetCookableRecipes"}

FromRouter(c) == c.op \in CollectionOps \/ (c.op \in ItemOps /\ c.id > 0)

PathOf(op) ==
    CASE op \in {"CreateProduct", "GetProduct", "GetProducts", "UpdateProduct", "DeleteProduct"} -> "products"
      [] op \in {"CreateRecipe", "GetRecipe", "GetRecipes", "UpdateRecipe", "DeleteRecipe"} -> "recipes"
      [] op = "GetCookableRecipes" -> "cookable"

VerbOf(op) ==
    CASE op \in {"CreateProduct", "CreateRecipe"} -> "post"
      [] op \in {"UpdateProduct", "UpdateRecipe"} -> "put"
      [] op \in {"DeleteProduct", "DeleteRecipe"} -> "delete"
      [] op \in Book!Reads                        -> "get"

\* Contents, of a row and of a request.  To the router all that is not valid
\* is one.
Refused == [refused |-> TRUE]

ContentsOf(kind, x) ==
    IF kind = "products" THEN [key |-> x.key, amount |-> x.amount] ELSE [name |-> x.name, items |-> x.items]

ContentsGiven(c) ==
    CASE ~Book!Valid(c) -> Refused
      [] Book!Valid(c) /\ c.op \in {"CreateProduct", "UpdateProduct"} -> ContentsOf("products", c.arg)
      [] Book!Valid(c) /\ c.op \in {"CreateRecipe", "UpdateRecipe"} ->
             ContentsOf("recipes", [name |-> c.arg.name, items |-> Book!Ingredients(c.arg)])
      [] OTHER -> Null

RequestOf(c) ==
    [verb |-> VerbOf(c.op),
     target |-> [path |-> PathOf(c.op), id |-> IF c.op \in ItemOps THEN c.id ELSE 0],
     json |-> TRUE, body |-> "ok", value |-> ContentsGiven(c)]

\* The durable tables by id, and the ids AUTOINCREMENT gives out next.
ById(kind, rows) == [id \in {x.id : x \in rows} |-> ContentsOf(kind, CHOOSE x \in rows : x.id = id)]

Shelf ==
    [k \in {"products", "recipes"} |->
        ById(k, IF k = "products" THEN Durable.products ELSE Documents(Durable))]

NextIds == [k \in {"products", "recipes"} |-> IF k = "products" THEN Durable.productSeq + 1 ELSE Durable.recipeSeq + 1]

\* What the target of the call stands for.
Addressed ==
    IF call # NoCall /\ call.op \in ItemOps /\ call.id \in DOMAIN Shelf[PathOf(call.op)]
    THEN Shelf[PathOf(call.op)][call.id] ELSE Null

Session == 1
Job == <<Session, 1>>

Api == INSTANCE Router
    WITH Sessions <- {Session}, Requests <- [s \in {Session} |-> {}], QueueCapacity <- 1,
         Values <- [key : Int, amount : Int] \cup [name : Int, items : SUBSET [key : Int, amount : Int]] \cup {Refused},
         Invalid <- {Refused}, First <- [key |-> 1, amount |-> 0], None <- Null,
         database <- TRUE, request <- [s \in {Session} |-> IF call = NoCall THEN Null ELSE RequestOf(call)],
         step <- [s \in {Session} |-> 1], reply <- [s \in {Session} |-> Null], answer <- [j \in {Job} |-> Null],
         book <- Shelf, next <- NextIds,
         wrote <- [s \in {Session} |-> IF applied THEN 1 ELSE 0], window <- [s \in {Session} |-> {Addressed}],
         pending <- <<>>, running <- Job, outcome <- [j \in {Job} |-> Null], submitted <- {Job}, closed <- FALSE

\* A call changes the durable tables once if at all, and then as the job of
\* the router it comes from does, with the id that was to come next.
TakesEffectAsJob ==
    IF applied' /\ ~applied THEN Api!Refusal(Job) = Null /\ Api!Effect(Job)
                            ELSE UNCHANGED <<applied, Shelf, NextIds>>

\* Its answer is the job's: a write that succeeds has taken effect, one that
\* is refused has not and meets the reason, and what it hands back is what
\* the router hands on.
AnswersAsJob ==
    \/ /\ reply'.status = "ok"
       /\ Api!UseCase(Job) \in {"Create", "Update", "Delete"} => applied
       /\ Api!UseCase(Job) \notin {"List", "Cookable"} =>
              Api!ReturnedValue(Job) = IF reply'.value = Null THEN Null ELSE ContentsOf(Api!Kind(Job), reply'.value)
    \/ /\ reply'.status \in {"Validation", "NotFound"}
       /\ ~applied /\ Api!Refusal(Job) = reply'.status
    \/ reply'.status = "Storage"

\* What the router takes the database worker to do is what DBManager does.
ServesRouter ==
    [][ (call # NoCall /\ FromRouter(call)) =>
            /\ TakesEffectAsJob
            /\ (call' = NoCall /\ reply' # Null) => AnswersAsJob ]_vars
=============================================================================
