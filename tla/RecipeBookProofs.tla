-------------------------- MODULE RecipeBookProofs --------------------------
(***************************************************************************)
(* DBManager's statements, transactions and joined rows (RecipeStore)      *)
(* implement the recipe book of RecipeBook.  The book changes where the    *)
(* durable tables do: at a COMMIT, or at a statement outside a             *)
(* transaction.  The inductive invariant, Underway, says of the call in    *)
(* progress how much of its list is executed and what the open             *)
(* transaction holds by then.  And what Router takes a job of the worker   *)
(* to do is what a call does to those tables (RouterJobs).  Last, which    *)
(* calls the error kept by a prepared statement can refuse.                *)
(***************************************************************************)
EXTENDS RecipeStoreProofs, Induction, RouterJobs
-----------------------------------------------------------------------------
(* The loop of FetchRecipes.                                               *)

\* The recipes after each row.
Fetches(f, rows) ==
    f = [n \in 0 .. Len(rows) |-> IF n = 0 THEN <<>> ELSE AddRow(f[n - 1], rows[n])]

\* The loop can make its first m turns, whatever m is.
LEMMA FetchingDefined ==
    ASSUME NEW rows, Len(rows) \in Nat
    PROVE  \E f : Fetches(f, rows) /\ FetchRecipes(rows) = f[Len(rows)]
  <1> DEFINE N == Len(rows)
             Turns(m, f) == f = [n \in 0 .. m |-> IF n = 0 THEN <<>> ELSE AddRow(f[n - 1], rows[n])]
             T == {m \in Nat : ~ \E f : Turns(m, f)}
  <1>1. T = {}
    <2>1. SUFFICES ASSUME T # {} PROVE FALSE
      OBVIOUS
    <2>2. PICK m \in T : \A y \in T : m <= y
      <3> HIDE DEF Turns
      <3>1. T \subseteq Nat
        OBVIOUS
      <3> HIDE DEF T
      <3>2. QED
        BY <2>1, <3>1, Least
    <2>3. m # 0
      <3>1. Turns(0, [n \in 0 .. 0 |-> <<>>])
        OBVIOUS
      <3>2. QED
        BY <3>1
    <2>4. m - 1 \in Nat /\ m - 1 \notin T
      BY <2>2, <2>3
    <2>5. PICK f : Turns(m - 1, f)
      BY <2>4
    <2> DEFINE g == [n \in 0 .. m |-> IF n = m THEN AddRow(f[m - 1], rows[m]) ELSE f[n]]
    <2>6. \A n \in 0 .. m - 1 : g[n] = f[n]
      BY <2>4
    <2>7. \A n \in 0 .. m : g[n] = IF n = 0 THEN <<>> ELSE AddRow(g[n - 1], rows[n])
      <3>1. TAKE n \in 0 .. m
      <3>2. CASE n = m
        BY <2>3, <2>4, <2>6, <3>2
      <3>3. CASE n # m
        <4>1. n \in 0 .. m - 1 /\ (n # 0 => n - 1 \in 0 .. m - 1)
          BY <2>4, <3>3
        <4>2. f[n] = IF n = 0 THEN <<>> ELSE AddRow(f[n - 1], rows[n])
          <5> HIDE DEF g
          <5>1. QED
            BY <2>5, <4>1
        <4> HIDE DEF g
        <4>3. QED
          BY <2>6, <4>1, <4>2
      <3>4. QED
        BY <3>2, <3>3
    <2>8. Turns(m, g)
      <3> DEFINE h == [n \in 0 .. m |-> IF n = 0 THEN <<>> ELSE AddRow(g[n - 1], rows[n])]
      <3>1. \A n \in 0 .. m : g[n] = h[n]
        BY <2>7
      <3>2. g = h
        BY <3>1
      <3>3. QED
        BY <3>2
    <2>9. QED
      BY <2>2, <2>8
  <1>2. \E f : Turns(N, f)
    BY <1>1
  <1> DEFINE r == CHOOSE f : Turns(N, f)
  <1>3. Turns(N, r)
    <2> HIDE DEF Turns
    <2>1. QED
      BY <1>2
  <1>4. FetchRecipes(rows) = r[N]
    BY DEF FetchRecipes
  <1>5. Fetches(r, rows)
    BY <1>3 DEF Fetches
  <1>6. QED
    BY <1>4, <1>5

\* What the first n rows amount to: one recipe for each id among them, in the
\* order of the names, with the items of its rows.
ItemsOfRows(rows, n, id) == {rows[i].item : i \in {i \in 1 .. n : rows[i].id = id}} \ {Null}

Document(x) == x = [id |-> x.id, name |-> x.name, items |-> x.items]

Collected(list, rows, n) ==
    /\ IsList(list)
    /\ \A k \in 1 .. Len(list) : Document(list[k])
    /\ \A k \in 1 .. Len(list) : \E i \in 1 .. n : list[k].id = rows[i].id /\ list[k].name = rows[i].name
    /\ \A k \in 1 .. Len(list) : list[k].items = ItemsOfRows(rows, n, list[k].id)
    /\ \A i \in 1 .. n : \E k \in 1 .. Len(list) : list[k].id = rows[i].id
    /\ \A k, l \in 1 .. Len(list) : k < l => list[k].name < list[l].name
    /\ n > 0 => Len(list) > 0 /\ list[Len(list)].id = rows[n].id

\* Rows come by name, and a name stands for one id.
Grouped(rows) ==
    /\ Len(rows) \in Nat
    /\ \A i \in 1 .. Len(rows) : rows[i].name \in Int
    /\ \A i, j \in 1 .. Len(rows) : i < j => rows[i].name <= rows[j].name
    /\ \A i, j \in 1 .. Len(rows) : rows[i].id = rows[j].id <=> rows[i].name = rows[j].name

\* A function on 1 .. m is a list of length m.
LEMMA FunctionIsList ==
    ASSUME NEW m \in Nat, NEW f, f = [k \in 1 .. m |-> f[k]]
    PROVE  IsList(f) /\ Len(f) = m
  <1> DEFINE S == {f[k] : k \in 1 .. m}
  <1>1. f \in [1 .. m -> S]
    <2>1. \A k \in 1 .. m : f[k] \in S
      OBVIOUS
    <2> HIDE DEF S
    <2>2. QED
      BY <2>1
  <1> HIDE DEF S
  <1>2. f \in Seq(S) /\ DOMAIN f = 1 .. m
    BY <1>1
  <1>3. Len(f) = m
    BY <1>2, LenProperties
  <1>4. QED
    BY <1>2, <1>3, SeqIsList

\* A row of the recipe that came last.
LEMMA SameRecipe ==
    ASSUME NEW rows, Grouped(rows), NEW n \in Nat, n < Len(rows), NEW list, Collected(list, rows, n),
           list # <<>>, list[Len(list)].id = rows[n + 1].id
    PROVE  Collected(AddRow(list, rows[n + 1]), rows, n + 1)
  <1> DEFINE row == rows[n + 1]
             m == Len(list)
             items == IF row.item = Null THEN {} ELSE {row.item}
             new == [list EXCEPT ![m].items = @ \cup items]
  <1>1. m \in Nat /\ IsList(list) /\ DOMAIN list = 1 .. m /\ m > 0
    <2>1. m \in Nat /\ IsList(list) /\ DOMAIN list = 1 .. m
      BY DEF Collected, IsList
    <2>2. m # 0
      <3>1. m = 0 => list = [k \in 1 .. 0 |-> list[k]]
        BY DEF Collected, IsList
      <3>2. QED
        BY <3>1
    <2>3. QED
      BY <2>1, <2>2
  <1>2. m \in 1 .. m /\ list[m] = [id |-> list[m].id, name |-> list[m].name, items |-> list[m].items]
    <2>1. m \in 1 .. m
      BY <1>1
    <2>2. Document(list[m])
      BY <2>1 DEF Collected
    <2>3. QED
      BY <2>1, <2>2 DEF Document
  <1>3. AddRow(list, row) = new
    BY DEF AddRow
  <1>4. /\ IsList(new) /\ Len(new) = m
        /\ \A k \in 1 .. m : k # m => new[k] = list[k]
        /\ new[m] = [id |-> list[m].id, name |-> list[m].name, items |-> list[m].items \cup items]
    <2> DEFINE all == list[m].items \cup items
    <2>1. DOMAIN new = 1 .. m
      BY <1>1
    <2>2. \A k \in 1 .. m : k # m => new[k] = list[k]
      BY <1>1
    <2>3. new[m] = [list[m] EXCEPT !.items = all]
      BY <1>1, <1>2
    <2>4. new = [k \in 1 .. m |-> new[k]]
      BY <2>1
    <2> HIDE DEF all, m, items, new
    <2>5. [list[m] EXCEPT !.items = all] = [id |-> list[m].id, name |-> list[m].name, items |-> all]
      BY <1>2
    <2>6. IsList(new) /\ Len(new) = m
      BY <1>1, <2>4, FunctionIsList
    <2>7. QED
      BY <2>2, <2>3, <2>5, <2>6 DEF all
  <1> HIDE DEF new
  <1>5. m \in 1 .. m
    BY <1>1
  <1>6. new[m].id = row.id /\ new[m].name = list[m].name /\ new[m].items = list[m].items \cup items
    BY <1>4
  <1>7. \A k \in 1 .. m : new[k].id = list[k].id /\ new[k].name = list[k].name
    BY <1>4, <1>6
  <1>8. \A k \in 1 .. m : k # m => list[k].id # row.id
    <2>1. SUFFICES ASSUME NEW k \in 1 .. m, k # m, list[k].id = row.id PROVE FALSE
      OBVIOUS
    <2>2. list[k].name < list[m].name
      <3>1. k < m
        <4> HIDE DEF m
        <4>1. QED
          BY <1>1, <2>1
      <3>2. QED
        BY <1>2, <3>1 DEF Collected
    <2>3. PICK i \in 1 .. n : list[k].id = rows[i].id /\ list[k].name = rows[i].name
      BY <1>1 DEF Collected
    <2>4. PICK j \in 1 .. n : list[m].id = rows[j].id /\ list[m].name = rows[j].name
      BY <1>1, <1>2 DEF Collected
    <2>5. i \in 1 .. Len(rows) /\ j \in 1 .. Len(rows) /\ rows[i].name \in Int
      BY DEF Grouped
    <2>6. rows[i].id = rows[j].id
      BY <2>1, <2>3, <2>4
    <2>7. QED
      BY <2>2, <2>3, <2>4, <2>5, <2>6 DEF Grouped
  <1>9. \A k \in 1 .. m : new[k].items = ItemsOfRows(rows, n + 1, new[k].id)
    <2>1. TAKE k \in 1 .. m
    <2>2. list[k].items = ItemsOfRows(rows, n, list[k].id)
      BY <1>1 DEF Collected
    <2>3. \A i \in 1 .. n + 1 : i \in 1 .. n \/ i = n + 1
      OBVIOUS
    <2>4. CASE k = m
      <3>1. {i \in 1 .. n + 1 : rows[i].id = new[k].id} = {i \in 1 .. n : rows[i].id = list[k].id} \cup {n + 1}
        BY <1>6, <2>3, <2>4
      <3>2. {rows[i].item : i \in {i \in 1 .. n : rows[i].id = list[k].id} \cup {n + 1}}
              = {rows[i].item : i \in {i \in 1 .. n : rows[i].id = list[k].id}} \cup {row.item}
        OBVIOUS
      <3>3. new[k].items = list[k].items \cup items
        BY <1>6, <2>4
      <3> HIDE DEF row
      <3>4. QED
        BY <2>2, <3>1, <3>2, <3>3 DEF ItemsOfRows
    <2>5. CASE k # m
      <3>1. rows[n + 1].id # list[k].id
        BY <1>8, <2>5
      <3>2. {i \in 1 .. n + 1 : rows[i].id = new[k].id} = {i \in 1 .. n : rows[i].id = list[k].id}
        BY <1>7, <2>3, <3>1
      <3>3. QED
        BY <1>4, <2>2, <2>5, <3>2 DEF ItemsOfRows
    <2>6. QED
      BY <2>4, <2>5
  <1>10. \A k \in 1 .. m :
            Document(new[k]) /\ \E i \in 1 .. n + 1 : new[k].id = rows[i].id /\ new[k].name = rows[i].name
    <2>1. TAKE k \in 1 .. m
    <2>2. \E i \in 1 .. n : list[k].id = rows[i].id /\ list[k].name = rows[i].name
      BY <1>1 DEF Collected
    <2>3. 1 .. n \subseteq 1 .. n + 1
      OBVIOUS
    <2>4. CASE k = m
      BY <1>4, <1>7, <2>2, <2>3, <2>4 DEF Document
    <2>5. CASE k # m
      BY <1>4, <1>7, <2>2, <2>3, <2>5 DEF Collected
    <2>6. QED
      BY <2>4, <2>5
  <1>11. \A i \in 1 .. n + 1 : \E k \in 1 .. m : new[k].id = rows[i].id
    <2>1. TAKE i \in 1 .. n + 1
    <2>2. CASE i = n + 1
      BY <1>1, <1>2, <1>6, <2>2
    <2>3. CASE i # n + 1
      <3>1. PICK k \in 1 .. m : list[k].id = rows[i].id
        <4>1. i \in 1 .. n
          BY <2>3
        <4>2. QED
          BY <4>1 DEF Collected
      <3>2. QED
        BY <1>7, <3>1
    <2>4. QED
      BY <2>2, <2>3
  <1>12. \A k, l \in 1 .. m : k < l => new[k].name < new[l].name
    <2>1. \A k, l \in 1 .. m : k < l => list[k].name < list[l].name
      BY <1>1 DEF Collected
    <2>2. QED
      BY <1>7, <2>1
  <1>13. Collected(new, rows, n + 1)
    <2>1. Len(new) > 0 /\ new[Len(new)].id = rows[n + 1].id
      BY <1>1, <1>4, <1>6
    <2>2. QED
      BY <1>4, <1>9, <1>10, <1>11, <1>12, <2>1 DEF Collected
  <1>14. QED
    BY <1>3, <1>13

\* A row of another recipe.
LEMMA NextOfNames ==
    ASSUME NEW rows, Grouped(rows), NEW n \in Nat, n < Len(rows), NEW list, Collected(list, rows, n),
           list = <<>> \/ list[Len(list)].id # rows[n + 1].id
    PROVE  Collected(AddRow(list, rows[n + 1]), rows, n + 1)
  <1> DEFINE row == rows[n + 1]
             m == Len(list)
             items == IF row.item = Null THEN {} ELSE {row.item}
             last == [id |-> row.id, name |-> row.name, items |-> items]
             new == Append(list, last)
  <1>1. m \in Nat /\ IsList(list) /\ DOMAIN list = 1 .. m
    BY DEF Collected, IsList
  <1>2. AddRow(list, row) = new
    BY DEF AddRow
  <1>3. /\ IsList(new) /\ Len(new) = m + 1
        /\ \A k \in 1 .. m : new[k] = list[k]
        /\ new[m + 1] = last
    <2> DEFINE S == {list[k] : k \in DOMAIN list} \cup {last}
    <2>1. list \in Seq(S)
      <3>1. \A k \in DOMAIN list : list[k] \in S
        OBVIOUS
      <3> HIDE DEF S
      <3>2. QED
        BY <1>1, <3>1, ListIsSeq
    <2>2. last \in S
      OBVIOUS
    <2> HIDE DEF S, last
    <2>3. new \in Seq(S) /\ Len(new) = m + 1 /\ (\A k \in 1 .. m : new[k] = list[k]) /\ new[m + 1] = last
      BY <2>1, <2>2, AppendProperties
    <2>4. QED
      BY <2>3, SeqIsList
  <1> HIDE DEF new
  <1>4. n + 1 \in 1 .. Len(rows) /\ \A i \in 1 .. n : i \in 1 .. Len(rows) /\ i < n + 1
    BY DEF Grouped
  <1>5. \A k \in 1 .. m : \E i \in 1 .. n : list[k].id = rows[i].id /\ list[k].name = rows[i].name
    BY <1>1 DEF Collected
  <1>6. \A k \in 1 .. m : list[k].name \in Int /\ row.name \in Int
    BY <1>4, <1>5 DEF Grouped
  <1>7. \A k \in 1 .. m : list[k].name < row.name
    <2>1. SUFFICES ASSUME m > 0 PROVE list[m].name < row.name
      <3>1. \A k \in 1 .. m : k < m => list[k].name < list[m].name
        BY <1>1 DEF Collected
      <3>2. QED
        BY <1>1, <1>6, <2>1, <3>1
    <2>2. PICK i \in 1 .. n : list[m].id = rows[i].id /\ list[m].name = rows[i].name
      BY <1>1, <1>5, <2>1
    <2>3. list[m].id # row.id
      BY <2>1
    <2>4. rows[i].name <= row.name /\ rows[i].name # row.name
      BY <1>4, <2>2, <2>3 DEF Grouped
    <2>5. QED
      BY <1>1, <1>6, <2>1, <2>2, <2>4
  <1>8. \A i \in 1 .. n : rows[i].id # row.id
    <2>1. SUFFICES ASSUME NEW i \in 1 .. n, rows[i].id = row.id PROVE FALSE
      OBVIOUS
    <2>2. PICK k \in 1 .. m : list[k].id = rows[i].id
      BY DEF Collected
    <2>3. PICK j \in 1 .. n : list[k].id = rows[j].id /\ list[k].name = rows[j].name
      BY <1>5
    <2>4. rows[j].name = row.name
      BY <1>4, <2>1, <2>2, <2>3 DEF Grouped
    <2>5. QED
      BY <1>6, <1>7, <2>3, <2>4
  <1>9. \A i \in 1 .. n + 1 : i \in 1 .. n \/ i = n + 1
    OBVIOUS
  <1>10. \A k \in 1 .. m + 1 : k \in 1 .. m \/ k = m + 1
    BY <1>1
  <1>11. ASSUME NEW k \in 1 .. m + 1
         PROVE  /\ Document(new[k])
                /\ \E i \in 1 .. n + 1 : new[k].id = rows[i].id /\ new[k].name = rows[i].name
                /\ new[k].items = ItemsOfRows(rows, n + 1, new[k].id)
    <2>1. CASE k = m + 1
      <3>1. {i \in 1 .. n + 1 : rows[i].id = new[k].id} = {n + 1}
        BY <1>3, <1>8, <1>9, <2>1
      <3>2. {rows[i].item : i \in {n + 1}} = {row.item}
        OBVIOUS
      <3>3. items = {row.item} \ {Null}
        OBVIOUS
      <3> DEFINE at == {i \in 1 .. n + 1 : rows[i].id = new[k].id}
      <3>4. new[k].items = ItemsOfRows(rows, n + 1, new[k].id)
        <4>1. new[k].items = items
          <5>1. new[k] = last
            BY <1>3, <2>1
          <5> HIDE DEF items, row
          <5>2. last.items = items
            OBVIOUS
          <5> HIDE DEF last
          <5>3. QED
            BY <5>1, <5>2
        <4>2. {rows[i].item : i \in at} = {row.item}
          BY <3>1, <3>2
        <4> HIDE DEF items, row
        <4>3. ItemsOfRows(rows, n + 1, new[k].id) = {rows[i].item : i \in at} \ {Null}
          BY DEF ItemsOfRows
        <4> HIDE DEF at
        <4>4. QED
          BY <3>3, <4>1, <4>2, <4>3
      <3> HIDE DEF at
      <3>5. QED
        BY <1>3, <2>1, <3>4 DEF Document
    <2>2. CASE k \in 1 .. m
      <3>1. {i \in 1 .. n + 1 : rows[i].id = list[k].id} = {i \in 1 .. n : rows[i].id = list[k].id}
        <4>1. row.id # list[k].id
          BY <1>5, <1>8, <2>2
        <4>2. QED
          BY <1>9, <4>1
      <3>2. 1 .. n \subseteq 1 .. n + 1
        OBVIOUS
      <3>3. list[k].items = ItemsOfRows(rows, n, list[k].id) /\ Document(list[k])
        BY <2>2 DEF Collected
      <3>4. new[k].items = ItemsOfRows(rows, n + 1, new[k].id)
        BY <1>3, <2>2, <3>1, <3>3 DEF ItemsOfRows
      <3>5. QED
        BY <1>3, <1>5, <2>2, <3>2, <3>3, <3>4
    <2>3. QED
      BY <1>10, <2>1, <2>2
  <1>12. \A i \in 1 .. n + 1 : \E k \in 1 .. m + 1 : new[k].id = rows[i].id
    <2>1. TAKE i \in 1 .. n + 1
    <2>2. CASE i = n + 1
      BY <1>1, <1>3, <2>2
    <2>3. CASE i \in 1 .. n
      <3>1. PICK k \in 1 .. m : list[k].id = rows[i].id
        BY <2>3 DEF Collected
      <3>2. k \in 1 .. m + 1
        BY <1>1
      <3>3. QED
        BY <1>3, <3>1, <3>2
    <2>4. QED
      BY <1>9, <2>2, <2>3
  <1>13. \A k, l \in 1 .. m + 1 : k < l => new[k].name < new[l].name
    <2>1. SUFFICES ASSUME NEW k \in 1 .. m + 1, NEW l \in 1 .. m + 1, k < l PROVE new[k].name < new[l].name
      OBVIOUS
    <2>2. k \in 1 .. m
      BY <1>1, <2>1
    <2>3. CASE l \in 1 .. m
      BY <1>1, <1>3, <2>1, <2>2, <2>3 DEF Collected
    <2>4. CASE l = m + 1
      BY <1>3, <1>7, <2>2, <2>4
    <2>5. QED
      BY <1>10, <2>3, <2>4
  <1>14. new[m + 1].id = rows[n + 1].id
    BY <1>3
  <1>15. Collected(new, rows, n + 1)
    <2>1. Len(new) > 0 /\ new[Len(new)].id = rows[n + 1].id
      BY <1>1, <1>3, <1>14
    <2>2. QED
      BY <1>3, <1>11, <1>12, <1>13, <2>1 DEF Collected
  <1>16. QED
    BY <1>2, <1>15

\* The loop as a whole.
LEMMA FetchingCollects ==
    ASSUME NEW rows, Grouped(rows)
    PROVE  Collected(FetchRecipes(rows), rows, Len(rows))
  <1> DEFINE N == Len(rows)
  <1>1. N \in Nat
    BY DEF Grouped
  <1>2. PICK f : Fetches(f, rows) /\ FetchRecipes(rows) = f[N]
    BY <1>1, FetchingDefined
  <1>3. f[0] = <<>> /\ \A n \in 1 .. N : f[n] = AddRow(f[n - 1], rows[n])
    BY <1>1, <1>2 DEF Fetches
  <1> DEFINE T == {n \in 0 .. N : ~Collected(f[n], rows, n)}
  <1> HIDE DEF N
  <1>4. T = {}
    <2>1. SUFFICES ASSUME T # {} PROVE FALSE
      OBVIOUS
    <2>2. PICK n \in T : \A m \in T : n <= m
      <3>1. T \subseteq Nat
        BY <1>1
      <3> HIDE DEF T
      <3>2. QED
        BY <2>1, <3>1, Least
    <2>3. n # 0
      <3>1. Collected(<<>>, rows, 0)
        BY DEF Collected, IsList
      <3>2. QED
        BY <1>3, <2>2, <3>1
    <2>4. n - 1 \in 0 .. N /\ n \in 1 .. N /\ n - 1 \notin T
      BY <1>1, <2>2, <2>3
    <2>5. Collected(f[n - 1], rows, n - 1)
      BY <2>4
    <2>6. f[n] = AddRow(f[n - 1], rows[n])
      BY <1>3, <2>4
    <2>7. n - 1 \in Nat /\ n - 1 < Len(rows) /\ (n - 1) + 1 = n
      BY <1>1, <2>4 DEF N
    <2> DEFINE list == f[n - 1]
    <2> HIDE DEF T
    <2>8. CASE list # <<>> /\ list[Len(list)].id = rows[n].id
      <3>1. Collected(AddRow(list, rows[(n - 1) + 1]), rows, (n - 1) + 1)
        BY <2>5, <2>7, <2>8, SameRecipe
      <3>2. QED
        BY <2>2, <2>6, <2>7, <3>1 DEF T
    <2>9. CASE list = <<>> \/ list[Len(list)].id # rows[n].id
      <3>1. Collected(AddRow(list, rows[(n - 1) + 1]), rows, (n - 1) + 1)
        BY <2>5, <2>7, <2>9, NextOfNames
      <3>2. QED
        BY <2>2, <2>6, <2>7, <3>1 DEF T
    <2>10. QED
      BY <2>8, <2>9
  <1>5. N \in 0 .. N
    BY <1>1
  <1>6. QED
    BY <1>2, <1>4, <1>5 DEF N
-----------------------------------------------------------------------------
(* What a SELECT hands over.                                               *)

\* A recipe and its ingredients.
Doc(d, r) == [id |-> r.id, name |-> r.name, items |-> ItemsOf(d, r.id)]

Docs(d, R) == {Doc(d, r) : r \in R}

\* The image of a finite set.
LEMMA FiniteRecipes ==
    ASSUME NEW d, Rows(d), SchemaHolds(d)
    PROVE  IsFiniteSet(d.recipes) /\ IsFiniteSet(d.products)
  <1>1. d.recipeSeq \in Nat /\ d.productSeq \in Nat
    BY DEF Rows
  <1>2. IsFiniteSet(1 .. d.recipeSeq) /\ IsFiniteSet(1 .. d.productSeq)
    BY <1>1, FS_Interval
  <1>3. [r \in d.recipes |-> r.id] \in Injection(d.recipes, 1 .. d.recipeSeq)
    BY DEF Injection, IsInjective, SchemaHolds
  <1>4. [p \in d.products |-> p.id] \in Injection(d.products, 1 .. d.productSeq)
    BY DEF Injection, IsInjective, SchemaHolds
  <1>5. QED
    BY <1>2, <1>3, <1>4, FS_Injection

\* A join of finite tables has finitely many rows.
LEMMA FiniteRows ==
    ASSUME NEW d, Rows(d), SchemaHolds(d), IsFiniteSet(d.ingredients), NEW R \in SUBSET d.recipes
    PROVE  IsFiniteSet(RowsOf(d, R))
  <1> DEFINE Items == {[key |-> i.key, amount |-> i.amount] : i \in d.ingredients}
             all == Items \cup {Null}
             S == (1 .. d.recipeSeq) \X all
             f == [row \in RowsOf(d, R) |-> <<row.id, row.item>>]
  <1>1. IsFiniteSet(Items)
    <2> DEFINE g == [i \in d.ingredients |-> [key |-> i.key, amount |-> i.amount]]
    <2>1. g \in Surjection(d.ingredients, Items)
      BY DEF Surjection
    <2>2. QED
      BY <2>1, FS_Surjection
  <1>2. IsFiniteSet(all)
    BY <1>1, FS_AddElement
  <1>3. d.recipeSeq \in Nat
    BY DEF Rows
  <1>4. IsFiniteSet(S)
    <2>1. IsFiniteSet(1 .. d.recipeSeq)
      BY <1>3, FS_Interval
    <2> HIDE DEF all
    <2>2. QED
      BY <1>2, <2>1, FS_Product
  <1>5. \A row \in RowsOf(d, R) :
           \E r \in R : row.id = r.id /\ row.name = r.name /\ row = [id |-> row.id, name |-> row.name, item |-> row.item]
                        /\ row.item \in all
    BY DEF RowsOf, ItemsOf
  <1>6. \A row \in RowsOf(d, R) : row.id \in 1 .. d.recipeSeq /\ row.item \in all
    BY <1>5 DEF SchemaHolds
  <1>7. \A a, b \in RowsOf(d, R) : (a.id = b.id /\ a.item = b.item) => a = b
    <2>1. SUFFICES ASSUME NEW a \in RowsOf(d, R), NEW b \in RowsOf(d, R), a.id = b.id, a.item = b.item PROVE a = b
      OBVIOUS
    <2>2. a.name = b.name
      BY <1>5, <2>1 DEF SchemaHolds
    <2>3. a = [id |-> a.id, name |-> a.name, item |-> a.item] /\ b = [id |-> b.id, name |-> b.name, item |-> b.item]
      BY <1>5
    <2>4. QED
      BY <2>1, <2>2, <2>3
  <1> HIDE DEF all
  <1>8. f \in Injection(RowsOf(d, R), S)
    <2>1. f \in [RowsOf(d, R) -> S]
      BY <1>6
    <2>2. \A a, b \in RowsOf(d, R) : f[a] = f[b] => a = b
      BY <1>7
    <2> HIDE DEF f, S
    <2>3. QED
      BY <2>1, <2>2 DEF Injection, IsInjective, f
  <1>9. QED
    BY <1>4, <1>8, FS_Injection

\* What is selected comes as a list, once each.
LEMMA OrderedIsList ==
    ASSUME NEW rows, IsFiniteSet(rows), NEW seq \in [1 .. Cardinality(rows) -> rows],
           \A row \in rows : \E i \in DOMAIN seq : seq[i] = row
    PROVE  /\ IsList(seq) /\ Len(seq) = Cardinality(rows) /\ Len(seq) \in Nat
           /\ DOMAIN seq = 1 .. Len(seq)
           /\ {seq[i] : i \in DOMAIN seq} = rows
  <1>1. Cardinality(rows) \in Nat
    BY FS_CardinalityType
  <1>2. seq = [i \in 1 .. Cardinality(rows) |-> seq[i]]
    OBVIOUS
  <1>3. IsList(seq) /\ Len(seq) = Cardinality(rows)
    BY <1>1, <1>2, FunctionIsList
  <1>4. {seq[i] : i \in DOMAIN seq} = rows
    OBVIOUS
  <1>5. QED
    BY <1>1, <1>3, <1>4

\* Rows ordered by name stand together by recipe: a name is one recipe's.
LEMMA RowsGrouped ==
    ASSUME NEW d, Rows(d), SchemaHolds(d), IsFiniteSet(d.ingredients), NEW R \in SUBSET d.recipes,
           NEW seq \in Ordered(RowsOf(d, R), RowBefore)
    PROVE  /\ Grouped(seq)
           /\ DOMAIN seq = 1 .. Len(seq)
           /\ {seq[i] : i \in DOMAIN seq} = RowsOf(d, R)
  <1>1. IsFiniteSet(RowsOf(d, R))
    BY FiniteRows
  <1>2. /\ seq \in [1 .. Cardinality(RowsOf(d, R)) -> RowsOf(d, R)]
        /\ \A row \in RowsOf(d, R) : \E i \in DOMAIN seq : seq[i] = row
        /\ \A i, j \in DOMAIN seq : i < j => ~RowBefore(seq[j], seq[i])
    BY DEF Ordered
  <1>3. /\ Len(seq) \in Nat /\ DOMAIN seq = 1 .. Len(seq)
        /\ {seq[i] : i \in DOMAIN seq} = RowsOf(d, R)
    BY <1>1, <1>2, OrderedIsList
  <1>4. \A i \in 1 .. Len(seq) : \E r \in R : seq[i].id = r.id /\ seq[i].name = r.name
    <2>1. \A row \in RowsOf(d, R) : \E r \in R : row.id = r.id /\ row.name = r.name
      BY DEF RowsOf
    <2>2. QED
      BY <1>3, <2>1
  <1>5. \A i \in 1 .. Len(seq) : seq[i].name \in Int
    BY <1>4 DEF Rows
  <1>6. \A i, j \in 1 .. Len(seq) : i < j => seq[i].name <= seq[j].name
    <2>1. \A a, b : a.name < b.name => RowBefore(a, b)
      BY DEF RowBefore
    <2>2. QED
      BY <1>2, <1>3, <1>5, <2>1
  <1>7. \A i, j \in 1 .. Len(seq) : seq[i].id = seq[j].id <=> seq[i].name = seq[j].name
    BY <1>4 DEF SchemaHolds
  <1>8. QED
    BY <1>3, <1>5, <1>6, <1>7 DEF Grouped

\* A list without repetitions.
LEMMA Counted ==
    ASSUME NEW list, IsList(list), NEW S, {list[k] : k \in DOMAIN list} = S,
           \A k, l \in 1 .. Len(list) : k < l => list[k] # list[l]
    PROVE  Len(list) = Cardinality(S)
  <1>1. Len(list) \in Nat /\ DOMAIN list = 1 .. Len(list) /\ list = [k \in 1 .. Len(list) |-> list[k]]
    BY DEF IsList
  <1> DEFINE m == Len(list)
  <1>2. \A k, l \in 1 .. m : list[k] = list[l] => k = l
    BY <1>1
  <1>3. list \in Surjection(1 .. m, S) /\ list \in Injection(1 .. m, S)
    <2>1. list \in [1 .. m -> S]
      BY <1>1
    <2>2. \A s \in S : \E k \in 1 .. m : list[k] = s
      BY <1>1
    <2> HIDE DEF m
    <2>3. QED
      BY <1>2, <2>1, <2>2 DEF Surjection, Injection, IsInjective
  <1>4. IsFiniteSet(1 .. m) /\ Cardinality(1 .. m) = m
    BY <1>1, FS_Interval
  <1> HIDE DEF m
  <1>5. Cardinality(S) = Cardinality(1 .. m)
    BY <1>3, <1>4, FS_Surjection
  <1>6. QED
    BY <1>4, <1>5 DEF m

\* The rows of a recipe.
LEMMA RowIsThere ==
    ASSUME NEW d, NEW R, NEW r \in R, NEW x, x \in IF ItemsOf(d, r.id) = {} THEN {Null} ELSE ItemsOf(d, r.id)
    PROVE  [id |-> r.id, name |-> r.name, item |-> x] \in RowsOf(d, R)
  <1> DEFINE S == IF ItemsOf(d, r.id) = {} THEN {Null} ELSE ItemsOf(d, r.id)
             T == {[id |-> r.id, name |-> r.name, item |-> y] : y \in S}
  <1>1. [id |-> r.id, name |-> r.name, item |-> x] \in T
    <2> HIDE DEF S
    <2>1. x \in S
      BY DEF S
    <2>2. QED
      BY <2>1
  <1>2. T \subseteq RowsOf(d, R)
    BY DEF RowsOf
  <1>3. QED
    BY <1>1, <1>2

\* The documents come out of the join again, whatever the order of its ties.
LEMMA FetchedDocuments ==
    ASSUME NEW d, Rows(d), SchemaHolds(d), IsFiniteSet(d.ingredients), NEW R \in SUBSET d.recipes,
           NEW seq \in Ordered(RowsOf(d, R), RowBefore)
    PROVE  /\ IsList(FetchRecipes(seq))
           /\ Len(FetchRecipes(seq)) = Cardinality(Docs(d, R))
           /\ {FetchRecipes(seq)[k] : k \in DOMAIN FetchRecipes(seq)} = Docs(d, R)
  <1> DEFINE list == FetchRecipes(seq)
             n == Len(seq)
  <1>1. /\ Grouped(seq) /\ DOMAIN seq = 1 .. n
        /\ {seq[i] : i \in DOMAIN seq} = RowsOf(d, R)
    BY RowsGrouped
  <1>2. Collected(list, seq, n)
    BY <1>1, FetchingCollects
  <1> HIDE DEF list, n
  <1>3. IsList(list) /\ DOMAIN list = 1 .. Len(list) /\ Len(list) \in Nat
    BY <1>2 DEF Collected, IsList
  <1>4. \A r \in R : ItemsOfRows(seq, n, r.id) = ItemsOf(d, r.id)
    <2>1. TAKE r \in R
    <2>2. {row.item : row \in {row \in RowsOf(d, R) : row.id = r.id}} \ {Null} = ItemsOf(d, r.id)
      <3>1. ASSUME NEW x \in ItemsOf(d, r.id) PROVE x # Null /\ \E row \in RowsOf(d, R) : row.id = r.id /\ row.item = x
        <4>1. x # Null
          BY DEF ItemsOf, Null
        <4>2. x \in IF ItemsOf(d, r.id) = {} THEN {Null} ELSE ItemsOf(d, r.id)
          OBVIOUS
        <4>3. [id |-> r.id, name |-> r.name, item |-> x] \in RowsOf(d, R)
          BY <4>2, RowIsThere
        <4>4. QED
          BY <4>1, <4>3
      <3>2. ASSUME NEW row \in RowsOf(d, R), row.id = r.id, row.item # Null PROVE row.item \in ItemsOf(d, r.id)
        <4>1. PICK q \in R : row.id = q.id /\ row.item \in IF ItemsOf(d, q.id) = {} THEN {Null} ELSE ItemsOf(d, q.id)
          BY DEF RowsOf
        <4>2. QED
          BY <3>2, <4>1
      <3>3. QED
        BY <3>1, <3>2
    <2>3. {seq[i].item : i \in {i \in 1 .. n : seq[i].id = r.id}} = {row.item : row \in {row \in RowsOf(d, R) : row.id = r.id}}
      BY <1>1
    <2>4. QED
      BY <2>2, <2>3 DEF ItemsOfRows
  <1>5. \A k \in 1 .. Len(list) : list[k] \in Docs(d, R)
    <2>1. TAKE k \in 1 .. Len(list)
    <2>2. PICK i \in 1 .. n : list[k].id = seq[i].id /\ list[k].name = seq[i].name
      BY <1>2 DEF Collected
    <2>3. PICK r \in R : seq[i].id = r.id /\ seq[i].name = r.name
      <3>1. \A row \in RowsOf(d, R) : \E r \in R : row.id = r.id /\ row.name = r.name
        BY DEF RowsOf
      <3>2. QED
        BY <1>1, <3>1
    <2>4. list[k].items = ItemsOfRows(seq, n, r.id) /\ Document(list[k])
      BY <1>2, <2>2, <2>3 DEF Collected
    <2>5. list[k] = Doc(d, r)
      BY <1>4, <2>2, <2>3, <2>4 DEF Document, Doc
    <2>6. QED
      BY <2>5 DEF Docs
  <1>6. \A r \in R : \E k \in 1 .. Len(list) : list[k] = Doc(d, r)
    <2>1. TAKE r \in R
    <2>2. PICK row \in RowsOf(d, R) : row.id = r.id
      <3>1. PICK x : x \in IF ItemsOf(d, r.id) = {} THEN {Null} ELSE ItemsOf(d, r.id)
        BY Zenon
      <3>2. [id |-> r.id, name |-> r.name, item |-> x] \in RowsOf(d, R)
        BY <3>1, RowIsThere
      <3>3. QED
        BY <3>2
    <2>3. PICK i \in 1 .. n : seq[i] = row
      BY <1>1
    <2>4. PICK k \in 1 .. Len(list) : list[k].id = seq[i].id
      BY <1>2 DEF Collected
    <2>5. PICK q \in R : list[k] = Doc(d, q)
      BY <1>5 DEF Docs
    <2>6. q = r
      BY <2>2, <2>3, <2>4, <2>5 DEF Doc, SchemaHolds
    <2>7. QED
      BY <2>5, <2>6
  <1>7. {list[k] : k \in DOMAIN list} = Docs(d, R)
    BY <1>3, <1>5, <1>6 DEF Docs
  <1>8. \A k, l \in 1 .. Len(list) : k < l => list[k] # list[l]
    <2>1. \A k \in 1 .. Len(list) : list[k].name \in Int
      BY <1>5 DEF Docs, Doc, Rows
    <2>2. \A k, l \in 1 .. Len(list) : k < l => list[k].name < list[l].name
      BY <1>2 DEF Collected
    <2>3. QED
      BY <2>1, <2>2
  <1>9. Len(list) = Cardinality(Docs(d, R))
    BY <1>3, <1>7, <1>8, Counted
  <1>10. QED
    BY <1>3, <1>7, <1>9 DEF list

\* The tables as the connection sees them, in a form to reason about.
Sound(d) == Rows(d) /\ SchemaHolds(d) /\ IsFiniteSet(d.ingredients)

\* The book shows every recipe.
LEMMA DocumentsAre ==
    ASSUME NEW d
    PROVE  Documents(d) = Docs(d, d.recipes)
  BY DEF Documents, Docs, Doc

\* The recipe an id or a name finds is the only one.
LEMMA OneDocument ==
    ASSUME NEW d, SchemaHolds(d), NEW x \in Documents(d), NEW y \in Documents(d), x.id = y.id \/ x.name = y.name
    PROVE  x = y
  <1>1. PICK r \in d.recipes : x = Doc(d, r)
    BY DEF Documents, Doc
  <1>2. PICK s \in d.recipes : y = Doc(d, s)
    BY DEF Documents, Doc
  <1>3. r = s
    BY <1>1, <1>2 DEF SchemaHolds, Doc
  <1>4. QED
    BY <1>1, <1>2, <1>3

\* SELECT ... FROM products WHERE id.
LEMMA ProductRead ==
    ASSUME NEW d, NEW id
    PROVE  \/ ProductById(d, id) \in d.products /\ ProductById(d, id).id = id
           \/ ProductById(d, id) = Null /\ \A p \in d.products : p.id # id
  BY DEF ProductById, HasProduct

\* SELECT ... FROM recipes WHERE id, and its rows collected.
LEMMA RecipeRead ==
    ASSUME NEW d, Sound(d), NEW id, NEW rows \in Ordered(RowsById(d, id), RowBefore)
    PROVE  LET v == FirstOf(FetchRecipes(rows))
           IN \/ v \in Documents(d) /\ v.id = id
              \/ v = Null /\ \A r \in Documents(d) : r.id # id
  <1> DEFINE R == {r \in d.recipes : r.id = id}
             list == FetchRecipes(rows)
  <1>1. RowsById(d, id) = RowsOf(d, R) /\ R \in SUBSET d.recipes
    BY DEF RowsById
  <1> HIDE DEF R
  <1>2. IsList(list) /\ {list[k] : k \in DOMAIN list} = Docs(d, R)
    BY <1>1, FetchedDocuments DEF Sound
  <1> HIDE DEF list
  <1>3. CASE list = <<>>
    <2>1. Docs(d, R) = {}
      BY <1>2, <1>3
    <2>2. \A r \in d.recipes : r.id # id
      BY <2>1 DEF Docs, R
    <2>3. QED
      BY <1>3, <2>2 DEF FirstOf, list, Documents
  <1>4. CASE list # <<>>
    <2>1. 1 \in DOMAIN list
      <3>1. Len(list) \in Nat /\ list = [k \in 1 .. Len(list) |-> list[k]]
        BY <1>2 DEF IsList
      <3>2. Len(list) # 0
        <4>1. ASSUME Len(list) = 0 PROVE FALSE
          <5>1. list = [k \in 1 .. 0 |-> list[k]]
            BY <3>1, <4>1
          <5>2. QED
            BY <1>4, <5>1
        <4>2. QED
          BY <4>1
      <3>3. QED
        BY <3>1, <3>2
    <2>2. list[1] \in Docs(d, R)
      BY <1>2, <2>1
    <2>3. list[1] \in Documents(d) /\ list[1].id = id
      BY <2>2 DEF Docs, Doc, R, Documents
    <2>4. QED
      BY <1>4, <2>3 DEF FirstOf, list
  <1>5. QED
    BY <1>3, <1>4

\* The book counts as the store does.
LEMMA SameCardinality == \A S : Book!Cardinality(S) = Cardinality(S)
  BY DEF Book!Cardinality, Cardinality

\* The sequence a SELECT without a condition leaves behind lists the table.
LEMMA AllRead ==
    ASSUME NEW d, Sound(d), NEW rows \in Ordered(AllRows(d), RowBefore)
    PROVE  Book!Lists(FetchRecipes(rows), Documents(d))
  <1>1. d.recipes \in SUBSET d.recipes
    OBVIOUS
  <1>2. QED
    BY <1>1, FetchedDocuments, DocumentsAre, SameCardinality DEF AllRows, Book!Lists, Sound

\* SELECT ... FROM products ORDER BY amount_base.
LEMMA ProductsRead ==
    ASSUME NEW d, Sound(d), NEW seq \in Ordered(d.products, ProductBefore)
    PROVE  Book!Lists(seq, d.products)
  <1>1. IsFiniteSet(d.products)
    BY FiniteRecipes DEF Sound
  <1>2. /\ seq \in [1 .. Cardinality(d.products) -> d.products]
        /\ \A row \in d.products : \E i \in DOMAIN seq : seq[i] = row
    BY DEF Ordered
  <1>3. QED
    BY <1>1, <1>2, OrderedIsList, SameCardinality DEF Book!Lists

\* A recipe is cookable if nothing is lacking.
LEMMA CookableRead ==
    ASSUME Sound(db), saved = Null, NEW rows \in Ordered(CookableRows(db), RowBefore)
    PROVE  Book!Lists(FetchRecipes(rows), Book!Cookable)
  <1> DEFINE R == {r \in db.recipes : Lacking(db, r) = {}}
             Enough(x) == \A i \in x.items : \E p \in db.products : p.key = i.key /\ p.amount >= i.amount
  <1>1. \A r \in db.recipes : Lacking(db, r) = {} <=> Enough(Doc(db, r))
    <2>1. TAKE r \in db.recipes
    <2>2. /\ \A i \in db.ingredients : i.amount \in Int
          /\ \A p \in db.products : p.amount \in Int
      BY DEF Sound, Rows
    <2>3. ASSUME Lacking(db, r) = {}, NEW x \in ItemsOf(db, r.id)
          PROVE  \E p \in db.products : p.key = x.key /\ p.amount >= x.amount
      <3>1. PICK i \in db.ingredients : i.recipe = r.id /\ x.key = i.key /\ x.amount = i.amount
        BY DEF ItemsOf
      <3>2. KeyTaken(db, i.key) /\ \A p \in db.products : ~(p.key = i.key /\ p.amount < i.amount)
        BY <2>3, <3>1 DEF Lacking
      <3>3. QED
        BY <2>2, <3>1, <3>2 DEF KeyTaken
    <2>4. ASSUME Enough(Doc(db, r)), NEW i \in db.ingredients, i.recipe = r.id
          PROVE  KeyTaken(db, i.key) /\ \A p \in db.products : ~(p.key = i.key /\ p.amount < i.amount)
      <3>1. [key |-> i.key, amount |-> i.amount] \in ItemsOf(db, r.id)
        BY <2>4 DEF ItemsOf
      <3>2. PICK p \in db.products : p.key = i.key /\ p.amount >= i.amount
        BY <2>4, <3>1 DEF Doc
      <3>3. \A q \in db.products : q.key = i.key => q = p
        BY <3>2 DEF Sound, SchemaHolds
      <3>4. QED
        BY <2>2, <3>2, <3>3 DEF KeyTaken
    <2>5. QED
      BY <2>3, <2>4 DEF Lacking, Doc
  <1>2. Docs(db, R) = Book!Cookable
    <2>1. Book!Cookable = {x \in Documents(db) : Enough(x)}
      BY DEF Book!Cookable, Durable
    <2> HIDE DEF Enough
    <2>2. QED
      BY <1>1, <2>1, DocumentsAre DEF Docs
  <1>3. R \in SUBSET db.recipes /\ CookableRows(db) = RowsOf(db, R)
    BY DEF CookableRows
  <1> HIDE DEF R
  <1>4. QED
    BY <1>2, <1>3, FetchedDocuments, SameCardinality DEF Book!Lists, Sound
-----------------------------------------------------------------------------
(* What the statements do to products.                                     *)

\* The first k elements of a batch are merged.
MergedProducts(new, old, args, k) ==
    /\ {p.key : p \in new} = {p.key : p \in old} \cup {args[i].key : i \in 1 .. k}
    /\ \A p \in new : \A i \in 1 .. k :
           args[i].key = p.key /\ (\A l \in 1 .. k : l > i => args[l].key # args[i].key) => p.amount = args[i].amount
    /\ \A p \in new : (\A i \in 1 .. k : args[i].key # p.key) => p \in old
    /\ \A p \in old : \E q \in new : q.id = p.id /\ q.key = p.key

\* The product p was added, or its amount was put in place.
OneMerged(newer, new, p) ==
    /\ {q.key : q \in newer} = {q.key : q \in new} \cup {p.key}
    /\ \A q \in newer : IF q.key = p.key THEN q.amount = p.amount ELSE q \in new
    /\ \A q \in new : \E r \in newer : r.id = q.id /\ r.key = q.key

\* INSERT ... ON CONFLICT DO UPDATE.
LEMMA InsertedProduct ==
    ASSUME NEW d, Sound(d), NEW p \in Products, NEW e \in InsertProduct(d, p)
    PROVE  e.recipes = d.recipes /\ e.ingredients = d.ingredients /\ OneMerged(e.products, d.products, p)
  <1>1. Rows(d)
    BY DEF Sound
  <1>2. CASE ~KeyTaken(d, p.key)
    <2> DEFINE new == [id |-> d.productSeq + 1, key |-> p.key, amount |-> p.amount]
               ps == d.products \cup {new}
               n == d.productSeq + 1
    <2>1. d.productSeq \in Nat /\ n \in Nat /\ d.productSeq < n
      BY <1>1 DEF Rows
    <2>2. e = [d EXCEPT !.products = ps, !.productSeq = n]
      <3>1. AddProduct(d, p) = [d EXCEPT !.products = ps, !.productSeq = n]
        BY <2>1 DEF AddProduct, NextId
      <3>2. QED
        BY <1>2, <3>1 DEF InsertProduct
    <2>3. e.recipes = d.recipes /\ e.ingredients = d.ingredients /\ e.products = ps
      <3> HIDE DEF ps, n
      <3>1. QED
        BY <1>1, <2>2 DEF Rows
    <2>4. \A q \in ps : q = new \/ (q \in d.products /\ q.key # p.key)
      <3>1. \A q \in d.products : q.key # p.key
        BY <1>2 DEF KeyTaken
      <3>2. \A q \in ps : q = new \/ q \in d.products
        OBVIOUS
      <3> HIDE DEF new, ps
      <3>3. QED
        BY <3>1, <3>2
    <2>5. new.key = p.key /\ new.amount = p.amount /\ new \in ps /\ d.products \subseteq ps
      OBVIOUS
    <2> HIDE DEF new
    <2>6. {q.key : q \in ps} = {q.key : q \in d.products} \cup {p.key}
      BY <2>5
    <2> HIDE DEF ps
    <2>7. OneMerged(ps, d.products, p)
      BY <2>4, <2>5, <2>6 DEF OneMerged
    <2>8. QED
      BY <2>3, <2>7
  <1>3. CASE KeyTaken(d, p.key)
    <2> DEFINE new(q) == IF q.key = p.key THEN [q EXCEPT !.amount = p.amount] ELSE q
               ps == {new(q) : q \in d.products}
    <2>1. PICK n : e = [d EXCEPT !.products = ps, !.productSeq = n]
      BY <1>3 DEF InsertProduct
    <2>2. e.recipes = d.recipes /\ e.ingredients = d.ingredients /\ e.products = ps
      <3> HIDE DEF ps
      <3>1. QED
        BY <1>1, <2>1 DEF Rows
    <2>3. \A q \in d.products : /\ new(q).id = q.id /\ new(q).key = q.key
                                /\ IF q.key = p.key THEN new(q).amount = p.amount ELSE new(q) = q
      BY <1>1 DEF Rows
    <2> HIDE DEF new
    <2>4. (\A q \in ps : \E r \in d.products : q = new(r)) /\ (\A r \in d.products : new(r) \in ps)
      OBVIOUS
    <2> HIDE DEF ps
    <2>5. PICK t \in d.products : t.key = p.key
      BY <1>3 DEF KeyTaken
    <2>6. {q.key : q \in ps} = {q.key : q \in d.products} \cup {p.key}
      BY <2>3, <2>4, <2>5
    <2>7. OneMerged(ps, d.products, p)
      BY <2>3, <2>4, <2>6 DEF OneMerged
    <2>8. QED
      BY <2>2, <2>7
  <1>4. QED
    BY <1>2, <1>3

\* One more element of the batch.
LEMMA OneMoreProduct ==
    ASSUME NEW old, NEW new, NEW newer, NEW args, NEW k \in Nat,
           MergedProducts(new, old, args, k), NEW p, p = args[k + 1], OneMerged(newer, new, p)
    PROVE  MergedProducts(newer, old, args, k + 1)
  <1>0. /\ {q.key : q \in newer} = {q.key : q \in new} \cup {p.key}
        /\ \A q \in newer : IF q.key = p.key THEN q.amount = p.amount ELSE q \in new
        /\ \A q \in new : \E r \in newer : r.id = q.id /\ r.key = q.key
    BY DEF OneMerged
  <1>1. \A i \in 1 .. k + 1 : i \in 1 .. k \/ i = k + 1
    OBVIOUS
  <1>2. \A i \in 1 .. k : i \in 1 .. k + 1 /\ i < k + 1
    OBVIOUS
  <1>3. k + 1 \in 1 .. k + 1
    OBVIOUS
  <1>4. {q.key : q \in newer} = {q.key : q \in old} \cup {args[i].key : i \in 1 .. k + 1}
    <2>1. {args[i].key : i \in 1 .. k + 1} = {args[i].key : i \in 1 .. k} \cup {p.key}
      BY <1>1, <1>2, <1>3
    <2>2. {q.key : q \in new} = {q.key : q \in old} \cup {args[i].key : i \in 1 .. k}
      BY DEF MergedProducts
    <2>3. QED
      BY <1>0, <2>1, <2>2
  <1>5. ASSUME NEW q \in newer, NEW i \in 1 .. k + 1, args[i].key = q.key,
               \A l \in 1 .. k + 1 : l > i => args[l].key # args[i].key
        PROVE  q.amount = args[i].amount
    <2>1. CASE q.key = p.key
      <3>1. i = k + 1
        BY <1>1, <1>2, <1>3, <1>5, <2>1
      <3>2. QED
        BY <1>0, <2>1, <3>1
    <2>2. CASE q.key # p.key
      <3>1. q \in new /\ i \in 1 .. k
        BY <1>0, <1>1, <1>5, <2>2
      <3>2. \A l \in 1 .. k : l > i => args[l].key # args[i].key
        BY <1>2, <1>5
      <3>3. QED
        BY <1>5, <3>1, <3>2 DEF MergedProducts
    <2>3. QED
      BY <2>1, <2>2
  <1>6. ASSUME NEW q \in newer, \A i \in 1 .. k + 1 : args[i].key # q.key
        PROVE  q \in old
    <2>1. q \in new /\ \A i \in 1 .. k : args[i].key # q.key
      BY <1>0, <1>2, <1>3, <1>6
    <2>2. QED
      BY <2>1 DEF MergedProducts
  <1>7. \A q \in old : \E r \in newer : r.id = q.id /\ r.key = q.key
    <2>1. TAKE q \in old
    <2>2. PICK s \in new : s.id = q.id /\ s.key = q.key
      BY DEF MergedProducts
    <2>3. QED
      BY <1>0, <2>2
  <1>8. QED
    BY <1>4, <1>5, <1>6, <1>7 DEF MergedProducts

\* Before its first product a batch has changed nothing.
LEMMA NoProductYet ==
    ASSUME NEW old, NEW args
    PROVE  MergedProducts(old, old, args, 0)
  BY DEF MergedProducts

\* INSERT INTO products, UPDATE and DELETE.
LEMMA AddedProduct ==
    ASSUME NEW d, Sound(d), NEW p, NEW e, e = AddProduct(d, p)
    PROVE  /\ e.recipes = d.recipes /\ e.ingredients = d.ingredients
           /\ LET x == [id |-> d.productSeq + 1, key |-> p.key, amount |-> p.amount]
              IN e.products = d.products \cup {x} /\ \A y \in d.products : y.id # x.id
  <1> DEFINE x == [id |-> d.productSeq + 1, key |-> p.key, amount |-> p.amount]
             ps == d.products \cup {x}
             n == d.productSeq + 1
  <1>1. d.productSeq \in Nat /\ n \in Nat /\ d.productSeq < n /\ \A y \in d.products : y.id # d.productSeq + 1
    BY DEF Sound, Rows, SchemaHolds
  <1>2. e = [d EXCEPT !.products = ps, !.productSeq = n]
    <2>1. AddProduct(d, p) = [d EXCEPT !.products = ps, !.productSeq = n]
      BY <1>1 DEF AddProduct, NextId
    <2>2. QED
      BY <2>1
  <1>3. e.recipes = d.recipes /\ e.ingredients = d.ingredients /\ e.products = ps
    <2> HIDE DEF ps, n
    <2>1. QED
      BY <1>2 DEF Rows, Sound
  <1>4. QED
    BY <1>1, <1>3

\* UPDATE products leaves the other rows alone.
LEMMA UpdatedProduct ==
    ASSUME NEW d, Sound(d), NEW id, HasProduct(d, id), NEW p, NEW e, e = UpdateProductRow(d, id, p)
    PROVE  /\ e.recipes = d.recipes /\ e.ingredients = d.ingredients
           /\ e.products = {q \in d.products : q.id # id} \cup {[id |-> id, key |-> p.key, amount |-> p.amount]}
  <1> DEFINE x == [id |-> id, key |-> p.key, amount |-> p.amount]
             ps == {IF q.id = id THEN x ELSE q : q \in d.products}
  <1>1. e = [d EXCEPT !.products = ps]
    BY DEF UpdateProductRow
  <1>2. e.recipes = d.recipes /\ e.ingredients = d.ingredients /\ e.products = ps
    <2> HIDE DEF ps
    <2>1. QED
      BY <1>1 DEF Rows, Sound
  <1>3. ps = {q \in d.products : q.id # id} \cup {x}
    <2> HIDE DEF x
    <2>1. QED
      BY DEF HasProduct
  <1>4. QED
    BY <1>2, <1>3

\* DELETE FROM products leaves the other rows alone.
LEMMA DeletedProduct ==
    ASSUME NEW d, Sound(d), NEW id, NEW e, e = DeleteProductRow(d, id)
    PROVE  /\ e.recipes = d.recipes /\ e.ingredients = d.ingredients
           /\ e.products = {q \in d.products : q.id # id}
  <1> DEFINE ps == {q \in d.products : q.id # id}
  <1>1. e = [d EXCEPT !.products = ps]
    BY DEF DeleteProductRow
  <1> HIDE DEF ps
  <1>2. e.recipes = d.recipes /\ e.ingredients = d.ingredients /\ e.products = ps
    BY <1>1 DEF Rows, Sound
  <1>3. QED
    BY <1>2 DEF ps

\* The documents are made of the tables of recipes and ingredients alone.
LEMMA SameDocuments ==
    ASSUME NEW d, NEW e, e.recipes = d.recipes, e.ingredients = d.ingredients
    PROVE  Documents(e) = Documents(d)
  BY DEF Documents, ItemsOf
-----------------------------------------------------------------------------
(* What the statements do to recipes.                                      *)

\* Nothing but the ingredients of one recipe is touched.
OnlyItemsOf(d, e, id) ==
    /\ e.products = d.products
    /\ e.recipes = d.recipes
    /\ \A r \in d.recipes : r.id # id => ItemsOf(e, r.id) = ItemsOf(d, r.id)

\* DELETE FROM recipe_ingredients empties one recipe.
LEMMA DeletedIngredients ==
    ASSUME NEW d, Sound(d), NEW id, NEW e, e = DeleteIngredients(d, id)
    PROVE  OnlyItemsOf(d, e, id) /\ ItemsOf(e, id) = {}
  <1> DEFINE is == {i \in d.ingredients : i.recipe # id}
  <1>1. e = [d EXCEPT !.ingredients = is]
    BY DEF DeleteIngredients
  <1>2. e.products = d.products /\ e.recipes = d.recipes /\ e.ingredients = is
    <2> HIDE DEF is
    <2>1. QED
      BY <1>1 DEF Rows, Sound
  <1>3. \A n : {i \in is : i.recipe = n} = IF n = id THEN {} ELSE {i \in d.ingredients : i.recipe = n}
    OBVIOUS
  <1> HIDE DEF is
  <1>4. \A n : ItemsOf(e, n) = IF n = id THEN {} ELSE ItemsOf(d, n)
    BY <1>2, <1>3 DEF ItemsOf
  <1>5. QED
    BY <1>2, <1>4 DEF OnlyItemsOf

\* INSERT OR REPLACE puts one ingredient in the place of its key.
LEMMA PutOneIngredient ==
    ASSUME NEW d, Sound(d), NEW id, NEW item \in Products, NEW e, e = PutIngredient(d, id, item)
    PROVE  /\ OnlyItemsOf(d, e, id)
           /\ ItemsOf(e, id) = {x \in ItemsOf(d, id) : x.key # item.key} \cup {item}
  <1> DEFINE new == [recipe |-> id, key |-> item.key, amount |-> item.amount]
             is == {i \in d.ingredients : i.recipe # id \/ i.key # item.key} \cup {new}
  <1>1. e = [d EXCEPT !.ingredients = is]
    BY DEF PutIngredient
  <1>2. e.products = d.products /\ e.recipes = d.recipes /\ e.ingredients = is
    <2> HIDE DEF is
    <2>1. QED
      BY <1>1 DEF Rows, Sound
  <1>3. \A n : n # id => {i \in is : i.recipe = n} = {i \in d.ingredients : i.recipe = n}
    OBVIOUS
  <1>4. {i \in is : i.recipe = id} = {i \in d.ingredients : i.recipe = id /\ i.key # item.key} \cup {new}
    OBVIOUS
  <1>5. [key |-> new.key, amount |-> new.amount] = item
    BY DEF Products
  <1> HIDE DEF is, new
  <1>6. \A n : n # id => ItemsOf(e, n) = ItemsOf(d, n)
    BY <1>2, <1>3 DEF ItemsOf
  <1>7. ItemsOf(e, id) = {x \in ItemsOf(d, id) : x.key # item.key} \cup {item}
    <2> DEFINE A == {i \in d.ingredients : i.recipe = id}
               B == {i \in d.ingredients : i.recipe = id /\ i.key # item.key}
    <2>1. ItemsOf(e, id) = {[key |-> i.key, amount |-> i.amount] : i \in B \cup {new}}
      BY <1>2, <1>4 DEF ItemsOf
    <2>2. ItemsOf(d, id) = {[key |-> i.key, amount |-> i.amount] : i \in A}
      BY DEF ItemsOf
    <2>3. B = {i \in A : i.key # item.key}
      OBVIOUS
    <2> HIDE DEF A, B
    <2>4. {x \in ItemsOf(d, id) : x.key # item.key} = {[key |-> i.key, amount |-> i.amount] : i \in B}
      BY <2>2, <2>3
    <2>5. QED
      BY <1>5, <2>1, <2>4
  <1>8. QED
    BY <1>2, <1>6, <1>7 DEF OnlyItemsOf

\* Of two ingredients with one key among the first j the last counts.
LastItems(items, j) == {items[i] : i \in {i \in 1 .. j : \A l \in i + 1 .. j : items[l].key # items[i].key}}

\* An item outdoes the earlier ones of its key.
LEMMA OneMoreItem ==
    ASSUME NEW items, NEW j \in Nat
    PROVE  LastItems(items, j + 1) = {x \in LastItems(items, j) : x.key # items[j + 1].key} \cup {items[j + 1]}
  <1> DEFINE new == items[j + 1]
             A == {i \in 1 .. j : \A l \in i + 1 .. j : items[l].key # items[i].key}
             B == {i \in 1 .. j + 1 : \A l \in i + 1 .. j + 1 : items[l].key # items[i].key}
  <1>1. j + 1 \in B
    OBVIOUS
  <1>2. ASSUME NEW i \in 1 .. j
        PROVE  i \in B <=> i \in A /\ items[i].key # new.key
    <2>1. \A l : l \in i + 1 .. j + 1 <=> (l \in i + 1 .. j \/ l = j + 1)
      OBVIOUS
    <2>2. i \in 1 .. j + 1
      OBVIOUS
    <2>3. QED
      BY <2>1, <2>2
  <1>3. \A i \in 1 .. j + 1 : i \in 1 .. j \/ i = j + 1
    OBVIOUS
  <1>4. B = {i \in A : items[i].key # new.key} \cup {j + 1}
    <2>1. \A i \in B : i \in 1 .. j + 1
      OBVIOUS
    <2>2. \A i \in A : i \in 1 .. j
      OBVIOUS
    <2> HIDE DEF A, B
    <2>3. QED
      BY <1>1, <1>2, <1>3, <2>1, <2>2
  <1>5. LastItems(items, j) = {items[i] : i \in A} /\ LastItems(items, j + 1) = {items[i] : i \in B}
    BY DEF LastItems
  <1> HIDE DEF A, B, new
  <1>6. {items[i] : i \in B} = {x \in {items[i] : i \in A} : x.key # new.key} \cup {items[j + 1]}
    BY <1>4
  <1>7. QED
    BY <1>5, <1>6 DEF new

\* Before the first item there is none.
LEMMA NoItemYet ==
    ASSUME NEW items
    PROVE  LastItems(items, 0) = {}
  BY DEF LastItems

\* All items taken, those left are the ones the book promises.
LEMMA AllItems ==
    ASSUME NEW recipe \in Recipes
    PROVE  /\ Len(recipe.items) \in Nat
           /\ DOMAIN recipe.items = 1 .. Len(recipe.items)
           /\ \A i \in 1 .. Len(recipe.items) : recipe.items[i] \in Products
           /\ LastItems(recipe.items, Len(recipe.items)) = Book!Ingredients(recipe)
  <1>1. recipe.items \in Seq(Products)
    BY DEF Recipes
  <1>2. /\ Len(recipe.items) \in Nat
        /\ DOMAIN recipe.items = 1 .. Len(recipe.items)
        /\ \A i \in 1 .. Len(recipe.items) : recipe.items[i] \in Products
    BY <1>1, LenProperties, ElementOfSeq
  <1>3. QED
    BY <1>2 DEF LastItems, Book!Ingredients
-----------------------------------------------------------------------------
(* A batch of recipes.                                                     *)

\* The first k recipes are merged, whatever happened to those named in but.
MergedRecipes(new, old, args, k, but) ==
    /\ {x.name : x \in new} = {x.name : x \in old} \cup {args[i].name : i \in 1 .. k} \cup but
    /\ \A x \in new : x.name \notin but =>
           \A i \in 1 .. k : args[i].name = x.name /\ (\A l \in 1 .. k : l > i => args[l].name # args[i].name)
                                 => x.items = Book!Ingredients(args[i])
    /\ \A x \in new : x.name \notin but /\ (\A i \in 1 .. k : args[i].name # x.name) => x \in old
    /\ \A x \in old : \E y \in new : y.id = x.id /\ y.name = x.name

\* Only the recipe of that name may have changed, or come into being.
Touches(new, old, name) ==
    /\ {x.name : x \in new} = {x.name : x \in old} \cup {name}
    /\ \A x \in new : x.name # name => x \in old
    /\ \A x \in old : \E y \in new : y.id = x.id /\ y.name = x.name

\* Before its first recipe a batch has changed nothing.
LEMMA NoRecipeYet ==
    ASSUME NEW old, NEW args
    PROVE  MergedRecipes(old, old, args, 0, {})
  BY DEF MergedRecipes

\* A statement of a round may touch the recipe of that round only.
LEMMA Touched ==
    ASSUME NEW old, NEW new, NEW newer, NEW args, NEW k, NEW name, NEW but, but \subseteq {name},
           MergedRecipes(new, old, args, k, but), Touches(newer, new, name)
    PROVE  MergedRecipes(newer, old, args, k, {name})
  <1>1. {x.name : x \in newer} = {x.name : x \in old} \cup {args[i].name : i \in 1 .. k} \cup {name}
    BY DEF MergedRecipes, Touches
  <1>2. \A x \in newer : x.name \notin {name} => x \in new /\ x.name \notin but
    BY DEF Touches
  <1>3. \A x \in old : \E y \in newer : y.id = x.id /\ y.name = x.name
    <2>1. TAKE x \in old
    <2>2. PICK y \in new : y.id = x.id /\ y.name = x.name
      BY DEF MergedRecipes
    <2>3. QED
      BY <2>2 DEF Touches
  <1>4. QED
    BY <1>1, <1>2, <1>3 DEF MergedRecipes

\* A round that leaves its recipe as given has merged it.
LEMMA OneMoreRecipe ==
    ASSUME NEW old, NEW new, NEW args, NEW k \in Nat, NEW a, a = args[k + 1],
           MergedRecipes(new, old, args, k, {a.name}),
           \A x \in new : x.name = a.name => x.items = Book!Ingredients(a)
    PROVE  MergedRecipes(new, old, args, k + 1, {})
  <1>1. \A i \in 1 .. k + 1 : i \in 1 .. k \/ i = k + 1
    OBVIOUS
  <1>2. \A i \in 1 .. k : i \in 1 .. k + 1 /\ i < k + 1
    OBVIOUS
  <1>3. k + 1 \in 1 .. k + 1
    OBVIOUS
  <1>4. {x.name : x \in new} = {x.name : x \in old} \cup {args[i].name : i \in 1 .. k + 1} \cup {}
    <2>1. {args[i].name : i \in 1 .. k + 1} = {args[i].name : i \in 1 .. k} \cup {a.name}
      BY <1>1, <1>2, <1>3
    <2>2. {x.name : x \in new} = {x.name : x \in old} \cup {args[i].name : i \in 1 .. k} \cup {a.name}
      BY DEF MergedRecipes
    <2>3. QED
      BY <2>1, <2>2
  <1>5. ASSUME NEW x \in new, NEW i \in 1 .. k + 1, args[i].name = x.name,
               \A l \in 1 .. k + 1 : l > i => args[l].name # args[i].name
        PROVE  x.items = Book!Ingredients(args[i])
    <2>1. CASE x.name = a.name
      <3>1. i = k + 1
        BY <1>1, <1>2, <1>3, <1>5, <2>1
      <3>2. QED
        BY <2>1, <3>1
    <2>2. CASE x.name # a.name
      <3>1. i \in 1 .. k /\ x.name \notin {a.name}
        BY <1>1, <1>5, <2>2
      <3>2. \A l \in 1 .. k : l > i => args[l].name # args[i].name
        BY <1>2, <1>5
      <3>3. QED
        BY <1>5, <3>1, <3>2 DEF MergedRecipes
    <2>3. QED
      BY <2>1, <2>2
  <1>6. ASSUME NEW x \in new, \A i \in 1 .. k + 1 : args[i].name # x.name
        PROVE  x \in old
    <2>1. x.name \notin {a.name} /\ \A i \in 1 .. k : args[i].name # x.name
      BY <1>2, <1>3, <1>6
    <2>2. QED
      BY <2>1 DEF MergedRecipes
  <1>7. \A x \in old : \E y \in new : y.id = x.id /\ y.name = x.name
    BY DEF MergedRecipes
  <1>8. QED
    BY <1>4, <1>5, <1>6, <1>7 DEF MergedRecipes

\* A recipe whose ingredients change is the only one that is touched.
LEMMA ItemsTouch ==
    ASSUME NEW d, SchemaHolds(d), NEW r \in d.recipes, NEW e, OnlyItemsOf(d, e, r.id)
    PROVE  Touches(Documents(e), Documents(d), r.name)
  <1>1. \A s \in d.recipes : Doc(e, s) \in Documents(e) /\ Doc(d, s) \in Documents(d)
    BY DEF Documents, Doc, OnlyItemsOf
  <1>2. \A x \in Documents(e) : \E s \in d.recipes : x = Doc(e, s)
    BY DEF Documents, Doc, OnlyItemsOf
  <1>3. \A x \in Documents(d) : \E s \in d.recipes : x = Doc(d, s)
    BY DEF Documents, Doc
  <1>4. \A s \in d.recipes : s.name # r.name => Doc(e, s) = Doc(d, s)
    BY DEF OnlyItemsOf, SchemaHolds, Doc
  <1>5. \A s \in d.recipes : /\ Doc(e, s).id = s.id /\ Doc(e, s).name = s.name
                             /\ Doc(d, s).id = s.id /\ Doc(d, s).name = s.name
    BY DEF Doc
  <1>6. {x.name : x \in Documents(e)} = {x.name : x \in Documents(d)} \cup {r.name}
    BY <1>1, <1>2, <1>3, <1>5
  <1>7. \A x \in Documents(e) : x.name # r.name => x \in Documents(d)
    BY <1>1, <1>2, <1>4, <1>5
  <1>8. \A x \in Documents(d) : \E y \in Documents(e) : y.id = x.id /\ y.name = x.name
    BY <1>1, <1>3, <1>5
  <1>9. QED
    BY <1>6, <1>7, <1>8 DEF Touches

\* INSERT INTO recipes.
LEMMA AddedRecipe ==
    ASSUME NEW d, Sound(d), NEW name, NEW e, e = AddRecipe(d, name)
    PROVE  /\ e.products = d.products /\ e.ingredients = d.ingredients
           /\ e.recipes = d.recipes \cup {[id |-> NextId(d.recipes, d.recipeSeq), name |-> name]}
           /\ ~HasRecipe(d, NextId(d.recipes, d.recipeSeq))
  <1> DEFINE n == d.recipeSeq + 1
             new == [id |-> n, name |-> name]
             rs == d.recipes \cup {new}
  <1>1. d.recipeSeq \in Nat /\ n \in Nat /\ d.recipeSeq < n /\ \A r \in d.recipes : r.id # n
    BY DEF Sound, Rows, SchemaHolds
  <1>2. NextId(d.recipes, d.recipeSeq) = n
    BY DEF NextId
  <1>3. e = [d EXCEPT !.recipes = rs, !.recipeSeq = n]
    <2>1. AddRecipe(d, name) = [d EXCEPT !.recipes = rs, !.recipeSeq = n]
      BY <1>1 DEF AddRecipe, NextId
    <2>2. QED
      BY <2>1
  <1>4. e.products = d.products /\ e.ingredients = d.ingredients /\ e.recipes = rs
    <2> HIDE DEF rs, n
    <2>1. QED
      BY <1>3 DEF Rows, Sound
  <1>5. QED
    BY <1>1, <1>2, <1>4 DEF HasRecipe

\* INSERT OR IGNORE INTO recipes.
LEMMA InsertedRecipe ==
    ASSUME NEW d, Sound(d), NEW name, NEW e \in InsertRecipeIfAbsent(d, name)
    PROVE  e.products = d.products /\ e.ingredients = d.ingredients /\ Touches(Documents(e), Documents(d), name)
  <1>1. CASE NameTaken(d, name)
    <2>1. PICK n : e = [d EXCEPT !.recipeSeq = n]
      BY <1>1 DEF InsertRecipeIfAbsent
    <2>2. e.products = d.products /\ e.ingredients = d.ingredients /\ e.recipes = d.recipes
      BY <2>1 DEF Rows, Sound
    <2>3. Documents(e) = Documents(d)
      BY <2>2, SameDocuments
    <2>4. \E x \in Documents(d) : x.name = name
      <3>1. PICK r \in d.recipes : r.name = name
        BY <1>1 DEF NameTaken
      <3>2. Doc(d, r) \in Documents(d) /\ Doc(d, r).name = name
        BY <3>1 DEF Documents, Doc
      <3>3. QED
        BY <3>2
    <2>5. QED
      BY <2>2, <2>3, <2>4 DEF Touches
  <1>2. CASE ~NameTaken(d, name)
    <2> DEFINE new == [id |-> NextId(d.recipes, d.recipeSeq), name |-> name]
    <2>1. e.products = d.products /\ e.ingredients = d.ingredients /\ e.recipes = d.recipes \cup {new}
      BY <1>2, AddedRecipe DEF InsertRecipeIfAbsent
    <2>2. new.name = name
      OBVIOUS
    <2> HIDE DEF new
    <2>3. \A r : Doc(e, r) = Doc(d, r)
      BY <2>1 DEF Doc, ItemsOf
    <2>4. Documents(e) = Documents(d) \cup {Doc(d, new)}
      BY <2>1, <2>3, DocumentsAre DEF Docs
    <2>5. Doc(d, new).name = name
      BY <2>2 DEF Doc
    <2>6. QED
      BY <2>1, <2>4, <2>5 DEF Touches
  <1>3. QED
    BY <1>1, <1>2

\* One recipe was added or renamed, and its ingredients may have changed.
Made(d, old, id, name) ==
    /\ d.products = old.products
    /\ d.recipes = {r \in old.recipes : r.id # id} \cup {[id |-> id, name |-> name]}
    /\ \A r \in old.recipes : r.id # id => ItemsOf(d, r.id) = ItemsOf(old, r.id)

\* A recipe that was inserted is made, under an id nobody had.
LEMMA AddedIsMade ==
    ASSUME NEW d, Sound(d), NEW name, NEW e, e = AddRecipe(d, name), NEW id, id = NextId(d.recipes, d.recipeSeq)
    PROVE  Made(e, d, id, name) /\ ~HasRecipe(d, id)
  <1>1. /\ e.products = d.products /\ e.ingredients = d.ingredients
        /\ e.recipes = d.recipes \cup {[id |-> id, name |-> name]}
        /\ ~HasRecipe(d, id)
    BY AddedRecipe
  <1>2. {r \in d.recipes : r.id # id} = d.recipes
    BY <1>1 DEF HasRecipe
  <1>3. QED
    BY <1>1, <1>2 DEF Made, ItemsOf

\* A recipe that was renamed is made.
LEMMA RenamedIsMade ==
    ASSUME NEW d, Sound(d), NEW id, HasRecipe(d, id), NEW name, NEW e, e = RenameRecipe(d, id, name)
    PROVE  Made(e, d, id, name)
  <1> DEFINE new == [id |-> id, name |-> name]
             rs == {IF r.id = id THEN [r EXCEPT !.name = name] ELSE r : r \in d.recipes}
  <1>1. e = [d EXCEPT !.recipes = rs]
    BY DEF RenameRecipe
  <1>2. e.products = d.products /\ e.ingredients = d.ingredients /\ e.recipes = rs
    <2> HIDE DEF rs
    <2>1. QED
      BY <1>1 DEF Rows, Sound
  <1>3. rs = {r \in d.recipes : r.id # id} \cup {new}
    <2>1. \A r \in d.recipes : r.id = id => [r EXCEPT !.name = name] = new
      <3>1. TAKE r \in d.recipes
      <3>2. r \in [id : Int, name : Int]
        BY DEF Sound, Rows
      <3>3. QED
        BY <3>2
    <2>2. \E r \in d.recipes : r.id = id
      BY DEF HasRecipe
    <2> HIDE DEF new
    <2>3. QED
      BY <2>1, <2>2
  <1>4. QED
    BY <1>2, <1>3 DEF Made, ItemsOf

\* Changing the ingredients of a recipe leaves it made.
LEMMA StaysMade ==
    ASSUME NEW d, NEW old, NEW id, NEW name, Made(d, old, id, name), NEW e, OnlyItemsOf(d, e, id)
    PROVE  Made(e, old, id, name)
  BY DEF Made, OnlyItemsOf

\* What that amounts to in the book.
LEMMA MadeDocuments ==
    ASSUME NEW d, NEW old, NEW id, NEW name, Made(d, old, id, name)
    PROVE  Documents(d) = {x \in Documents(old) : x.id # id}
                              \cup {[id |-> id, name |-> name, items |-> ItemsOf(d, id)]}
  <1> DEFINE new == [id |-> id, name |-> name]
             R == {r \in old.recipes : r.id # id}
  <1>1. Documents(d) = {Doc(d, r) : r \in R \cup {new}}
    BY DEF Made, Documents, Doc
  <1>2. \A r \in R : Doc(d, r) = Doc(old, r)
    BY DEF Made, Doc
  <1>3. {x \in Documents(old) : x.id # id} = {Doc(old, r) : r \in R}
    BY DEF Documents, Doc
  <1>4. Doc(d, new) = [id |-> id, name |-> name, items |-> ItemsOf(d, id)]
    BY DEF Doc
  <1> HIDE DEF R, new
  <1>5. QED
    BY <1>1, <1>2, <1>3, <1>4

\* DELETE FROM recipes.
LEMMA DeletedRecipe ==
    ASSUME NEW d, Sound(d), NEW id, NEW e, e = DeleteRecipeRow(d, id)
    PROVE  e.products = d.products /\ Documents(e) = {x \in Documents(d) : x.id # id}
  <1> DEFINE rs == {r \in d.recipes : r.id # id}
             is == {i \in d.ingredients : i.recipe # id}
  <1>1. e = [d EXCEPT !.recipes = rs, !.ingredients = is]
    BY DEF DeleteRecipeRow
  <1>2. e.products = d.products /\ e.ingredients = is /\ e.recipes = rs
    <2> HIDE DEF rs, is
    <2>1. QED
      BY <1>1 DEF Rows, Sound
  <1>3. \A r \in rs : {i \in is : i.recipe = r.id} = {i \in d.ingredients : i.recipe = r.id}
    OBVIOUS
  <1> HIDE DEF is
  <1>4. \A r \in rs : Doc(e, r) = Doc(d, r)
    BY <1>2, <1>3 DEF Doc, ItemsOf
  <1>5. Documents(e) = {Doc(d, r) : r \in rs}
    BY <1>2, <1>4, DocumentsAre DEF Docs
  <1>6. QED
    BY <1>2, <1>5 DEF Documents, Doc

\* No statement makes the ingredients infinite.
LEMMA StaysFinite ==
    ASSUME Sound(db), NEW stmt, NEW arg, NEW e \in Written(stmt, arg), stmt \in Writing,
           stmt = "insert_product" => arg \in Products
    PROVE  IsFiniteSet(e.ingredients)
  <1>1. IsFiniteSet(db.ingredients) /\ db = [products |-> db.products, recipes |-> db.recipes,
                                             ingredients |-> db.ingredients, productSeq |-> db.productSeq,
                                             recipeSeq |-> db.recipeSeq]
    BY DEF Sound, Rows
  <1>2. \A n : IsFiniteSet({i \in db.ingredients : i.recipe # n})
    BY <1>1, FS_Subset
  <1>3. CASE stmt = "insert_product"
    BY <1>1, <1>3, InsertedProduct DEF Written
  <1>4. CASE stmt = "create_product"
    BY <1>1, <1>4, AddedProduct DEF Written
  <1>5. CASE stmt = "update_product_by_id"
    BY <1>1, <1>5 DEF Written, UpdateProductRow
  <1>6. CASE stmt = "delete_product_by_id"
    BY <1>1, <1>6, DeletedProduct DEF Written
  <1>7. CASE stmt = "insert_recipe_if_absent"
    BY <1>1, <1>7, InsertedRecipe DEF Written
  <1>8. CASE stmt = "create_recipe"
    BY <1>1, <1>8, AddedRecipe DEF Written
  <1>9. CASE stmt = "update_recipe_name_by_id"
    BY <1>1, <1>9 DEF Written, RenameRecipe
  <1>10. CASE stmt = "delete_recipe_ingredients_by_recipe_id"
    BY <1>1, <1>2, <1>10 DEF Written, DeleteIngredients
  <1>11. CASE stmt = "insert_recipe_ingredient"
    <2> DEFINE is == {i \in db.ingredients : i.recipe # rowid \/ i.key # arg.key}
    <2>1. IsFiniteSet(is \cup {[recipe |-> rowid, key |-> arg.key, amount |-> arg.amount]})
      <3>1. is \in SUBSET db.ingredients
        OBVIOUS
      <3> HIDE DEF is
      <3>2. IsFiniteSet(is)
        BY <1>1, <3>1, FS_Subset
      <3>3. QED
        BY <3>2, FS_AddElement
    <2>2. QED
      BY <1>1, <1>11, <2>1 DEF Written, PutIngredient
  <1>12. CASE stmt = "delete_recipe_by_id"
    BY <1>1, <1>2, <1>12 DEF Written, DeleteRecipeRow
  <1>13. QED
    BY <1>3, <1>4, <1>5, <1>6, <1>7, <1>8, <1>9, <1>10, <1>11, <1>12 DEF Writing
-----------------------------------------------------------------------------
(* Where a call stands.                                                    *)

\* All but the first p statements of the list are yet to be executed.
At(t, list, p) ==
    /\ p \in 0 .. Len(list)
    /\ Len(t) = Len(list) - p
    /\ \A i \in 1 .. Len(t) : t[i] = list[p + i]

\* So are all but the first u of a round, before the rest of the list.
InRound(t, round, u, list, p) ==
    /\ u \in 0 .. Len(round) /\ p \in 0 .. Len(list)
    /\ Len(t) = (Len(round) - u) + (Len(list) - p)
    /\ \A i \in 1 .. Len(round) - u : t[i] = round[u + i]
    /\ \A i \in 1 .. Len(list) - p : t[Len(round) - u + i] = list[p + i]

\* No statement has been executed.
Fresh ==
    /\ At(todo, Statements(call), 0)
    /\ saved = Null /\ ~applied /\ value = Null
    /\ rowid = call.id

\* All have been, and the call has what it will answer with.
Answered ==
    /\ todo = <<>>
    /\ saved = Null
    /\ applied \/ call.op \in Book!Reads
    /\ Book!Answers(call.op, call.id, call.arg, value)

\* A transaction is open.
Open == saved # Null /\ ~applied /\ value = Null

\* What is in the transaction of a product batch, and where.
Inserting(list, args) ==
    \E k \in 0 .. Len(args) :
        /\ At(todo, list, k + 1)
        /\ Open
        /\ db.recipes = saved.recipes /\ db.ingredients = saved.ingredients
        /\ MergedProducts(db.products, saved.products, args, k)

\* The recipe a call creates or updates is in place.
Put ==
    /\ Made(db, saved, rowid, call.arg.name)
    /\ IF call.op = "CreateRecipe" THEN ~HasRecipe(saved, rowid) ELSE HasRecipe(saved, rowid) /\ rowid = call.id

Recording(list, recipe) ==
    /\ Open
    /\ \/ At(todo, list, 1) /\ db = saved /\ rowid = call.id
       \/ At(todo, list, 2) /\ Put
       \/ \E j \in 0 .. Len(recipe.items) :
              /\ At(todo, list, j + 3)
              /\ Put
              /\ ItemsOf(db, rowid) = LastItems(recipe.items, j)

\* The same for a batch of recipes: between two rounds, and within one.
BetweenRounds(list, args) ==
    \E k \in 0 .. Len(args) :
        /\ At(todo, list, k + 1)
        /\ Open
        /\ db.products = saved.products
        /\ MergedRecipes(Documents(db), Documents(saved), args, k, {})

WithinRound(list, args) ==
    \E k \in 0 .. Len(args) - 1 :
        LET recipe == args[k + 1]
            round == UpsertRecipe(recipe)
        IN \E u \in 0 .. Len(recipe.items) + 2 :
               /\ InRound(todo, round, u, list, k + 2)
               /\ Open
               /\ db.products = saved.products
               /\ MergedRecipes(Documents(db), Documents(saved), args, k, IF u = 0 THEN {} ELSE {recipe.name})
               /\ u >= 2 => \E r \in db.recipes : r.id = rowid /\ r.name = recipe.name
               /\ u >= 3 => ItemsOf(db, rowid) = LastItems(recipe.items, u - 3)

\* A product or a recipe was created and is read back.
ReadingBack ==
    /\ At(todo, Statements(call), Len(Statements(call)) - 1)
    /\ saved = Null /\ applied /\ value = Null
    /\ \/ /\ call.op = "CreateProduct"
          /\ \E p \in db.products : p.id = rowid /\ Book!ProductIs(p, call.arg)
       \/ /\ call.op = "CreateRecipe"
          /\ \E x \in Documents(db) : x.id = rowid /\ Book!RecipeIs(x, call.arg)

Batch == IF call.op = "InsertRecipe" THEN <<call.arg>> ELSE call.arg

Midway ==
    \/ ReadingBack
    \/ call.op = "InsertProducts" /\ Inserting(Statements(call), call.arg)
    \/ call.op \in {"CreateRecipe", "UpdateRecipe"} /\ Recording(Statements(call), call.arg)
    \/ call.op \in {"InsertRecipe", "InsertRecipes"} /\ BetweenRounds(Statements(call), Batch)
    \/ call.op \in {"InsertRecipe", "InsertRecipes"} /\ WithinRound(Statements(call), Batch)

Underway ==
    /\ IsFiniteSet(db.ingredients) /\ IsFiniteSet(Durable.ingredients)
    /\ call # NoCall =>
           IF Accepted(call) THEN Fresh \/ Answered \/ Midway
                             ELSE todo = <<>> /\ saved = Null /\ ~applied
-----------------------------------------------------------------------------
(* Lists of statements.                                                    *)

\* The next statement, and what is left after it.
LEMMA AtTail ==
    ASSUME NEW t, NEW list, NEW p, IsList(t), IsList(list), At(t, list, p), p < Len(list) \/ t # <<>>
    PROVE  /\ t # <<>> /\ p + 1 \in 1 .. Len(list) /\ p \in Nat
           /\ Head(t) = list[p + 1]
           /\ At(Tail(t), list, p + 1)
  <1>1. Len(t) \in Nat /\ Len(list) \in Nat /\ p \in 0 .. Len(list) /\ Len(t) = Len(list) - p
    BY DEF At, IsList
  <1>2. t # <<>>
    <2>1. t = <<>> => Len(t) = 0
      OBVIOUS
    <2>2. QED
      BY <1>1, <2>1
  <1>3. /\ Len(t) \in Nat \ {0} /\ Len(Tail(t)) = Len(t) - 1
        /\ Head(t) = t[1] /\ \A i \in 1 .. Len(t) - 1 : Tail(t)[i] = t[i + 1]
    BY <1>2, Rest
  <1>4. \A i \in 1 .. Len(t) : t[i] = list[p + i]
    BY DEF At
  <1>5. \A i \in 1 .. Len(t) - 1 : Tail(t)[i] = list[(p + 1) + i]
    <2>1. TAKE i \in 1 .. Len(t) - 1
    <2>2. i + 1 \in 1 .. Len(t) /\ p + (i + 1) = (p + 1) + i
      BY <1>1
    <2>3. Tail(t)[i] = t[i + 1]
      BY <1>3
    <2>4. t[i + 1] = list[p + (i + 1)]
      BY <1>4, <2>2
    <2>5. QED
      BY <2>2, <2>3, <2>4
  <1>6. t[1] = list[p + 1]
    BY <1>3, <1>4
  <1>7. p + 1 \in 1 .. Len(list) /\ p \in Nat /\ p + 1 \in 0 .. Len(list) /\ Len(t) - 1 = Len(list) - (p + 1)
    BY <1>1, <1>3
  <1>8. At(Tail(t), list, p + 1)
    BY <1>3, <1>5, <1>7 DEF At
  <1>9. QED
    BY <1>2, <1>3, <1>6, <1>7, <1>8

\* After the last statement nothing is left.
LEMMA AtEnd ==
    ASSUME NEW t, NEW list, IsList(t), IsList(list), At(t, list, Len(list))
    PROVE  t = <<>>
  <1>1. Len(t) = 0 /\ t = [i \in 1 .. Len(t) |-> t[i]]
    BY DEF At, IsList
  <1>2. t = [i \in 1 .. 0 |-> t[i]]
    BY <1>1
  <1>3. QED
    BY <1>2

\* At the beginning everything is left.
LEMMA AtStart ==
    ASSUME NEW list, IsList(list)
    PROVE  At(list, list, 0)
  BY DEF At, IsList

\* The next statement of a round, and what is left after it.
LEMMA RoundTail ==
    ASSUME NEW t, NEW round, NEW u, NEW list, NEW p, IsList(t), IsList(round), IsList(list),
           InRound(t, round, u, list, p), u < Len(round)
    PROVE  /\ t # <<>> /\ u + 1 \in 1 .. Len(round)
           /\ Head(t) = round[u + 1]
           /\ InRound(Tail(t), round, u + 1, list, p)
  <1>1. /\ Len(t) \in Nat /\ Len(list) \in Nat /\ Len(round) \in Nat
        /\ p \in 0 .. Len(list) /\ u \in 0 .. Len(round)
        /\ Len(t) = (Len(round) - u) + (Len(list) - p)
    BY DEF InRound, IsList
  <1>2. t # <<>>
    <2>1. t = <<>> => Len(t) = 0
      OBVIOUS
    <2>2. QED
      BY <1>1, <2>1
  <1>3. /\ Len(t) \in Nat \ {0} /\ Len(Tail(t)) = Len(t) - 1
        /\ Head(t) = t[1] /\ \A i \in 1 .. Len(t) - 1 : Tail(t)[i] = t[i + 1]
    BY <1>2, Rest
  <1>4. /\ \A i \in 1 .. Len(round) - u : t[i] = round[u + i]
        /\ \A i \in 1 .. Len(list) - p : t[(Len(round) - u) + i] = list[p + i]
    BY DEF InRound
  <1>5. \A i \in 1 .. Len(round) - (u + 1) : Tail(t)[i] = round[(u + 1) + i]
    <2>1. TAKE i \in 1 .. Len(round) - (u + 1)
    <2>2. /\ i + 1 \in 1 .. Len(round) - u /\ u + (i + 1) = (u + 1) + i /\ i \in 1 .. Len(t) - 1
      BY <1>1
    <2>3. Tail(t)[i] = t[i + 1]
      BY <1>3, <2>2
    <2>4. t[i + 1] = round[u + (i + 1)]
      BY <1>4, <2>2
    <2>5. QED
      BY <2>2, <2>3, <2>4
  <1>6. \A i \in 1 .. Len(list) - p : Tail(t)[(Len(round) - (u + 1)) + i] = list[p + i]
    <2>1. TAKE i \in 1 .. Len(list) - p
    <2> DEFINE k == (Len(round) - (u + 1)) + i
    <2>2. k \in 1 .. Len(t) - 1 /\ k + 1 = (Len(round) - u) + i
      BY <1>1
    <2>3. Tail(t)[k] = t[k + 1]
      BY <1>3, <2>2
    <2>4. t[(Len(round) - u) + i] = list[p + i]
      BY <1>4
    <2>5. QED
      BY <2>2, <2>3, <2>4
  <1>7. t[1] = round[u + 1]
    BY <1>1, <1>4
  <1>8. u + 1 \in 1 .. Len(round) /\ u + 1 \in 0 .. Len(round) /\ Len(t) - 1 = (Len(round) - (u + 1)) + (Len(list) - p)
    BY <1>1
  <1>9. InRound(Tail(t), round, u + 1, list, p)
    BY <1>1, <1>3, <1>5, <1>6, <1>8 DEF InRound
  <1>10. QED
    BY <1>2, <1>3, <1>7, <1>8, <1>9

\* After its last statement a round is gone from the list.
LEMMA RoundEnd ==
    ASSUME NEW t, NEW round, NEW list, NEW p, IsList(round), IsList(list),
           InRound(t, round, Len(round), list, p)
    PROVE  At(t, list, p)
  <1>1. /\ Len(list) \in Nat /\ Len(round) \in Nat /\ p \in 0 .. Len(list)
        /\ Len(t) = (Len(round) - Len(round)) + (Len(list) - p)
        /\ \A i \in 1 .. Len(list) - p : t[(Len(round) - Len(round)) + i] = list[p + i]
    BY DEF InRound, IsList
  <1>2. Len(round) - Len(round) = 0 /\ Len(t) = Len(list) - p
    BY <1>1
  <1>3. \A i \in 1 .. Len(t) : t[i] = list[p + i]
    <2>1. TAKE i \in 1 .. Len(t)
    <2>2. 0 + i = i
      BY <1>1, <1>2
    <2>3. QED
      BY <1>1, <1>2, <2>2
  <1>4. QED
    BY <1>1, <1>2, <1>3 DEF At

\* A round takes the place of its element.
LEMMA RoundStart ==
    ASSUME NEW t, NEW round, NEW list, NEW p, IsList(t), IsList(round), IsList(list),
           At(t, list, p), p < Len(list)
    PROVE  InRound(round \o Tail(t), round, 0, list, p + 1)
  <1>1. /\ t # <<>> /\ p + 1 \in 1 .. Len(list) /\ p \in Nat
        /\ At(Tail(t), list, p + 1)
    BY AtTail
  <1>2. IsList(Tail(t))
    BY <1>1, Rest
  <1>3. PICK r, l : r = Tail(t) /\ l = round \o r
    OBVIOUS
  <1>4. /\ Len(l) = Len(round) + Len(r)
        /\ Len(round) \in Nat /\ Len(r) \in Nat
        /\ \A i \in 1 .. Len(round) + Len(r) : l[i] = IF i <= Len(round) THEN round[i] ELSE r[i - Len(round)]
    <2>1. IsList(r)
      BY <1>2, <1>3
    <2>2. QED
      BY <1>3, <2>1, Concatenated
  <1>5. Len(list) \in Nat /\ Len(r) = Len(list) - (p + 1) /\ \A i \in 1 .. Len(r) : r[i] = list[(p + 1) + i]
    BY <1>1, <1>3 DEF At, IsList
  <1>6. \A i \in 1 .. Len(round) - 0 : l[i] = round[0 + i]
    BY <1>4
  <1>7. \A i \in 1 .. Len(list) - (p + 1) : l[(Len(round) - 0) + i] = list[(p + 1) + i]
    <2>1. TAKE i \in 1 .. Len(list) - (p + 1)
    <2> DEFINE k == (Len(round) - 0) + i
    <2>2. k \in 1 .. Len(round) + Len(r) /\ ~(k <= Len(round)) /\ k - Len(round) = i /\ i \in 1 .. Len(r)
      BY <1>4, <1>5
    <2>3. l[k] = r[k - Len(round)]
      BY <1>4, <2>2
    <2>4. QED
      BY <1>5, <2>2, <2>3
  <1>8. Len(l) = (Len(round) - 0) + (Len(list) - (p + 1)) /\ 0 \in 0 .. Len(round) /\ p + 1 \in 0 .. Len(list)
    BY <1>1, <1>4, <1>5
  <1>9. QED
    BY <1>3, <1>6, <1>7, <1>8 DEF InRound

\* The lists of DBManager's methods, statement by statement.
LEMMA TransactionListed ==
    ASSUME NEW body, IsList(body)
    PROVE  LET list == InTransaction(body)
               n == Len(body)
           IN /\ IsList(list) /\ Len(list) = n + 2
              /\ list[1].stmt = "BEGIN" /\ list[n + 2].stmt = "COMMIT"
              /\ \A i \in 1 .. n : list[i + 1] = body[i]
  <1> DEFINE b == Sql("BEGIN", Null)
             c == Sql("COMMIT", Null)
             n == Len(body)
  <1>1. PICK bl, t : bl = b \o body /\ t = bl \o c
    OBVIOUS
  <1>2. /\ IsList(b) /\ IsList(c) /\ Len(b) = 1 /\ Len(c) = 1
        /\ b[1].stmt = "BEGIN" /\ c[1].stmt = "COMMIT"
    BY OneStatement
  <1> HIDE DEF b, c
  <1>3. n \in Nat
    BY DEF IsList
  <1>4. /\ IsList(bl) /\ Len(bl) = 1 + n
        /\ \A i \in 1 .. 1 + n : bl[i] = IF i <= 1 THEN b[i] ELSE body[i - 1]
    <2>1. IsList(b) /\ IsList(body) /\ bl = b \o body
      BY <1>1, <1>2
    <2>2. /\ IsList(bl) /\ Len(bl) = Len(b) + Len(body)
          /\ \A i \in 1 .. Len(b) + Len(body) : bl[i] = IF i <= Len(b) THEN b[i] ELSE body[i - Len(b)]
      BY <2>1, Concatenated
    <2>3. QED
      BY <1>2, <2>2
  <1>5. /\ IsList(t) /\ Len(t) = (1 + n) + 1
        /\ \A i \in 1 .. (1 + n) + 1 : t[i] = IF i <= 1 + n THEN bl[i] ELSE c[i - (1 + n)]
    <2>1. IsList(bl) /\ IsList(c) /\ t = bl \o c
      BY <1>1, <1>2, <1>4
    <2>2. /\ IsList(t) /\ Len(t) = Len(bl) + Len(c)
          /\ \A i \in 1 .. Len(bl) + Len(c) : t[i] = IF i <= Len(bl) THEN bl[i] ELSE c[i - Len(bl)]
      BY <2>1, Concatenated
    <2>3. QED
      BY <1>2, <1>4, <2>2
  <1> HIDE DEF n
  <1>6. t[1] = b[1]
    BY <1>3, <1>4, <1>5
  <1>7. t[n + 2] = c[1]
    BY <1>3, <1>5
  <1>8. \A i \in 1 .. n : t[i + 1] = body[i]
    <2>1. TAKE i \in 1 .. n
    <2>2. i + 1 \in 1 .. (1 + n) + 1 /\ i + 1 <= 1 + n /\ i + 1 \in 1 .. 1 + n /\ ~(i + 1 <= 1) /\ (i + 1) - 1 = i
      BY <1>3
    <2>3. t[i + 1] = bl[i + 1]
      BY <1>5, <2>2
    <2>4. bl[i + 1] = body[(i + 1) - 1]
      BY <1>4, <2>2
    <2>5. QED
      BY <2>2, <2>3, <2>4
  <1>9. InTransaction(body) = t
    BY <1>1 DEF InTransaction, b, c
  <1>10. (1 + n) + 1 = n + 2
    BY <1>3
  <1>11. QED
    BY <1>2, <1>5, <1>6, <1>7, <1>8, <1>9, <1>10 DEF n

\* One statement and then a list, a list and then one statement.
Prefixed(whole, one, rest) ==
    /\ IsList(whole) /\ Len(whole) = Len(rest) + 1
    /\ whole[1] = one[1]
    /\ \A i \in 1 .. Len(rest) : whole[i + 1] = rest[i]

Suffixed(whole, rest, one) ==
    /\ IsList(whole) /\ Len(whole) = Len(rest) + 1
    /\ whole[Len(rest) + 1] = one[1]
    /\ \A i \in 1 .. Len(rest) : whole[i] = rest[i]

\* One statement put before a list.
LEMMA ThenList ==
    ASSUME NEW one, NEW rest, IsList(one), IsList(rest), NEW whole, whole = one \o rest, Len(one) = 1
    PROVE  Prefixed(whole, one, rest)
  <1>3. Len(rest) \in Nat
    BY DEF IsList
  <1>4. /\ IsList(whole) /\ Len(whole) = 1 + Len(rest)
        /\ \A i \in 1 .. 1 + Len(rest) : whole[i] = IF i <= 1 THEN one[i] ELSE rest[i - 1]
    <2>1. /\ IsList(whole) /\ Len(whole) = Len(one) + Len(rest)
          /\ \A i \in 1 .. Len(one) + Len(rest) : whole[i] = IF i <= Len(one) THEN one[i] ELSE rest[i - Len(one)]
      BY Concatenated
    <2>2. QED
      BY <2>1
  <1>5. whole[1] = one[1]
    BY <1>3, <1>4
  <1>6. \A i \in 1 .. Len(rest) : whole[i + 1] = rest[i]
    <2>1. TAKE i \in 1 .. Len(rest)
    <2>2. i + 1 \in 1 .. 1 + Len(rest) /\ ~(i + 1 <= 1) /\ (i + 1) - 1 = i
      BY <1>3
    <2>3. QED
      BY <1>4, <2>2
  <1>7. Len(whole) = Len(rest) + 1
    BY <1>3, <1>4
  <1>8. QED
    BY <1>4, <1>5, <1>6, <1>7 DEF Prefixed

\* One statement put behind a list.
LEMMA ListThen ==
    ASSUME NEW rest, NEW one, IsList(rest), IsList(one), NEW whole, whole = rest \o one, Len(one) = 1
    PROVE  Suffixed(whole, rest, one)
  <1>3. Len(rest) \in Nat
    BY DEF IsList
  <1>4. /\ IsList(whole) /\ Len(whole) = Len(rest) + 1
        /\ \A i \in 1 .. Len(rest) + 1 : whole[i] = IF i <= Len(rest) THEN rest[i] ELSE one[i - Len(rest)]
    <2>1. /\ IsList(whole) /\ Len(whole) = Len(rest) + Len(one)
          /\ \A i \in 1 .. Len(rest) + Len(one) : whole[i] = IF i <= Len(rest) THEN rest[i] ELSE one[i - Len(rest)]
      BY Concatenated
    <2>2. QED
      BY <2>1
  <1>5. whole[Len(rest) + 1] = one[1]
    BY <1>3, <1>4
  <1>6. \A i \in 1 .. Len(rest) : whole[i] = rest[i]
    BY <1>3, <1>4
  <1>7. QED
    BY <1>4, <1>5, <1>6 DEF Suffixed

\* One statement for each element of a sequence.
LEMMA EachListed ==
    ASSUME NEW items, NEW stmt, Len(items) \in Nat, DOMAIN items = 1 .. Len(items)
    PROVE  LET list == [i \in DOMAIN items |-> [stmt |-> stmt, arg |-> items[i]]]
           IN /\ IsList(list) /\ Len(list) = Len(items)
              /\ \A i \in 1 .. Len(items) : list[i].stmt = stmt /\ list[i].arg = items[i]
  <1> DEFINE list == [i \in DOMAIN items |-> [stmt |-> stmt, arg |-> items[i]]]
             n == Len(items)
  <1>1. \A i \in 1 .. n : list[i].stmt = stmt /\ list[i].arg = items[i]
    OBVIOUS
  <1>2. list = [i \in 1 .. n |-> list[i]]
    OBVIOUS
  <1>3. n \in Nat
    OBVIOUS
  <1> HIDE DEF list, n
  <1>4. IsList(list) /\ Len(list) = n
    BY <1>2, <1>3, FunctionIsList
  <1>5. QED
    BY <1>1, <1>4 DEF list, n

\* ReplaceRecipeIngredients: the old ingredients go, the new ones come.
LEMMA ReplaceListed ==
    ASSUME NEW recipe \in Recipes
    PROVE  LET list == ReplaceRecipeIngredients(recipe)
               n == Len(recipe.items)
           IN /\ IsList(list) /\ Len(list) = n + 1 /\ n \in Nat
              /\ list[1].stmt = "delete_recipe_ingredients_by_recipe_id"
              /\ \A j \in 1 .. n : /\ list[j + 1].stmt = "insert_recipe_ingredient"
                                   /\ list[j + 1].arg = recipe.items[j]
  <1> DEFINE n == Len(recipe.items)
             each == [i \in DOMAIN recipe.items |-> [stmt |-> "insert_recipe_ingredient", arg |-> recipe.items[i]]]
             b == Sql("delete_recipe_ingredients_by_recipe_id", Null)
             list == b \o each
  <1>1. n \in Nat /\ DOMAIN recipe.items = 1 .. n
    BY AllItems
  <1>2. /\ IsList(each) /\ Len(each) = n
        /\ \A i \in 1 .. n : each[i].stmt = "insert_recipe_ingredient" /\ each[i].arg = recipe.items[i]
    BY <1>1, EachListed
  <1>a. IsList(b) /\ Len(b) = 1 /\ b[1].stmt = "delete_recipe_ingredients_by_recipe_id"
    BY OneStatement
  <1> HIDE DEF each, n, b
  <1>3. /\ IsList(list) /\ Len(list) = n + 1
        /\ list[1].stmt = "delete_recipe_ingredients_by_recipe_id"
        /\ \A i \in 1 .. n : list[i + 1] = each[i]
    <2>1. list = b \o each
      OBVIOUS
    <2> HIDE DEF list
    <2>2. /\ IsList(list) /\ Len(list) = Len(each) + 1
          /\ list[1] = b[1]
          /\ \A i \in 1 .. Len(each) : list[i + 1] = each[i]
      <3>1. IsList(b) /\ Len(b) = 1 /\ IsList(each) /\ list = b \o each
        BY <1>2, <1>a, <2>1
      <3>2. Prefixed(list, b, each)
        BY <3>1, ThenList
      <3>3. QED
        BY <3>2 DEF Prefixed
    <2>3. QED
      BY <1>2, <1>a, <2>2
  <1>4. ReplaceRecipeIngredients(recipe) = list
    BY DEF ReplaceRecipeIngredients, each, b
  <1> HIDE DEF list
  <1>5. \A j \in 1 .. n : list[j + 1].stmt = "insert_recipe_ingredient" /\ list[j + 1].arg = recipe.items[j]
    BY <1>2, <1>3
  <1>6. QED
    BY <1>1, <1>3, <1>4, <1>5 DEF n

\* What a round of InsertRecipes executes.
LEMMA UpsertListed ==
    ASSUME NEW recipe \in Recipes
    PROVE  LET list == UpsertRecipe(recipe)
               n == Len(recipe.items)
           IN /\ IsList(list) /\ Len(list) = n + 3 /\ n \in Nat
              /\ list[1].stmt = "insert_recipe_if_absent" /\ list[1].arg = recipe.name
              /\ list[2].stmt = "select_recipe_id_by_name" /\ list[2].arg = recipe.name
              /\ list[3].stmt = "delete_recipe_ingredients_by_recipe_id"
              /\ \A j \in 1 .. n : /\ list[j + 3].stmt = "insert_recipe_ingredient"
                                   /\ list[j + 3].arg = recipe.items[j]
  <1> DEFINE n == Len(recipe.items)
  <1>1. PICK a, b, ab, r, l : /\ a = Sql("insert_recipe_if_absent", recipe.name)
                              /\ b = Sql("select_recipe_id_by_name", recipe.name)
                              /\ ab = a \o b
                              /\ r = ReplaceRecipeIngredients(recipe)
                              /\ l = ab \o r
    OBVIOUS
  <1>2. /\ IsList(r) /\ Len(r) = n + 1 /\ n \in Nat
        /\ r[1].stmt = "delete_recipe_ingredients_by_recipe_id"
        /\ \A j \in 1 .. n : r[j + 1].stmt = "insert_recipe_ingredient" /\ r[j + 1].arg = recipe.items[j]
    BY <1>1, ReplaceListed
  <1> HIDE DEF n
  <1>3. IsList(b) /\ Len(b) = 1 /\ b[1].stmt = "select_recipe_id_by_name" /\ b[1].arg = recipe.name
    BY <1>1, OneStatement
  <1>4. /\ IsList(ab) /\ Len(ab) = 2
        /\ ab[1].stmt = "insert_recipe_if_absent" /\ ab[1].arg = recipe.name
        /\ ab[2].stmt = "select_recipe_id_by_name" /\ ab[2].arg = recipe.name
    <2>0. IsList(a) /\ Len(a) = 1 /\ a[1].stmt = "insert_recipe_if_absent" /\ a[1].arg = recipe.name
      BY <1>1, OneStatement
    <2>a. ab = a \o b
      BY <1>1
    <2>b. /\ IsList(ab) /\ Len(ab) = Len(b) + 1
          /\ ab[1] = a[1]
          /\ \A i \in 1 .. Len(b) : ab[i + 1] = b[i]
      <3>1. IsList(a) /\ Len(a) = 1 /\ IsList(b) /\ ab = a \o b
        BY <1>3, <2>0, <2>a
      <3>2. Prefixed(ab, a, b)
        BY <3>1, ThenList
      <3>3. QED
        BY <3>2 DEF Prefixed
    <2>1. /\ IsList(ab) /\ Len(ab) = Len(b) + 1
          /\ ab[1].stmt = "insert_recipe_if_absent" /\ ab[1].arg = recipe.name
          /\ \A i \in 1 .. Len(b) : ab[i + 1] = b[i]
      BY <2>0, <2>b
    <2>2. 1 \in 1 .. Len(b) /\ 1 + 1 = 2
      BY <1>3
    <2>3. QED
      BY <1>3, <2>1, <2>2
  <1>5. /\ IsList(l) /\ Len(l) = 2 + (n + 1)
        /\ \A i \in 1 .. 2 + (n + 1) : l[i] = IF i <= 2 THEN ab[i] ELSE r[i - 2]
    <2>1. /\ IsList(l) /\ Len(l) = Len(ab) + Len(r)
          /\ \A i \in 1 .. Len(ab) + Len(r) : l[i] = IF i <= Len(ab) THEN ab[i] ELSE r[i - Len(ab)]
      <3>1. IsList(ab) /\ IsList(r) /\ l = ab \o r
        BY <1>1, <1>2, <1>4
      <3>2. QED
        BY <3>1, Concatenated
    <2>2. QED
      BY <1>2, <1>4, <2>1
  <1>6. l[1] = ab[1] /\ l[2] = ab[2] /\ l[3] = r[1]
    BY <1>2, <1>5
  <1>7. \A j \in 1 .. n : l[j + 3] = r[j + 1]
    <2>1. TAKE j \in 1 .. n
    <2>2. j + 3 \in 1 .. 2 + (n + 1) /\ ~(j + 3 <= 2) /\ (j + 3) - 2 = j + 1
      BY <1>2
    <2>3. QED
      BY <1>5, <2>2
  <1>8. UpsertRecipe(recipe) = l
    BY <1>1 DEF UpsertRecipe
  <1>9. Len(l) = n + 3
    BY <1>2, <1>5
  <1>10. QED
    BY <1>2, <1>4, <1>5, <1>6, <1>7, <1>8, <1>9 DEF n

\* CreateRecipe and UpdateRecipe, as far as they are alike.
RecordListed(list, recipe, stmt) ==
    LET n == Len(recipe.items)
    IN /\ IsList(list) /\ n \in Nat
       /\ list[1].stmt = "BEGIN"
       /\ list[2].stmt = stmt /\ list[2].arg = recipe.name
       /\ list[3].stmt = "delete_recipe_ingredients_by_recipe_id"
       /\ \A j \in 1 .. n : list[j + 3].stmt = "insert_recipe_ingredient" /\ list[j + 3].arg = recipe.items[j]
       /\ list[n + 4].stmt = "COMMIT"

\* BEGIN, the recipe, its ingredients, COMMIT.
LEMMA RecordInTransaction ==
    ASSUME NEW recipe \in Recipes, NEW stmt
    PROVE  LET list == InTransaction(Sql(stmt, recipe.name) \o ReplaceRecipeIngredients(recipe))
           IN RecordListed(list, recipe, stmt) /\ Len(list) = Len(recipe.items) + 4
  <1> DEFINE n == Len(recipe.items)
             r == ReplaceRecipeIngredients(recipe)
             b == Sql(stmt, recipe.name)
             body == b \o r
             list == InTransaction(body)
  <1>1. /\ IsList(r) /\ Len(r) = n + 1 /\ n \in Nat
        /\ r[1].stmt = "delete_recipe_ingredients_by_recipe_id"
        /\ \A j \in 1 .. n : r[j + 1].stmt = "insert_recipe_ingredient" /\ r[j + 1].arg = recipe.items[j]
    BY ReplaceListed
  <1>a. IsList(b) /\ Len(b) = 1 /\ b[1].stmt = stmt /\ b[1].arg = recipe.name
    BY OneStatement
  <1> HIDE DEF n, r, b
  <1>2. /\ IsList(body) /\ Len(body) = (n + 1) + 1
        /\ body[1].stmt = stmt /\ body[1].arg = recipe.name
        /\ \A i \in 1 .. n + 1 : body[i + 1] = r[i]
    <2>1. body = b \o r
      OBVIOUS
    <2> HIDE DEF body
    <2>2. /\ IsList(body) /\ Len(body) = Len(r) + 1
          /\ body[1] = b[1]
          /\ \A i \in 1 .. Len(r) : body[i + 1] = r[i]
      <3>1. IsList(b) /\ Len(b) = 1 /\ IsList(r) /\ body = b \o r
        BY <1>1, <1>a, <2>1
      <3>2. Prefixed(body, b, r)
        BY <3>1, ThenList
      <3>3. QED
        BY <3>2 DEF Prefixed
    <2>3. QED
      BY <1>1, <1>a, <2>2
  <1> HIDE DEF body
  <1>3. /\ IsList(list) /\ Len(list) = ((n + 1) + 1) + 2
        /\ list[1].stmt = "BEGIN" /\ list[((n + 1) + 1) + 2].stmt = "COMMIT"
        /\ \A i \in 1 .. (n + 1) + 1 : list[i + 1] = body[i]
    BY <1>2, TransactionListed
  <1> HIDE DEF list
  <1>4. ((n + 1) + 1) + 2 = n + 4 /\ 1 \in 1 .. n + 1 /\ 2 \in 1 .. (n + 1) + 1 /\ 1 \in 1 .. (n + 1) + 1
    BY <1>1
  <1>5. list[2] = body[1] /\ list[3] = body[2] /\ body[2] = r[1]
    BY <1>2, <1>3, <1>4
  <1>6. \A j \in 1 .. n : list[j + 3] = r[j + 1]
    <2>1. TAKE j \in 1 .. n
    <2>2. j + 2 \in 1 .. (n + 1) + 1 /\ (j + 2) + 1 = j + 3 /\ j + 1 \in 1 .. n + 1 /\ (j + 1) + 1 = j + 2
      BY <1>1
    <2>3. list[(j + 2) + 1] = body[j + 2] /\ body[(j + 1) + 1] = r[j + 1]
      BY <1>2, <1>3, <2>2
    <2>4. QED
      BY <2>2, <2>3
  <1>7. RecordListed(list, recipe, stmt)
    BY <1>1, <1>2, <1>3, <1>4, <1>5, <1>6 DEF RecordListed, n
  <1>8. QED
    BY <1>3, <1>4, <1>7 DEF list, body, r, n, b

\* CreateRecipe reads the recipe back after its COMMIT.
LEMMA CreateListed ==
    ASSUME NEW recipe \in Recipes
    PROVE  LET list == CreateRecipe(recipe)
               n == Len(recipe.items)
           IN /\ RecordListed(list, recipe, "create_recipe")
              /\ Len(list) = n + 5
              /\ list[n + 5].stmt = "select_recipe_by_id_with_ingredients"
  <1> DEFINE n == Len(recipe.items)
             front == InTransaction(Sql("create_recipe", recipe.name) \o ReplaceRecipeIngredients(recipe))
             b == Sql("select_recipe_by_id_with_ingredients", Null)
             list == front \o b
  <1>1. RecordListed(front, recipe, "create_recipe") /\ Len(front) = n + 4
    BY RecordInTransaction
  <1>2. CreateRecipe(recipe) = list
    BY DEF CreateRecipe
  <1> HIDE DEF front
  <1>3. IsList(front) /\ n \in Nat
    BY <1>1 DEF RecordListed
  <1>a. IsList(b) /\ Len(b) = 1 /\ b[1].stmt = "select_recipe_by_id_with_ingredients"
    BY OneStatement
  <1> HIDE DEF b
  <1>4. /\ IsList(list) /\ Len(list) = Len(front) + 1
        /\ list[Len(front) + 1].stmt = "select_recipe_by_id_with_ingredients"
        /\ \A i \in 1 .. Len(front) : list[i] = front[i]
    <2>1. list = front \o b
      OBVIOUS
    <2> HIDE DEF list
    <2>2. /\ IsList(list) /\ Len(list) = Len(front) + 1
          /\ list[Len(front) + 1] = b[1]
          /\ \A i \in 1 .. Len(front) : list[i] = front[i]
      <3>1. IsList(b) /\ Len(b) = 1 /\ IsList(front) /\ list = front \o b
        BY <1>3, <1>a, <2>1
      <3>2. Suffixed(list, front, b)
        BY <3>1, ListThen
      <3>3. QED
        BY <3>2 DEF Suffixed
    <2>3. QED
      BY <1>a, <2>2
  <1> HIDE DEF list
  <1>5. (n + 4) + 1 = n + 5 /\ {1, 2, 3, n + 4} \subseteq 1 .. n + 4 /\ \A j \in 1 .. n : j + 3 \in 1 .. n + 4
    BY <1>3
  <1>6. \A i \in 1 .. n + 4 : list[i] = front[i]
    BY <1>1, <1>4
  <1>7. RecordListed(list, recipe, "create_recipe")
    BY <1>1, <1>3, <1>4, <1>5, <1>6 DEF RecordListed, n
  <1>8. QED
    BY <1>1, <1>2, <1>4, <1>5, <1>7 DEF n

\* UpdateRecipe does not.
LEMMA UpdateListed ==
    ASSUME NEW recipe \in Recipes
    PROVE  /\ RecordListed(UpdateRecipe(recipe), recipe, "update_recipe_name_by_id")
           /\ Len(UpdateRecipe(recipe)) = Len(recipe.items) + 4
  BY RecordInTransaction DEF UpdateRecipe

\* InsertProducts, InsertRecipe and InsertRecipes.
BatchListed(list, args, stmt) ==
    LET m == Len(args)
    IN /\ IsList(list) /\ m \in Nat
       /\ Len(list) = m + 2
       /\ list[1].stmt = "BEGIN"
       /\ \A i \in 1 .. m : list[i + 1].stmt = stmt /\ list[i + 1].arg = args[i]
       /\ list[m + 2].stmt = "COMMIT"

\* A batch: one statement for each element, between BEGIN and COMMIT.
LEMMA EachInTransaction ==
    ASSUME NEW args, NEW stmt, Len(args) \in Nat, DOMAIN args = 1 .. Len(args)
    PROVE  BatchListed(InTransaction([i \in DOMAIN args |-> [stmt |-> stmt, arg |-> args[i]]]), args, stmt)
  <1> DEFINE m == Len(args)
             each == [i \in DOMAIN args |-> [stmt |-> stmt, arg |-> args[i]]]
             list == InTransaction(each)
  <1>1. /\ IsList(each) /\ Len(each) = m
        /\ \A i \in 1 .. m : each[i].stmt = stmt /\ each[i].arg = args[i]
    BY EachListed
  <1> HIDE DEF each
  <1>2. /\ IsList(list) /\ Len(list) = m + 2
        /\ list[1].stmt = "BEGIN" /\ list[m + 2].stmt = "COMMIT"
        /\ \A i \in 1 .. m : list[i + 1] = each[i]
    BY <1>1, TransactionListed
  <1> HIDE DEF list
  <1>3. BatchListed(list, args, stmt)
    BY <1>1, <1>2 DEF BatchListed
  <1>4. QED
    BY <1>3 DEF list, each

\* InsertRecipe is a batch of one.
LEMMA OneRound ==
    ASSUME NEW recipe
    PROVE  BatchListed(InsertRecipe(recipe), <<recipe>>, "next_recipe")
  <1> DEFINE body == Sql("next_recipe", recipe)
             list == InTransaction(body)
  <1>1. IsList(body) /\ Len(body) = 1 /\ body[1].stmt = "next_recipe" /\ body[1].arg = recipe
    BY OneStatement
  <1> HIDE DEF body
  <1>2. /\ IsList(list) /\ Len(list) = 1 + 2
        /\ list[1].stmt = "BEGIN" /\ list[1 + 2].stmt = "COMMIT"
        /\ \A i \in 1 .. 1 : list[i + 1] = body[i]
    BY <1>1, TransactionListed
  <1> HIDE DEF list
  <1>3. Len(<<recipe>>) = 1 /\ <<recipe>>[1] = recipe
    OBVIOUS
  <1>4. BatchListed(list, <<recipe>>, "next_recipe")
    BY <1>1, <1>2, <1>3 DEF BatchListed
  <1>5. QED
    BY <1>4 DEF InsertRecipe, list, body

Only(list, stmt, arg) == IsList(list) /\ Len(list) = 1 /\ list[1].stmt = stmt /\ list[1].arg = arg

\* The statements of each call.
LEMMA OnlyOne ==
    ASSUME NEW stmt, NEW arg, NEW list, list = Sql(stmt, arg)
    PROVE  Only(list, stmt, arg)
  BY OneStatement DEF Only

\* Every call executes a list of statements.
LEMMA ListOfCall ==
    ASSUME NEW c \in Requests
    PROVE  IsList(Statements(c))
  BY StatementsPlanned DEF Planned, Typed

\* The calls that execute one statement.
LEMMA SingleListed ==
    ASSUME NEW c
    PROVE  /\ c.op = "GetProduct" => Only(Statements(c), "select_product_by_id", Null)
           /\ c.op = "GetProducts" => Only(Statements(c), "select_all_products", Null)
           /\ c.op = "UpdateProduct" => Only(Statements(c), "update_product_by_id", c.arg)
           /\ c.op = "DeleteProduct" => Only(Statements(c), "delete_product_by_id", Null)
           /\ c.op = "InsertProduct" => Only(Statements(c), "insert_product", c.arg)
           /\ c.op = "GetRecipe" => Only(Statements(c), "select_recipe_by_id_with_ingredients", Null)
           /\ c.op = "GetRecipes" => Only(Statements(c), "select_all_recipes_with_ingredients", Null)
           /\ c.op = "GetCookableRecipes" =>
                  Only(Statements(c), "select_cookable_recipes_with_ingredients", Null)
           /\ c.op = "DeleteRecipe" => Only(Statements(c), "delete_recipe_by_id", Null)
  BY OnlyOne DEF Statements

\* CreateProduct inserts and reads back.
LEMMA CreateProductListed ==
    ASSUME NEW c, c.op = "CreateProduct"
    PROVE  LET list == Statements(c)
           IN /\ IsList(list) /\ Len(list) = 2
              /\ list[1].stmt = "create_product" /\ list[1].arg = c.arg
              /\ list[2].stmt = "select_product_by_id"
  <1>1. PICK a, b, list : /\ a = Sql("create_product", c.arg)
                          /\ b = Sql("select_product_by_id", Null)
                          /\ list = a \o b
    OBVIOUS
  <1>2. /\ IsList(a) /\ Len(a) = 1 /\ a[1].stmt = "create_product" /\ a[1].arg = c.arg
        /\ IsList(b) /\ Len(b) = 1 /\ b[1].stmt = "select_product_by_id"
    BY <1>1, OneStatement
  <1>3. Statements(c) = list
    BY <1>1 DEF Statements, CreateProduct
  <1>4. Prefixed(list, a, b)
    <2>1. IsList(a) /\ Len(a) = 1 /\ IsList(b) /\ list = a \o b
      BY <1>1, <1>2
    <2>2. QED
      BY <2>1, ThenList
  <1>5. /\ IsList(list) /\ Len(list) = 2 /\ list[1] = a[1] /\ list[2] = b[1]
    <2>1. 1 \in 1 .. Len(b) /\ 1 + 1 = 2
      BY <1>2
    <2>2. QED
      BY <1>2, <1>4, <2>1 DEF Prefixed
  <1>6. QED
    BY <1>2, <1>3, <1>5

\* The type of what a call brings.
LEMMA Arguments ==
    ASSUME NEW c \in Requests
    PROVE  /\ c # NoCall
           /\ c.op \in {"CreateProduct", "UpdateProduct", "InsertProduct"} => c.arg \in Products
           /\ c.op = "InsertProducts" => c.arg \in Seq(Products)
           /\ c.op \in {"CreateRecipe", "UpdateRecipe", "InsertRecipe"} => c.arg \in Recipes
           /\ c.op = "InsertRecipes" => c.arg \in Seq(Recipes)
           /\ c.op \in {"CreateProduct", "GetProduct", "GetProducts", "UpdateProduct", "DeleteProduct",
                        "InsertProduct", "InsertProducts", "CreateRecipe", "GetRecipe", "GetRecipes",
                        "GetCookableRecipes", "UpdateRecipe", "DeleteRecipe", "InsertRecipe", "InsertRecipes"}
  BY StoreAssumption

\* The statements of CreateRecipe and UpdateRecipe.
LEMMA RecipeListed ==
    ASSUME NEW c \in Requests
    PROVE  /\ c.op = "CreateRecipe" =>
                  /\ RecordListed(Statements(c), c.arg, "create_recipe")
                  /\ Len(Statements(c)) = Len(c.arg.items) + 5
                  /\ Statements(c)[Len(c.arg.items) + 5].stmt = "select_recipe_by_id_with_ingredients"
           /\ c.op = "UpdateRecipe" =>
                  /\ RecordListed(Statements(c), c.arg, "update_recipe_name_by_id")
                  /\ Len(Statements(c)) = Len(c.arg.items) + 4
  <1>1. CASE c.op = "CreateRecipe"
    <2>1. c.arg \in Recipes
      BY <1>1, Arguments
    <2>2. Statements(c) = CreateRecipe(c.arg)
      BY <1>1 DEF Statements
    <2>3. QED
      BY <1>1, <2>1, <2>2, CreateListed
  <1>2. CASE c.op = "UpdateRecipe"
    <2>1. c.arg \in Recipes
      BY <1>2, Arguments
    <2>2. Statements(c) = UpdateRecipe(c.arg)
      BY <1>2 DEF Statements
    <2>3. QED
      BY <1>2, <2>1, <2>2, UpdateListed
  <1>3. QED
    BY <1>1, <1>2

\* The statements of InsertProducts, InsertRecipe and InsertRecipes.
LEMMA BatchesListed ==
    ASSUME NEW c \in Requests
    PROVE  /\ c.op = "InsertProducts" => /\ BatchListed(Statements(c), c.arg, "insert_product")
                                         /\ \A i \in 1 .. Len(c.arg) : c.arg[i] \in Products
           /\ c.op = "InsertRecipe" => BatchListed(Statements(c), <<c.arg>>, "next_recipe")
           /\ c.op = "InsertRecipes" => /\ BatchListed(Statements(c), c.arg, "next_recipe")
                                        /\ \A i \in 1 .. Len(c.arg) : c.arg[i] \in Recipes
  <1>1. CASE c.op = "InsertProducts"
    <2>1. c.arg \in Seq(Products)
      BY <1>1, Arguments
    <2>2. Len(c.arg) \in Nat /\ DOMAIN c.arg = 1 .. Len(c.arg) /\ \A i \in 1 .. Len(c.arg) : c.arg[i] \in Products
      BY <2>1
    <2>3. Statements(c) = InTransaction([i \in DOMAIN c.arg |-> [stmt |-> "insert_product", arg |-> c.arg[i]]])
      BY <1>1 DEF Statements, InsertProducts
    <2>4. BatchListed(Statements(c), c.arg, "insert_product")
      BY <2>2, <2>3, EachInTransaction
    <2>5. QED
      BY <1>1, <2>2, <2>4
  <1>2. CASE c.op = "InsertRecipes"
    <2>1. c.arg \in Seq(Recipes)
      BY <1>2, Arguments
    <2>2. Len(c.arg) \in Nat /\ DOMAIN c.arg = 1 .. Len(c.arg) /\ \A i \in 1 .. Len(c.arg) : c.arg[i] \in Recipes
      BY <2>1
    <2>3. Statements(c) = InTransaction([i \in DOMAIN c.arg |-> [stmt |-> "next_recipe", arg |-> c.arg[i]]])
      BY <1>2 DEF Statements, InsertRecipes
    <2>4. BatchListed(Statements(c), c.arg, "next_recipe")
      BY <2>2, <2>3, EachInTransaction
    <2>5. QED
      BY <1>2, <2>2, <2>4
  <1>3. CASE c.op = "InsertRecipe"
    <2>1. Statements(c) = InsertRecipe(c.arg)
      BY <1>3 DEF Statements
    <2>2. QED
      BY <1>3, <2>1, OneRound
  <1>4. QED
    BY <1>1, <1>2, <1>3
-----------------------------------------------------------------------------
(* Answers.                                                                *)

\* A method that is left answers as the book would.
LEMMA Answering ==
    ASSUME IndInv, Underway, call # NoCall, NEW status, NEW result, Answer(status, result),
           \/ status = "ok" /\ (applied \/ call.op \in Book!Reads) /\ Book!Answers(call.op, call.id, call.arg, result)
           \/ status = "Validation" /\ ~applied /\ ~Accepted(call)
           \/ status = "NotFound" /\ ~applied /\ Book!Absent(call.op, call.id)
           \/ status = "Storage" /\ Accepted(call)
    PROVE  Underway' /\ Book!Next
  <1>1. /\ reply' = [status |-> status, value |-> result] /\ call' = NoCall /\ todo' = <<>>
        /\ db' = Durable /\ saved' = Null /\ UNCHANGED <<rowid, applied, seen>>
    BY DEF Answer
  <1>2. Durable' = Durable
    BY <1>1 DEF Durable
  <1>3. Underway'
    BY <1>1, <1>2 DEF Underway
  <1>4. Accepted(call) = Book!Valid(call)
    BY DEF Accepted, ValidateProduct, ValidateRecipe, Book!Valid, Book!ValidProduct, Book!ValidRecipe
  <1>5. UNCHANGED <<Durable.products, Documents(Durable), applied>>
    BY <1>1, <1>2
  <1>6. Book!Reply(status, result)
    BY <1>1, <1>4, <1>5 DEF Book!Reply
  <1>7. reply' # Null /\ reply'.status = status /\ reply'.value = result
    BY <1>1 DEF Null
  <1>8. Book!Next
    BY <1>6, <1>7 DEF Book!Next
  <1>9. QED
    BY <1>3, <1>8
-----------------------------------------------------------------------------
(* Steps of a call, and what the book makes of them.                       *)

\* What each statement may leave behind.
LEMMA WrittenIs ==
    ASSUME NEW arg
    PROVE  /\ Written("insert_product", arg) = InsertProduct(db, arg)
           /\ Written("create_product", arg) = {AddProduct(db, arg)}
           /\ Written("update_product_by_id", arg) = {UpdateProductRow(db, rowid, arg)}
           /\ Written("delete_product_by_id", arg) = {DeleteProductRow(db, rowid)}
           /\ Written("insert_recipe_if_absent", arg) = InsertRecipeIfAbsent(db, arg)
           /\ Written("create_recipe", arg) = {AddRecipe(db, arg)}
           /\ Written("update_recipe_name_by_id", arg) = {RenameRecipe(db, rowid, arg)}
           /\ Written("delete_recipe_ingredients_by_recipe_id", arg) = {DeleteIngredients(db, rowid)}
           /\ Written("insert_recipe_ingredient", arg) = {PutIngredient(db, rowid, arg)}
           /\ Written("delete_recipe_by_id", arg) = {DeleteRecipeRow(db, rowid)}
  BY DEF Written

\* A database is there.
LEMMA NotNull ==
    ASSUME NEW d, Rows(d)
    PROVE  d # Null
  BY DEF Rows, Null

\* What has been checked, and is finite, in every state.
LEMMA AlwaysSound ==
    ASSUME IndInv, Underway
    PROVE  Sound(db) /\ Sound(Durable) /\ IsList(todo)
  BY DEF IndInv, Underway, Sound, TodoKnown, Typed

\* The book sees nothing of a statement that leaves the durable tables alone.
LEMMA BookStutters ==
    ASSUME UNCHANGED <<call, reply, applied>>, Durable' = Durable
    PROVE  UNCHANGED Book!vars
  BY DEF Book!vars

\* It sees the effect of the call.
LEMMA TakesEffect ==
    ASSUME call \in Requests, ~applied, Accepted(call), applied' = TRUE, UNCHANGED <<call, reply>>,
           Book!Effect(call.op, call.id, call.arg)
    PROVE  Book!TakeEffect
  <1>1. Book!Valid(call)
    BY DEF Accepted, ValidateProduct, ValidateRecipe, Book!Valid, Book!ValidProduct, Book!ValidRecipe
  <1>2. call # NoCall
    BY Arguments
  <1>3. QED
    BY <1>1, <1>2 DEF Book!TakeEffect

\* The last statement of a list.
LEMMA LastStatement ==
    ASSUME NEW t, IsList(t), NEW list, IsList(list), NEW p, At(t, list, p), p + 1 = Len(list)
    PROVE  t # <<>> /\ Head(t) = list[p + 1] /\ Tail(t) = <<>>
  <1>1. Len(list) \in Nat /\ p \in Nat
    BY DEF At, IsList
  <1>2. p < Len(list)
    BY <1>1
  <1>3. t # <<>> /\ Head(t) = list[p + 1] /\ At(Tail(t), list, p + 1)
    BY <1>2, AtTail
  <1>4. IsList(Tail(t)) /\ At(Tail(t), list, Len(list))
    BY <1>3, Rest
  <1>5. QED
    BY <1>3, <1>4, AtEnd

\* A call of one statement, at its beginning, has that statement left.
LEMMA OnlyStatement ==
    ASSUME NEW t, IsList(t), NEW list, NEW stmt, NEW arg, Only(list, stmt, arg), At(t, list, 0)
    PROVE  t # <<>> /\ Head(t).stmt = stmt /\ Head(t).arg = arg /\ Tail(t) = <<>>
  <1>1. IsList(list) /\ 0 + 1 = Len(list) /\ 0 + 1 = 1
    BY DEF Only
  <1>2. t # <<>> /\ Head(t) = list[0 + 1] /\ Tail(t) = <<>>
    BY <1>1, LastStatement
  <1>3. QED
    BY <1>1, <1>2 DEF Only

\* Outside a transaction a statement is durable at once.
LEMMA WriteOutside ==
    ASSUME IndInv, Write, saved = Null
    PROVE  /\ Durable = db /\ Durable' = db' /\ saved' = Null /\ applied' = TRUE
           /\ UNCHANGED <<call, reply, value>>
           /\ db' \in Written(Head1, Arg1) /\ todo' = Tail(todo)
  BY DEF Write, Durable

\* A batch has been merged when all its elements have.
LEMMA MergesProducts ==
    ASSUME NEW new, NEW old, NEW args, Len(args) \in Nat, DOMAIN args = 1 .. Len(args),
           MergedProducts(new, old, args, Len(args)),
           \A p, q \in new : (p.id = q.id \/ p.key = q.key) => p = q
    PROVE  Book!Merges(new, old, Book!ProductIs, Book!Key, args)
  <1> DEFINE n == Len(args)
  <1>1. {args[i].key : i \in 1 .. n} = {args[i].key : i \in DOMAIN args}
    OBVIOUS
  <1>2. {p.key : p \in new} = {p.key : p \in old} \cup {args[i].key : i \in DOMAIN args}
    BY <1>1 DEF MergedProducts
  <1>3. ASSUME NEW p \in new, NEW i \in DOMAIN args, args[i].key = p.key,
               \A k \in DOMAIN args : k > i => args[k].key # args[i].key
        PROVE  p.key = args[i].key /\ p.amount = args[i].amount
    BY <1>3 DEF MergedProducts
  <1>4. ASSUME NEW p \in new, p.key \notin {args[i].key : i \in DOMAIN args}
        PROVE  p \in old
    BY <1>4 DEF MergedProducts
  <1>5. \A p \in old : \E q \in new : q.id = p.id /\ q.key = p.key
    BY DEF MergedProducts
  <1>6. QED
    BY <1>2, <1>3, <1>4, <1>5 DEF Book!Merges, Book!ProductIs, Book!Key

\* A batch of recipes that was merged to its end is what the book promises.
LEMMA MergesRecipes ==
    ASSUME NEW new, NEW old, NEW args, Len(args) \in Nat, DOMAIN args = 1 .. Len(args),
           MergedRecipes(new, old, args, Len(args), {}),
           \A x, y \in new : (x.id = y.id \/ x.name = y.name) => x = y
    PROVE  Book!Merges(new, old, Book!RecipeIs, Book!Name, args)
  <1> DEFINE n == Len(args)
  <1>1. {args[i].name : i \in 1 .. n} = {args[i].name : i \in DOMAIN args}
    OBVIOUS
  <1>2. {x.name : x \in new} = {x.name : x \in old} \cup {args[i].name : i \in DOMAIN args}
    BY <1>1 DEF MergedRecipes
  <1>3. ASSUME NEW x \in new, NEW i \in DOMAIN args, args[i].name = x.name,
               \A k \in DOMAIN args : k > i => args[k].name # args[i].name
        PROVE  x.name = args[i].name /\ x.items = Book!Ingredients(args[i])
    BY <1>3 DEF MergedRecipes
  <1>4. ASSUME NEW x \in new, x.name \notin {args[i].name : i \in DOMAIN args}
        PROVE  x \in old
    BY <1>4 DEF MergedRecipes
  <1>5. \A x \in old : \E y \in new : y.id = x.id /\ y.name = x.name
    BY DEF MergedRecipes
  <1>6. QED
    BY <1>2, <1>3, <1>4, <1>5 DEF Book!Merges, Book!RecipeIs, Book!Name

SingleWrites == {"UpdateProduct", "DeleteProduct", "InsertProduct", "DeleteRecipe"}

\* A call of one statement that writes.
LEMMA SingleWrite ==
    ASSUME IndInv, IndInv', Underway, call \in Requests, Accepted(call), Fresh, Write, call.op \in SingleWrites
    PROVE  Answered' /\ Book!TakeEffect
  <1>1. Sound(db) /\ IsList(todo)
    BY AlwaysSound
  <1>2. At(todo, Statements(call), 0) /\ saved = Null /\ ~applied /\ value = Null /\ rowid = call.id
    BY DEF Fresh
  <1>3. /\ Durable = db /\ Durable' = db' /\ saved' = Null /\ applied' = TRUE
        /\ UNCHANGED <<call, reply, value>>
        /\ db' \in Written(Head1, Arg1) /\ todo' = Tail(todo)
    BY <1>2, WriteOutside
  <1>4. ASSUME NEW stmt, NEW arg, Only(Statements(call), stmt, arg)
        PROVE  Head1 = stmt /\ Arg1 = arg /\ todo' = <<>> /\ db' \in Written(stmt, arg)
    <2>1. Head(todo).stmt = stmt /\ Head(todo).arg = arg /\ Tail(todo) = <<>>
      <3>1. IsList(todo) /\ Only(Statements(call), stmt, arg) /\ At(todo, Statements(call), 0)
        BY <1>1, <1>2, <1>4
      <3>2. QED
        BY <3>1, OnlyStatement
    <2>2. QED
      BY <1>3, <2>1 DEF Head1, Arg1
  <1>5. ASSUME todo' = <<>>
        PROVE  Answered'
    <2>1. call'.op \in SingleWrites /\ value' = Null
      BY <1>2, <1>3
    <2>2. Book!Answers(call.op, call.id, call.arg, value)'
      BY <2>1 DEF SingleWrites, Book!Answers
    <2>3. QED
      BY <1>3, <1>5, <2>2 DEF Answered
  <1>6. ASSUME Book!Effect(call.op, call.id, call.arg)
        PROVE  Book!TakeEffect
    BY <1>2, <1>3, <1>6, TakesEffect
  <1>7. CASE call.op = "UpdateProduct"
    <2>1. todo' = <<>> /\ db' = UpdateProductRow(db, rowid, call.arg) /\ Head1 = "update_product_by_id"
      <3>1. Only(Statements(call), "update_product_by_id", call.arg)
        BY <1>7, SingleListed
      <3>2. QED
        BY <1>4, <3>1, WrittenIs
    <2>2. HasProduct(db, rowid)
      BY <2>1 DEF Write, ChangesNothing
    <2>3. /\ db'.recipes = db.recipes /\ db'.ingredients = db.ingredients
          /\ db'.products = {q \in db.products : q.id # rowid}
                                \cup {[id |-> rowid, key |-> call.arg.key, amount |-> call.arg.amount]}
      BY <1>1, <2>1, <2>2, UpdatedProduct
    <2>4. Documents(db') = Documents(db)
      BY <2>3, SameDocuments
    <2> DEFINE x == [id |-> rowid, key |-> call.arg.key, amount |-> call.arg.amount]
    <2>5. x.id = call.id /\ Book!ProductIs(x, call.arg)
      BY <1>2 DEF Book!ProductIs
    <2>6. /\ x \in db'.products /\ db'.products = {q \in db.products : q.id # call.id} \cup {x}
      BY <1>2, <2>3
    <2>7. \E q \in db.products : q.id = call.id
      BY <1>2, <2>2 DEF HasProduct
    <2> HIDE DEF x
    <2>8. Book!Replaces(db'.products, db.products, call.id, Book!ProductIs, call.arg)
      BY <2>5, <2>6, <2>7 DEF Book!Replaces
    <2>9. Book!Effect(call.op, call.id, call.arg)
      BY <1>3, <1>7, <2>4, <2>8 DEF Book!Effect
    <2>10. QED
      BY <1>5, <1>6, <2>1, <2>9
  <1>8. CASE call.op = "DeleteProduct"
    <2>1. todo' = <<>> /\ db' = DeleteProductRow(db, rowid) /\ Head1 = "delete_product_by_id"
      <3>1. Only(Statements(call), "delete_product_by_id", Null)
        BY <1>8, SingleListed
      <3>2. QED
        BY <1>4, <3>1, WrittenIs
    <2>2. HasProduct(db, rowid)
      BY <2>1 DEF Write, ChangesNothing
    <2>3. /\ db'.recipes = db.recipes /\ db'.ingredients = db.ingredients
          /\ db'.products = {q \in db.products : q.id # rowid}
      BY <1>1, <2>1, DeletedProduct
    <2>4. Documents(db') = Documents(db)
      BY <2>3, SameDocuments
    <2>5. Book!Removes(db'.products, db.products, call.id)
      BY <1>2, <2>2, <2>3 DEF Book!Removes, HasProduct
    <2>6. Book!Effect(call.op, call.id, call.arg)
      BY <1>3, <1>8, <2>4, <2>5 DEF Book!Effect
    <2>7. QED
      BY <1>5, <1>6, <2>1, <2>6
  <1>9. CASE call.op = "DeleteRecipe"
    <2>1. todo' = <<>> /\ db' = DeleteRecipeRow(db, rowid) /\ Head1 = "delete_recipe_by_id"
      <3>1. Only(Statements(call), "delete_recipe_by_id", Null)
        BY <1>9, SingleListed
      <3>2. QED
        BY <1>4, <3>1, WrittenIs
    <2>2. HasRecipe(db, rowid)
      BY <2>1 DEF Write, ChangesNothing
    <2>3. db'.products = db.products /\ Documents(db') = {x \in Documents(db) : x.id # rowid}
      BY <1>1, <2>1, DeletedRecipe
    <2>4. \E x \in Documents(db) : x.id = rowid
      <3>1. PICK r \in db.recipes : r.id = rowid
        BY <2>2 DEF HasRecipe
      <3>2. [id |-> r.id, name |-> r.name, items |-> ItemsOf(db, r.id)] \in Documents(db)
        BY DEF Documents
      <3>3. QED
        BY <3>1, <3>2
    <2>5. Book!Removes(Documents(db'), Documents(db), call.id)
      BY <1>2, <2>3, <2>4 DEF Book!Removes
    <2>6. Book!Effect(call.op, call.id, call.arg)
      BY <1>3, <1>9, <2>3, <2>5 DEF Book!Effect
    <2>7. QED
      BY <1>5, <1>6, <2>1, <2>6
  <1>10. CASE call.op = "InsertProduct"
    <2>0. \A p, q \in db'.products : (p.id = q.id \/ p.key = q.key) => p = q
      BY DEF IndInv, SchemaHolds
    <2>1. todo' = <<>> /\ db' \in InsertProduct(db, call.arg) /\ call.arg \in Products
      <3>1. Only(Statements(call), "insert_product", call.arg)
        BY <1>10, SingleListed
      <3>2. QED
        BY <1>4, <1>10, <3>1, WrittenIs, Arguments
    <2>2. Book!Merges(db'.products, db.products, Book!ProductIs, Book!Key, <<call.arg>>) /\ Documents(db') = Documents(db)
      <3>1. /\ db'.recipes = db.recipes /\ db'.ingredients = db.ingredients
            /\ OneMerged(db'.products, db.products, call.arg)
        BY <1>1, <2>1, InsertedProduct
      <3>2. PICK args : args = <<call.arg>>
        OBVIOUS
      <3>3. /\ Len(args) = 1 /\ Len(args) \in Nat /\ DOMAIN args = 1 .. Len(args)
            /\ args[0 + 1] = call.arg /\ 0 \in Nat /\ 0 + 1 = Len(args)
        BY <3>2
      <3>4. MergedProducts(db.products, db.products, args, 0)
        BY NoProductYet
      <3>5. MergedProducts(db'.products, db.products, args, 0 + 1)
        BY <3>1, <3>3, <3>4, OneMoreProduct
      <3>6. Book!Merges(db'.products, db.products, Book!ProductIs, Book!Key, args)
        BY <2>0, <3>3, <3>5, MergesProducts
      <3>7. QED
        BY <3>1, <3>2, <3>6, SameDocuments
    <2>3. Book!Effect(call.op, call.id, call.arg)
      BY <1>3, <1>10, <2>2 DEF Book!Effect
    <2>4. QED
      BY <1>5, <1>6, <2>1, <2>3
  <1>11. QED
    BY <1>7, <1>8, <1>9, <1>10 DEF SingleWrites

\* What is read of a database, the book has too.
LEMMA ReadOutside ==
    ASSUME IndInv, Underway, saved = Null, NEW v
    PROVE  /\ v \in ValuesRead("select_product_by_id") =>
                  \/ v \in Durable.products /\ v.id = rowid
                  \/ v = Null /\ \A p \in Durable.products : p.id # rowid
           /\ v \in ValuesRead("select_all_products") => Book!Lists(v, Durable.products)
           /\ v \in ValuesRead("select_recipe_by_id_with_ingredients") =>
                  \/ v \in Documents(Durable) /\ v.id = rowid
                  \/ v = Null /\ \A r \in Documents(Durable) : r.id # rowid
           /\ v \in ValuesRead("select_all_recipes_with_ingredients") => Book!Lists(v, Documents(Durable))
           /\ v \in ValuesRead("select_cookable_recipes_with_ingredients") => Book!Lists(v, Book!Cookable)
  <1>1. Durable = db /\ Sound(db)
    BY AlwaysSound DEF Durable
  <1>2. ASSUME v \in ValuesRead("select_product_by_id")
        PROVE  \/ v \in db.products /\ v.id = rowid
               \/ v = Null /\ \A p \in db.products : p.id # rowid
    <2>1. v = ProductById(db, rowid)
      BY <1>2 DEF ValuesRead
    <2>2. QED
      BY <2>1, ProductRead
  <1>3. ASSUME v \in ValuesRead("select_all_products")
        PROVE  Book!Lists(v, db.products)
    <2>1. v \in Ordered(db.products, ProductBefore)
      BY <1>3 DEF ValuesRead
    <2>2. QED
      BY <1>1, <2>1, ProductsRead
  <1>4. ASSUME v \in ValuesRead("select_recipe_by_id_with_ingredients")
        PROVE  \/ v \in Documents(db) /\ v.id = rowid
               \/ v = Null /\ \A r \in Documents(db) : r.id # rowid
    <2>1. PICK rows \in Ordered(RowsById(db, rowid), RowBefore) : v = FirstOf(FetchRecipes(rows))
      BY <1>4 DEF ValuesRead
    <2>2. QED
      BY <1>1, <2>1, RecipeRead
  <1>5. ASSUME v \in ValuesRead("select_all_recipes_with_ingredients")
        PROVE  Book!Lists(v, Documents(db))
    <2>1. PICK rows \in Ordered(AllRows(db), RowBefore) : v = FetchRecipes(rows)
      BY <1>5 DEF ValuesRead
    <2>2. QED
      BY <1>1, <2>1, AllRead
  <1>6. ASSUME v \in ValuesRead("select_cookable_recipes_with_ingredients")
        PROVE  Book!Lists(v, Book!Cookable)
    <2>1. PICK rows \in Ordered(CookableRows(db), RowBefore) : v = FetchRecipes(rows)
      BY <1>6 DEF ValuesRead
    <2>2. Book!Lists(FetchRecipes(rows), Book!Cookable)
      BY <1>1, CookableRead
    <2>3. QED
      BY <2>1, <2>2
  <1>7. QED
    BY <1>1, <1>2, <1>3, <1>4, <1>5, <1>6

\* The steps of a read.
LEMMA ReadSteps ==
    ASSUME IndInv, Read, Head1 # "select_recipe_id_by_name"
    PROVE  /\ Durable' = Durable /\ UNCHANGED <<db, saved, call, reply, applied, rowid>>
           /\ todo' = Tail(todo) /\ value' \in ValuesRead(Head1)
  BY DEF Read, Durable

\* A call that reads is answered from the tables as they are.
LEMMA SingleRead ==
    ASSUME IndInv, Underway, call \in Requests, Fresh, Read, call.op \in Book!Reads
    PROVE  Answered' /\ UNCHANGED Book!vars
  <1>1. IsList(todo)
    BY AlwaysSound
  <1>2. At(todo, Statements(call), 0) /\ saved = Null /\ ~applied /\ value = Null /\ rowid = call.id
    BY DEF Fresh
  <1>3. ASSUME NEW stmt \in Reading \ {"select_recipe_id_by_name"}, Only(Statements(call), stmt, Null)
        PROVE  /\ Durable' = Durable /\ UNCHANGED <<db, saved, call, reply, applied, rowid>>
               /\ todo' = <<>> /\ value' \in ValuesRead(stmt)
    <2>1. Head(todo).stmt = stmt /\ Head(todo).arg = Null /\ Tail(todo) = <<>>
      <3>1. IsList(todo) /\ Only(Statements(call), stmt, Null) /\ At(todo, Statements(call), 0)
        BY <1>1, <1>2, <1>3
      <3>2. QED
        BY <3>1, OnlyStatement
    <2>2. Head1 = stmt
      BY <2>1 DEF Head1
    <2>3. QED
      BY <2>1, <2>2, ReadSteps
  <1>4. ASSUME NEW v, v = value', Book!Answers(call.op, call.id, call.arg, v),
               Durable' = Durable, UNCHANGED <<db, saved, call, reply, applied, rowid>>, todo' = <<>>
        PROVE  Answered' /\ UNCHANGED Book!vars
    <2>1. Book!Answers(call.op, call.id, call.arg, value)'
      BY <1>4 DEF Book!Answers, Book!Cookable
    <2>2. QED
      BY <1>2, <1>4, <2>1, BookStutters DEF Answered
  <1>5. CASE call.op = "GetProduct"
    <2>1. "select_product_by_id" \in Reading \ {"select_recipe_id_by_name"}
      BY DEF Reading
    <2>2. Only(Statements(call), "select_product_by_id", Null)
      BY <1>5, SingleListed
    <2>3. PICK v : v = value'
      OBVIOUS
    <2>4. v \in ValuesRead("select_product_by_id")
      BY <1>3, <2>1, <2>2, <2>3
    <2>5. \/ v \in Durable.products /\ v.id = call.id
          \/ v = Null /\ \A p \in Durable.products : p.id # call.id
      BY <1>2, <2>4, ReadOutside
    <2>6. Book!Answers(call.op, call.id, call.arg, v)
      BY <1>5, <2>5 DEF Book!Answers
    <2>7. QED
      BY <1>3, <1>4, <2>1, <2>2, <2>3, <2>6
  <1>6. CASE call.op = "GetProducts"
    <2>1. "select_all_products" \in Reading \ {"select_recipe_id_by_name"}
      BY DEF Reading
    <2>2. Only(Statements(call), "select_all_products", Null)
      BY <1>6, SingleListed
    <2>3. PICK v : v = value'
      OBVIOUS
    <2>4. v \in ValuesRead("select_all_products")
      BY <1>3, <2>1, <2>2, <2>3
    <2>5. Book!Lists(v, Durable.products)
      BY <1>2, <2>4, ReadOutside
    <2>6. Book!Answers(call.op, call.id, call.arg, v)
      BY <1>6, <2>5 DEF Book!Answers
    <2>7. QED
      BY <1>3, <1>4, <2>1, <2>2, <2>3, <2>6
  <1>7. CASE call.op = "GetRecipe"
    <2>1. "select_recipe_by_id_with_ingredients" \in Reading \ {"select_recipe_id_by_name"}
      BY DEF Reading
    <2>2. Only(Statements(call), "select_recipe_by_id_with_ingredients", Null)
      BY <1>7, SingleListed
    <2>3. PICK v : v = value'
      OBVIOUS
    <2>4. v \in ValuesRead("select_recipe_by_id_with_ingredients")
      BY <1>3, <2>1, <2>2, <2>3
    <2>5. \/ v \in Documents(Durable) /\ v.id = call.id
          \/ v = Null /\ \A r \in Documents(Durable) : r.id # call.id
      BY <1>2, <2>4, ReadOutside
    <2>6. Book!Answers(call.op, call.id, call.arg, v)
      BY <1>7, <2>5 DEF Book!Answers
    <2>7. QED
      BY <1>3, <1>4, <2>1, <2>2, <2>3, <2>6
  <1>8. CASE call.op = "GetRecipes"
    <2>1. "select_all_recipes_with_ingredients" \in Reading \ {"select_recipe_id_by_name"}
      BY DEF Reading
    <2>2. Only(Statements(call), "select_all_recipes_with_ingredients", Null)
      BY <1>8, SingleListed
    <2>3. PICK v : v = value'
      OBVIOUS
    <2>4. v \in ValuesRead("select_all_recipes_with_ingredients")
      BY <1>3, <2>1, <2>2, <2>3
    <2>5. Book!Lists(v, Documents(Durable))
      BY <1>2, <2>4, ReadOutside
    <2>6. Book!Answers(call.op, call.id, call.arg, v)
      BY <1>8, <2>5 DEF Book!Answers
    <2>7. QED
      BY <1>3, <1>4, <2>1, <2>2, <2>3, <2>6
  <1>9. CASE call.op = "GetCookableRecipes"
    <2>1. "select_cookable_recipes_with_ingredients" \in Reading \ {"select_recipe_id_by_name"}
      BY DEF Reading
    <2>2. Only(Statements(call), "select_cookable_recipes_with_ingredients", Null)
      BY <1>9, SingleListed
    <2>3. PICK v : v = value'
      OBVIOUS
    <2>4. v \in ValuesRead("select_cookable_recipes_with_ingredients")
      BY <1>3, <2>1, <2>2, <2>3
    <2>5. Book!Lists(v, Book!Cookable)
      BY <1>2, <2>4, ReadOutside
    <2>6. Book!Answers(call.op, call.id, call.arg, v)
      BY <1>9, <2>5 DEF Book!Answers
    <2>7. QED
      BY <1>3, <1>4, <2>1, <2>2, <2>3, <2>6
  <1>10. QED
    BY <1>5, <1>6, <1>7, <1>8, <1>9 DEF Book!Reads

\* A product is created, and read back.
LEMMA CreatesProduct ==
    ASSUME IndInv, Underway, call \in Requests, Accepted(call), Fresh, Write, call.op = "CreateProduct"
    PROVE  ReadingBack' /\ Book!TakeEffect
  <1>1. Sound(db) /\ IsList(todo) /\ IsList(Statements(call))
    BY AlwaysSound, ListOfCall
  <1>2. At(todo, Statements(call), 0) /\ saved = Null /\ ~applied /\ value = Null /\ rowid = call.id
    BY DEF Fresh
  <1>3. /\ Durable = db /\ Durable' = db' /\ saved' = Null /\ applied' = TRUE
        /\ UNCHANGED <<call, reply, value>>
        /\ db' \in Written(Head1, Arg1) /\ todo' = Tail(todo)
    BY <1>2, WriteOutside
  <1>4. /\ Len(Statements(call)) = 2
        /\ Statements(call)[1].stmt = "create_product" /\ Statements(call)[1].arg = call.arg
    BY CreateProductListed
  <1>5. Head(todo) = Statements(call)[0 + 1] /\ At(Tail(todo), Statements(call), 0 + 1)
    <2>1. 0 < Len(Statements(call))
      BY <1>4
    <2>2. QED
      BY <1>1, <1>2, <2>1, AtTail
  <1>6. Head1 = "create_product" /\ Arg1 = call.arg
    BY <1>4, <1>5 DEF Head1, Arg1
  <1>7. db' = AddProduct(db, call.arg) /\ rowid' = db.productSeq + 1
    <2>1. db' \in Written("create_product", call.arg)
      BY <1>3, <1>6
    <2>2. rowid' = db.productSeq + 1
      BY <1>6 DEF Write, NextId
    <2>3. QED
      BY <2>1, <2>2, WrittenIs
  <1> DEFINE x == [id |-> db.productSeq + 1, key |-> call.arg.key, amount |-> call.arg.amount]
  <1>8. /\ db'.recipes = db.recipes /\ db'.ingredients = db.ingredients
        /\ db'.products = db.products \cup {x} /\ \A y \in db.products : y.id # x.id
    BY <1>1, <1>7, AddedProduct
  <1>9. x.id = rowid' /\ Book!ProductIs(x, call.arg)
    BY <1>7 DEF Book!ProductIs
  <1> HIDE DEF x
  <1>10. Documents(db') = Documents(db)
    BY <1>8, SameDocuments
  <1>11. x \in db'.products
    BY <1>8
  <1>12. Book!Adds(db'.products, db.products, Book!ProductIs, call.arg)
    BY <1>8, <1>9, <1>11 DEF Book!Adds
  <1>13. Book!Effect(call.op, call.id, call.arg)
    BY <1>3, <1>10, <1>12 DEF Book!Effect
  <1>14. Book!TakeEffect
    BY <1>2, <1>3, <1>13, TakesEffect
  <1>15. At(todo', Statements(call'), Len(Statements(call')) - 1)
    BY <1>3, <1>4, <1>5
  <1>16. ReadingBack'
    BY <1>2, <1>3, <1>9, <1>11, <1>15 DEF ReadingBack
  <1>17. QED
    BY <1>14, <1>16

\* The product or recipe just created is found and becomes the answer.
LEMMA ReadsBack ==
    ASSUME IndInv, Underway, call \in Requests, ReadingBack, Read
    PROVE  Answered' /\ UNCHANGED Book!vars
  <1>1. Sound(db) /\ IsList(todo) /\ IsList(Statements(call))
    BY AlwaysSound, ListOfCall
  <1>2. At(todo, Statements(call), Len(Statements(call)) - 1) /\ saved = Null /\ applied /\ value = Null
    BY DEF ReadingBack
  <1>3. Durable = db
    BY <1>2 DEF Durable
  <1>4. Head1 = Statements(call)[Len(Statements(call))].stmt /\ Tail(todo) = <<>>
    <2> DEFINE p == Len(Statements(call)) - 1
    <2>1. p + 1 = Len(Statements(call))
      BY <1>1 DEF IsList
    <2>2. IsList(todo) /\ IsList(Statements(call)) /\ At(todo, Statements(call), p)
      BY <1>1, <1>2
    <2> HIDE DEF p
    <2>3. Head(todo) = Statements(call)[p + 1] /\ Tail(todo) = <<>>
      BY <2>1, <2>2, LastStatement
    <2>4. QED
      BY <2>1, <2>3 DEF Head1
  <1>5. PICK v : v = value'
    OBVIOUS
  <1>6. ASSUME Head1 # "select_recipe_id_by_name", Book!Answers(call.op, call.id, call.arg, v)
        PROVE  Answered' /\ UNCHANGED Book!vars
    <2>1. /\ Durable' = Durable /\ UNCHANGED <<db, saved, call, reply, applied, rowid>>
          /\ todo' = Tail(todo)
      BY <1>6, ReadSteps
    <2>2. Book!Answers(call.op, call.id, call.arg, value)'
      BY <1>5, <1>6, <2>1 DEF Book!Answers, Book!Cookable
    <2>3. QED
      BY <1>2, <1>4, <2>1, <2>2, BookStutters DEF Answered
  <1>7. CASE call.op = "CreateProduct"
    <2>1. PICK p \in db.products : p.id = rowid /\ Book!ProductIs(p, call.arg)
      BY <1>7 DEF ReadingBack
    <2>2. Head1 = "select_product_by_id"
      BY <1>4, <1>7, CreateProductListed
    <2>3. v \in ValuesRead("select_product_by_id")
      BY <1>5, <2>2, ReadSteps
    <2>4. v \in db.products /\ v.id = rowid
      BY <1>2, <1>3, <2>1, <2>3, ReadOutside
    <2>5. v = p
      BY <1>1, <2>1, <2>4 DEF Sound, SchemaHolds
    <2>6. Book!Answers(call.op, call.id, call.arg, v)
      BY <1>3, <1>7, <2>1, <2>4, <2>5 DEF Book!Answers
    <2>7. QED
      BY <1>6, <2>2, <2>6
  <1>8. CASE call.op = "CreateRecipe"
    <2>1. PICK x \in Documents(db) : x.id = rowid /\ Book!RecipeIs(x, call.arg)
      BY <1>8 DEF ReadingBack
    <2>2. Head1 = "select_recipe_by_id_with_ingredients"
      BY <1>4, <1>8, RecipeListed
    <2>3. v \in ValuesRead("select_recipe_by_id_with_ingredients")
      BY <1>5, <2>2, ReadSteps
    <2>4. v \in Documents(db) /\ v.id = rowid
      BY <1>2, <1>3, <2>1, <2>3, ReadOutside
    <2>5. v = x
      BY <1>1, <2>1, <2>4, OneDocument DEF Sound
    <2>6. Book!Answers(call.op, call.id, call.arg, v)
      BY <1>3, <1>8, <2>1, <2>4, <2>5 DEF Book!Answers
    <2>7. QED
      BY <1>6, <2>2, <2>6
  <1>9. QED
    BY <1>7, <1>8 DEF ReadingBack
-----------------------------------------------------------------------------
(* Transactions.                                                           *)

Acts == Begin \/ Commit \/ NextRecipe \/ Write \/ Read

\* The statement tells which step it is.
LEMMA KindOfStep ==
    ASSUME Acts
    PROVE  /\ Head1 = "BEGIN" => Begin
           /\ Head1 = "COMMIT" => Commit
           /\ Head1 = "next_recipe" => NextRecipe
           /\ Head1 \in Writing => Write
           /\ Head1 \in Reading => Read
  BY DEF Acts, Begin, Commit, NextRecipe, Write, Read, Writing, Reading

\* BEGIN changes nothing durable.
LEMMA BeginSteps ==
    ASSUME IndInv, Begin
    PROVE  /\ saved = Null /\ saved' = db /\ saved' # Null /\ Durable' = Durable /\ Durable = db
           /\ UNCHANGED <<db, call, rowid, value, reply, applied>> /\ todo' = Tail(todo)
  <1>1. saved = Null
    BY FirstStatement DEF Begin
  <1>2. db # Null
    BY NotNull DEF IndInv
  <1>3. QED
    BY <1>1, <1>2 DEF Begin, Durable

\* COMMIT makes the tables of the transaction durable.
LEMMA CommitSteps ==
    ASSUME Commit
    PROVE  /\ Durable' = db /\ saved' = Null /\ applied' = TRUE
           /\ UNCHANGED <<db, call, rowid, value, reply>> /\ todo' = Tail(todo)
  BY DEF Commit, Durable

\* A statement inside a transaction changes nothing durable.
LEMMA WriteInside ==
    ASSUME IndInv, Write, saved # Null
    PROVE  /\ Durable' = Durable /\ Durable = saved
           /\ applied' = applied /\ UNCHANGED <<saved, call, reply, value>>
           /\ db' \in Written(Head1, Arg1) /\ todo' = Tail(todo)
  BY DEF Write, Durable, IndInv

InTransactions == {"InsertProducts", "CreateRecipe", "UpdateRecipe", "InsertRecipe", "InsertRecipes"}

\* A call whose first statement is BEGIN.
LEMMA BeginsWith ==
    ASSUME NEW c \in Requests, c.op \in InTransactions
    PROVE  /\ IsList(Statements(c)) /\ Len(Statements(c)) > 1
           /\ Statements(c)[1].stmt = "BEGIN"
  <1>1. CASE c.op \in {"CreateRecipe", "UpdateRecipe"}
    BY <1>1, RecipeListed, ListOfCall DEF RecordListed
  <1>2. CASE c.op \in {"InsertProducts", "InsertRecipe", "InsertRecipes"}
    <2>1. ASSUME NEW args, NEW stmt, BatchListed(Statements(c), args, stmt)
          PROVE  IsList(Statements(c)) /\ Len(Statements(c)) > 1 /\ Statements(c)[1].stmt = "BEGIN"
      BY <2>1 DEF BatchListed
    <2>2. QED
      BY <1>2, <2>1, BatchesListed
  <1>3. QED
    BY <1>1, <1>2 DEF InTransactions

\* The batch of a call, and its statements.
LEMMA BatchIs ==
    ASSUME call \in Requests, call.op \in {"InsertRecipe", "InsertRecipes"}
    PROVE  /\ BatchListed(Statements(call), Batch, "next_recipe")
           /\ DOMAIN Batch = 1 .. Len(Batch)
           /\ \A i \in 1 .. Len(Batch) : Batch[i] \in Recipes
  <1>1. CASE call.op = "InsertRecipe"
    <2>1. Batch = <<call.arg>> /\ call.arg \in Recipes
      BY <1>1, Arguments DEF Batch
    <2>2. QED
      BY <1>1, <2>1, BatchesListed
  <1>2. CASE call.op = "InsertRecipes"
    <2>1. Batch = call.arg /\ call.arg \in Seq(Recipes)
      BY <1>2, Arguments DEF Batch
    <2>2. DOMAIN call.arg = 1 .. Len(call.arg)
      BY <2>1
    <2>3. QED
      BY <1>2, <2>1, <2>2, BatchesListed
  <1>3. QED
    BY <1>1, <1>2

\* The first step of such a call is BEGIN.
LEMMA FirstBegins ==
    ASSUME IndInv, Underway, call \in Requests, Fresh, Acts, call.op \in InTransactions
    PROVE  /\ Begin
           /\ At(todo', Statements(call'), 1)
  <1>1. IsList(todo) /\ IsList(Statements(call)) /\ 0 < Len(Statements(call))
    BY AlwaysSound, BeginsWith
  <1>2. At(todo, Statements(call), 0)
    BY DEF Fresh
  <1>3. Head(todo) = Statements(call)[0 + 1] /\ At(Tail(todo), Statements(call), 0 + 1)
    BY <1>1, <1>2, AtTail
  <1>4. Head1 = "BEGIN"
    BY <1>3, BeginsWith DEF Head1
  <1>5. Begin
    BY <1>4, KindOfStep
  <1>6. At(Tail(todo), Statements(call), 1)
    <2>1. 0 + 1 = 1
      OBVIOUS
    <2>2. QED
      BY <1>3, <2>1
  <1>7. UNCHANGED call /\ todo' = Tail(todo)
    BY <1>5, BeginSteps
  <1>8. QED
    BY <1>5, <1>6, <1>7

\* From there it stands in its transaction.
LEMMA BeginsTransaction ==
    ASSUME IndInv, Underway, call \in Requests, Fresh, Acts, call.op \in InTransactions
    PROVE  Midway' /\ UNCHANGED Book!vars
  <1>1. Begin /\ At(todo', Statements(call'), 1)
    BY FirstBegins
  <1>2. /\ saved' = db /\ saved' # Null /\ Durable' = Durable
        /\ UNCHANGED <<db, call, rowid, value, reply, applied>>
    BY <1>1, BeginSteps
  <1>3. ~applied /\ value = Null /\ rowid = call.id
    BY DEF Fresh
  <1>4. Open'
    BY <1>2, <1>3 DEF Open
  <1>5. UNCHANGED Book!vars
    BY <1>2, BookStutters
  <1>6. CASE call.op = "InsertProducts"
    <2>1. Len(call.arg) \in Nat /\ 0 \in 0 .. Len(call.arg) /\ 0 + 1 = 1
      BY <1>6, BatchesListed DEF BatchListed
    <2>2. MergedProducts(db'.products, (saved').products, call'.arg, 0)
      BY <1>2, NoProductYet
    <2>3. db'.recipes = (saved').recipes /\ db'.ingredients = (saved').ingredients
      BY <1>2
    <2>4. Inserting(Statements(call), call.arg)'
      BY <1>1, <1>2, <1>4, <2>1, <2>2, <2>3 DEF Inserting
    <2>5. QED
      BY <1>2, <1>5, <1>6, <2>4 DEF Midway
  <1>7. CASE call.op \in {"CreateRecipe", "UpdateRecipe"}
    <2>1. Recording(Statements(call), call.arg)'
      BY <1>1, <1>2, <1>3, <1>4 DEF Recording
    <2>2. QED
      BY <1>2, <1>5, <1>7, <2>1 DEF Midway
  <1>8. CASE call.op \in {"InsertRecipe", "InsertRecipes"}
    <2>1. BatchListed(Statements(call), Batch, "next_recipe")
      BY <1>8, BatchIs
    <2>2. Len(Batch) \in Nat /\ 0 \in 0 .. Len(Batch) /\ 0 + 1 = 1
      BY <2>1 DEF BatchListed
    <2>3. Batch' = Batch
      BY <1>2 DEF Batch
    <2>4. MergedRecipes(Documents(db'), Documents(saved'), Batch', 0, {})
      BY <1>2, NoRecipeYet
    <2>5. db'.products = (saved').products
      BY <1>2
    <2>6. BetweenRounds(Statements(call), Batch)'
      BY <1>1, <1>2, <1>4, <2>2, <2>3, <2>4, <2>5 DEF BetweenRounds
    <2>7. QED
      BY <1>2, <1>5, <1>8, <2>6 DEF Midway
  <1>9. QED
    BY <1>6, <1>7, <1>8 DEF InTransactions

\* A batch of products: one more, or COMMIT.
LEMMA InsertsProducts ==
    ASSUME IndInv, IndInv', Underway, call \in Requests, Accepted(call), call.op = "InsertProducts",
           Inserting(Statements(call), call.arg), Acts
    PROVE  \/ Midway' /\ UNCHANGED Book!vars
           \/ Answered' /\ Book!TakeEffect
  <1> DEFINE list == Statements(call)
             args == call.arg
  <1>1. Sound(db) /\ IsList(todo) /\ IsList(list)
    BY AlwaysSound, ListOfCall
  <1>2. BatchListed(list, args, "insert_product") /\ \A i \in 1 .. Len(args) : args[i] \in Products
    BY BatchesListed
  <1>3. DOMAIN args = 1 .. Len(args)
    <2>1. call.arg \in Seq(Products)
      BY Arguments
    <2>2. QED
      BY <2>1
  <1> HIDE DEF list, args
  <1>4. PICK k \in 0 .. Len(args) : /\ At(todo, list, k + 1)
                                    /\ Open
                                    /\ db.recipes = saved.recipes /\ db.ingredients = saved.ingredients
                                    /\ MergedProducts(db.products, saved.products, args, k)
    BY DEF Inserting, list, args
  <1>5. Len(args) \in Nat /\ Len(list) = Len(args) + 2 /\ k \in Nat /\ k + 1 < Len(list) /\ (k + 1) + 1 = k + 2
    BY <1>2, <1>4 DEF BatchListed
  <1>6. Head(todo) = list[(k + 1) + 1] /\ At(Tail(todo), list, (k + 1) + 1)
    <2>1. At(todo, list, k + 1) /\ k + 1 < Len(list)
      BY <1>4, <1>5
    <2>2. QED
      BY <1>1, <2>1, AtTail
  <1>7. saved # Null /\ ~applied /\ value = Null
    BY <1>4 DEF Open
  <1>8. CASE k < Len(args)
    <2>1. k + 1 \in 1 .. Len(args) /\ k + 1 \in 0 .. Len(args)
      BY <1>5, <1>8
    <2>2. Head1 = "insert_product" /\ Arg1 = args[k + 1] /\ args[k + 1] \in Products
      BY <1>2, <1>6, <2>1 DEF BatchListed, Head1, Arg1
    <2>3. Write
      BY <2>2, KindOfStep DEF Writing
    <2>4. /\ Durable' = Durable
          /\ applied' = applied /\ UNCHANGED <<saved, call, reply, value>>
          /\ db' \in Written(Head1, Arg1) /\ todo' = Tail(todo)
      BY <1>7, <2>3, WriteInside
    <2>5. db' \in InsertProduct(db, args[k + 1])
      BY <2>2, <2>4, WrittenIs
    <2>6. /\ db'.recipes = db.recipes /\ db'.ingredients = db.ingredients
          /\ OneMerged(db'.products, db.products, args[k + 1])
      BY <1>1, <2>2, <2>5, InsertedProduct
    <2>7. MergedProducts(db'.products, saved.products, args, k + 1)
      BY <1>4, <1>5, <2>6, OneMoreProduct
    <2>8. Open' /\ At(todo', list, (k + 1) + 1)
      BY <1>6, <1>7, <2>4 DEF Open
    <2>9. db'.recipes = (saved').recipes /\ db'.ingredients = (saved').ingredients
          /\ MergedProducts(db'.products, (saved').products, args, k + 1)
      BY <1>4, <2>4, <2>6, <2>7
    <2>10. Statements(call') = list /\ call'.arg = args /\ call'.op = "InsertProducts"
      BY <2>4 DEF list, args
    <2>11. Inserting(Statements(call), call.arg)'
      BY <2>1, <2>8, <2>9, <2>10 DEF Inserting
    <2>12. QED
      BY <2>4, <2>10, <2>11, BookStutters DEF Midway
  <1>9. CASE k = Len(args)
    <2>1. Head1 = "COMMIT"
      BY <1>2, <1>5, <1>6, <1>9 DEF BatchListed, Head1
    <2>2. Commit
      BY <2>1, KindOfStep
    <2>3. /\ Durable' = db /\ saved' = Null /\ applied' = TRUE
          /\ UNCHANGED <<db, call, rowid, value, reply>> /\ todo' = Tail(todo)
      BY <2>2, CommitSteps
    <2>4. todo' = <<>>
      <3>1. IsList(Tail(todo)) /\ At(Tail(todo), list, Len(list))
        <4>1. todo # <<>>
          BY <2>2 DEF Commit
        <4>2. QED
          BY <1>1, <1>5, <1>6, <1>9, <4>1, Rest
      <3>2. QED
        BY <1>1, <2>3, <3>1, AtEnd
    <2>5. Durable = saved
      BY <1>7 DEF Durable
    <2>6. Book!Answers(call.op, call.id, call.arg, value)'
      BY <1>7, <2>3 DEF Book!Answers
    <2>7. Answered'
      BY <2>3, <2>4, <2>6 DEF Answered
    <2>8. \A p, q \in db.products : (p.id = q.id \/ p.key = q.key) => p = q
      BY <1>1 DEF Sound, SchemaHolds
    <2>9. Book!Merges(db.products, saved.products, Book!ProductIs, Book!Key, args)
      BY <1>3, <1>4, <1>5, <1>9, <2>8, MergesProducts
    <2>10. Documents(db) = Documents(saved)
      BY <1>4, SameDocuments
    <2>11. Book!Effect(call.op, call.id, call.arg)
      BY <2>3, <2>5, <2>9, <2>10 DEF Book!Effect, args
    <2>12. Book!TakeEffect
      BY <1>7, <2>3, <2>11, TakesEffect
    <2>13. QED
      BY <2>7, <2>12
  <1>10. QED
    BY <1>5, <1>8, <1>9

\* CreateRecipe and UpdateRecipe, statement by statement.
RecordStmt == IF call.op = "CreateRecipe" THEN "create_recipe" ELSE "update_recipe_name_by_id"

\* The argument and the statements of a call that records one recipe.
LEMMA RecordIs ==
    ASSUME call \in Requests, call.op \in {"CreateRecipe", "UpdateRecipe"}
    PROVE  LET n == Len(call.arg.items) IN
           /\ call.arg \in Recipes /\ n \in Nat
           /\ RecordListed(Statements(call), call.arg, RecordStmt)
           /\ Len(Statements(call)) = IF call.op = "CreateRecipe" THEN n + 5 ELSE n + 4
  BY Arguments, RecipeListed DEF RecordStmt, RecordListed

\* A statement of the transaction, other than COMMIT.
LEMMA NextInside ==
    ASSUME IndInv, Underway, Open, NEW list, IsList(list), NEW p, At(todo, list, p), p < Len(list),
           NEW stmt, list[p + 1].stmt = stmt, stmt \in Writing, Acts
    PROVE  /\ Write /\ Head1 = stmt /\ Arg1 = list[p + 1].arg
           /\ Durable' = Durable /\ UNCHANGED Book!vars
           /\ UNCHANGED <<saved, call, reply, value, applied>>
           /\ db' \in Written(stmt, list[p + 1].arg) /\ Open'
           /\ At(todo', list, p + 1)
  <1>1. Head(todo) = list[p + 1] /\ At(Tail(todo), list, p + 1)
    <2>1. IsList(todo) /\ IsList(list) /\ At(todo, list, p) /\ p < Len(list)
      BY AlwaysSound
    <2>2. QED
      BY <2>1, AtTail
  <1>2. Head1 = stmt /\ Arg1 = list[p + 1].arg
    BY <1>1 DEF Head1, Arg1
  <1>3. Write
    BY <1>2, KindOfStep
  <1>4. saved # Null /\ ~applied /\ value = Null
    BY DEF Open
  <1>5. /\ Durable' = Durable
        /\ applied' = applied /\ UNCHANGED <<saved, call, reply, value>>
        /\ db' \in Written(Head1, Arg1) /\ todo' = Tail(todo)
    BY <1>3, <1>4, WriteInside
  <1>6. Open'
    BY <1>4, <1>5 DEF Open
  <1>7. UNCHANGED Book!vars
    BY <1>5, BookStutters
  <1>8. QED
    BY <1>1, <1>2, <1>3, <1>5, <1>6, <1>7

\* Only the two INSERTs that create take a new rowid.
LEMMA SameRowid ==
    ASSUME Write, Head1 \notin {"create_product", "create_recipe"}
    PROVE  rowid' = rowid
  BY DEF Write

\* The recipe itself.
LEMMA PutsRecipe ==
    ASSUME IndInv, Underway, call \in Requests, call.op \in {"CreateRecipe", "UpdateRecipe"}, Acts, Open,
           At(todo, Statements(call), 1), db = saved, rowid = call.id
    PROVE  Recording(Statements(call), call.arg)' /\ UNCHANGED Book!vars /\ UNCHANGED call
  <1> DEFINE list == Statements(call)
             n == Len(call.arg.items)
  <1>1. /\ n \in Nat /\ RecordListed(list, call.arg, RecordStmt) /\ (Len(list) = n + 5 \/ Len(list) = n + 4)
    BY RecordIs
  <1> HIDE DEF list, n
  <1>2. /\ IsList(list) /\ 1 < Len(list) /\ 1 + 1 = 2
        /\ list[1 + 1].stmt = RecordStmt /\ list[1 + 1].arg = call.arg.name
    BY <1>1 DEF RecordListed
  <1>3. RecordStmt \in Writing
    BY DEF RecordStmt, Writing
  <1>4. /\ Write /\ Head1 = RecordStmt /\ Arg1 = list[1 + 1].arg
        /\ Durable' = Durable /\ UNCHANGED Book!vars
        /\ UNCHANGED <<saved, call, reply, value, applied>>
        /\ db' \in Written(RecordStmt, list[1 + 1].arg) /\ Open'
        /\ At(todo', list, 1 + 1)
    <2>1. At(todo, list, 1)
      BY DEF list
    <2>2. QED
      BY <1>2, <1>3, <2>1, NextInside
  <1>5. Sound(db)
    BY AlwaysSound
  <1>6. Put'
    <2>1. CASE call.op = "CreateRecipe"
      <3>1. Head1 = "create_recipe" /\ db' \in Written("create_recipe", call.arg.name)
        BY <1>2, <1>4, <2>1 DEF RecordStmt
      <3>2. db' = AddRecipe(db, call.arg.name)
        BY <3>1, WrittenIs
      <3>3. rowid' = NextId(db.recipes, db.recipeSeq)
        BY <1>4, <3>1 DEF Write
      <3>4. Made(db', db, rowid', call.arg.name) /\ ~HasRecipe(db, rowid')
        BY <1>5, <3>2, <3>3, AddedIsMade
      <3>5. QED
        BY <1>4, <2>1, <3>4 DEF Put
    <2>2. CASE call.op # "CreateRecipe"
      <3>1. Head1 = "update_recipe_name_by_id" /\ db' \in Written("update_recipe_name_by_id", call.arg.name)
        BY <1>2, <1>4, <2>2 DEF RecordStmt
      <3>2. db' = RenameRecipe(db, rowid, call.arg.name)
        BY <3>1, WrittenIs
      <3>3. rowid' = rowid
        BY <1>4, <3>1, SameRowid
      <3>4. HasRecipe(db, rowid)
        BY <1>4, <3>1 DEF Write, ChangesNothing
      <3>5. Made(db', db, rowid, call.arg.name)
        BY <1>5, <3>2, <3>4, RenamedIsMade
      <3>6. QED
        BY <1>4, <2>2, <3>3, <3>4, <3>5 DEF Put
    <2>3. QED
      BY <2>1, <2>2
  <1>7. At(todo', Statements(call'), 2)
    BY <1>2, <1>4 DEF list
  <1>8. Recording(Statements(call), call.arg)'
    BY <1>4, <1>6, <1>7 DEF Recording
  <1>9. QED
    BY <1>4, <1>8

\* Its ingredients, first none of them.
LEMMA ClearsItems ==
    ASSUME IndInv, Underway, call \in Requests, call.op \in {"CreateRecipe", "UpdateRecipe"}, Acts, Open,
           At(todo, Statements(call), 2), Put
    PROVE  Recording(Statements(call), call.arg)' /\ UNCHANGED Book!vars /\ UNCHANGED call
  <1> DEFINE list == Statements(call)
             n == Len(call.arg.items)
             stmt == "delete_recipe_ingredients_by_recipe_id"
  <1>1. /\ n \in Nat /\ RecordListed(list, call.arg, RecordStmt) /\ (Len(list) = n + 5 \/ Len(list) = n + 4)
    BY RecordIs
  <1> HIDE DEF list, n
  <1>2. /\ IsList(list) /\ 2 < Len(list) /\ 2 + 1 = 3
        /\ list[2 + 1].stmt = stmt /\ stmt \in Writing
    BY <1>1 DEF RecordListed, Writing
  <1>3. /\ Write /\ Head1 = stmt
        /\ UNCHANGED Book!vars
        /\ UNCHANGED <<saved, call, reply, value, applied>>
        /\ db' \in Written(stmt, list[2 + 1].arg) /\ Open'
        /\ At(todo', list, 2 + 1)
    <2>1. At(todo, list, 2)
      BY DEF list
    <2>2. QED
      BY <1>2, <2>1, NextInside
  <1>4. db' = DeleteIngredients(db, rowid) /\ rowid' = rowid
    BY <1>3, WrittenIs, SameRowid
  <1>5. OnlyItemsOf(db, db', rowid) /\ ItemsOf(db', rowid) = {}
    <2>1. Sound(db)
      BY AlwaysSound
    <2>2. QED
      BY <1>4, <2>1, DeletedIngredients
  <1>6. Made(db', saved, rowid, call.arg.name)
    BY <1>5, StaysMade DEF Put
  <1>7. Put'
    BY <1>3, <1>4, <1>6 DEF Put
  <1>8. ItemsOf(db', rowid') = LastItems(call'.arg.items, 0)
    BY <1>4, <1>5, NoItemYet
  <1>9. 0 \in 0 .. Len(call'.arg.items) /\ 0 + 3 = 2 + 1
    BY <1>1, <1>3 DEF n
  <1>10. At(todo', Statements(call'), 0 + 3)
    BY <1>3, <1>9 DEF list
  <1>11. Recording(Statements(call), call.arg)'
    BY <1>3, <1>7, <1>8, <1>9, <1>10 DEF Recording
  <1>12. QED
    BY <1>3, <1>11

\* Then one after the other.
LEMMA PutsItem ==
    ASSUME IndInv, Underway, call \in Requests, call.op \in {"CreateRecipe", "UpdateRecipe"}, Acts, Open,
           NEW j \in 0 .. Len(call.arg.items), j < Len(call.arg.items),
           At(todo, Statements(call), j + 3), Put, ItemsOf(db, rowid) = LastItems(call.arg.items, j)
    PROVE  Recording(Statements(call), call.arg)' /\ UNCHANGED Book!vars /\ UNCHANGED call
  <1> DEFINE list == Statements(call)
             items == call.arg.items
             n == Len(items)
             stmt == "insert_recipe_ingredient"
             p == j + 3
  <1>1. /\ n \in Nat /\ RecordListed(list, call.arg, RecordStmt) /\ (Len(list) = n + 5 \/ Len(list) = n + 4)
        /\ call.arg \in Recipes
    BY RecordIs
  <1>a. j \in 0 .. n /\ j < n /\ At(todo, list, p) /\ ItemsOf(db, rowid) = LastItems(items, j)
    OBVIOUS
  <1>b. \A i \in 1 .. n : items[i] \in Products
    BY <1>1, AllItems
  <1>c. \A i \in 1 .. n : list[i + 3].stmt = "insert_recipe_ingredient" /\ list[i + 3].arg = items[i]
    BY <1>1 DEF RecordListed
  <1>d. IsList(list)
    BY <1>1 DEF RecordListed
  <1> HIDE DEF list, n, items
  <1>2. /\ p < Len(list) /\ p + 1 = (j + 1) + 3 /\ j + 1 \in 1 .. n /\ j + 1 \in 0 .. n /\ j \in Nat
    BY <1>1, <1>a
  <1> HIDE DEF p
  <1>e. list[p + 1].stmt = stmt /\ list[p + 1].arg = items[j + 1] /\ items[j + 1] \in Products /\ stmt \in Writing
    BY <1>b, <1>c, <1>2 DEF Writing
  <1>3. /\ Write /\ Head1 = stmt
        /\ UNCHANGED Book!vars
        /\ UNCHANGED <<saved, call, reply, value, applied>>
        /\ db' \in Written(stmt, list[p + 1].arg) /\ Open'
        /\ At(todo', list, p + 1)
    BY <1>2, <1>a, <1>d, <1>e, NextInside
  <1>4. db' = PutIngredient(db, rowid, items[j + 1]) /\ rowid' = rowid
    BY <1>3, <1>e, WrittenIs, SameRowid
  <1>5. /\ OnlyItemsOf(db, db', rowid)
        /\ ItemsOf(db', rowid) = {x \in ItemsOf(db, rowid) : x.key # items[j + 1].key} \cup {items[j + 1]}
    <2>1. Sound(db)
      BY AlwaysSound
    <2>2. QED
      BY <1>4, <1>e, <2>1, PutOneIngredient
  <1>6. Made(db', saved, rowid, call.arg.name)
    BY <1>5, StaysMade DEF Put
  <1>7. Put'
    BY <1>3, <1>4, <1>6 DEF Put
  <1>8. ItemsOf(db', rowid') = LastItems(items, j + 1)
    BY <1>2, <1>4, <1>5, <1>a, OneMoreItem
  <1>9. call'.arg.items = items /\ Statements(call') = list /\ At(todo', list, (j + 1) + 3)
    BY <1>2, <1>3 DEF list, items
  <1>10. Recording(Statements(call), call.arg)'
    BY <1>2, <1>3, <1>7, <1>8, <1>9 DEF Recording, n
  <1>11. QED
    BY <1>3, <1>10

\* COMMIT makes it a recipe of the book.
LEMMA CommitsRecipe ==
    ASSUME IndInv, Underway, call \in Requests, Accepted(call), call.op \in {"CreateRecipe", "UpdateRecipe"}, Acts, Open,
           At(todo, Statements(call), Len(call.arg.items) + 3), Put,
           ItemsOf(db, rowid) = LastItems(call.arg.items, Len(call.arg.items))
    PROVE  (Answered' \/ Midway') /\ Book!TakeEffect
  <1> DEFINE list == Statements(call)
             n == Len(call.arg.items)
             x == [id |-> rowid, name |-> call.arg.name, items |-> ItemsOf(db, rowid)]
  <1>1. /\ n \in Nat /\ RecordListed(list, call.arg, RecordStmt)
        /\ Len(list) = IF call.op = "CreateRecipe" THEN n + 5 ELSE n + 4
        /\ call.arg \in Recipes
    BY RecordIs
  <1>2. At(todo, list, n + 3) /\ list[n + 4].stmt = "COMMIT" /\ IsList(list)
    BY <1>1 DEF RecordListed
  <1>3. ItemsOf(db, rowid) = Book!Ingredients(call.arg)
    BY <1>1, AllItems
  <1> HIDE DEF list, n
  <1>4. n + 3 < Len(list) /\ (n + 3) + 1 = n + 4
    BY <1>1
  <1>5. Head(todo) = list[n + 4] /\ At(Tail(todo), list, n + 4) /\ IsList(todo) /\ todo # <<>>
    <2>1. IsList(todo)
      BY AlwaysSound
    <2>2. Head(todo) = list[(n + 3) + 1] /\ At(Tail(todo), list, (n + 3) + 1) /\ todo # <<>>
      BY <1>2, <1>4, <2>1, AtTail
    <2>3. QED
      BY <1>4, <2>1, <2>2
  <1>6. Commit
    <2>1. Head1 = "COMMIT"
      BY <1>2, <1>5 DEF Head1
    <2>2. QED
      BY <2>1, KindOfStep
  <1>7. /\ Durable' = db /\ saved' = Null /\ applied' = TRUE
        /\ UNCHANGED <<db, call, rowid, value, reply>> /\ todo' = Tail(todo)
    BY <1>6, CommitSteps
  <1>8. saved # Null /\ ~applied /\ value = Null /\ Durable = saved
    BY DEF Open, Durable
  <1>9. db.products = saved.products
    BY DEF Put, Made
  <1>10. Documents(db) = {y \in Documents(saved) : y.id # rowid} \cup {x}
    BY MadeDocuments DEF Put
  <1>11. x.id = rowid /\ Book!RecipeIs(x, call.arg)
    BY <1>3 DEF Book!RecipeIs
  <1> HIDE DEF x
  <1>12. x \in Documents(db)
    BY <1>10
  <1>13. ASSUME Book!Effect(call.op, call.id, call.arg)
         PROVE  Book!TakeEffect
    BY <1>7, <1>8, <1>13, TakesEffect
  <1>14. CASE call.op = "CreateRecipe"
    <2>1. \A y \in Documents(saved) : y.id # rowid
      BY <1>14 DEF Put, HasRecipe, Documents
    <2>2. Documents(db) = Documents(saved) \cup {x}
      BY <1>10, <2>1
    <2>3. Book!Adds(Documents(db), Documents(saved), Book!RecipeIs, call.arg)
      BY <1>11, <1>12, <2>1, <2>2 DEF Book!Adds
    <2>4. Book!Effect(call.op, call.id, call.arg)
      BY <1>7, <1>8, <1>9, <1>14, <2>3 DEF Book!Effect
    <2>5. n + 4 = Len(list) - 1
      BY <1>1, <1>14
    <2>6. At(todo', Statements(call'), Len(Statements(call')) - 1)
      BY <1>5, <1>7, <2>5 DEF list
    <2>7. ReadingBack'
      BY <1>7, <1>8, <1>11, <1>12, <1>14, <2>6 DEF ReadingBack
    <2>8. QED
      BY <1>13, <2>4, <2>7 DEF Midway
  <1>15. CASE call.op = "UpdateRecipe"
    <2>1. \E y \in Documents(saved) : y.id = rowid
      <3>1. PICK r \in saved.recipes : r.id = rowid
        BY <1>15 DEF Put, HasRecipe
      <3>2. [id |-> r.id, name |-> r.name, items |-> ItemsOf(saved, r.id)] \in Documents(saved)
        BY DEF Documents
      <3>3. QED
        BY <3>1, <3>2
    <2>2. rowid = call.id
      BY <1>15 DEF Put
    <2>3. Book!Replaces(Documents(db), Documents(saved), call.id, Book!RecipeIs, call.arg)
      BY <1>10, <1>11, <1>12, <2>1, <2>2 DEF Book!Replaces
    <2>4. Book!Effect(call.op, call.id, call.arg)
      BY <1>7, <1>8, <1>9, <1>15, <2>3 DEF Book!Effect
    <2>5. todo' = <<>>
      <3>1. IsList(Tail(todo)) /\ At(Tail(todo), list, Len(list))
        <4>1. n + 4 = Len(list)
          BY <1>1, <1>15
        <4>2. QED
          BY <1>5, <4>1, Rest
      <3>2. QED
        BY <1>2, <1>7, <3>1, AtEnd
    <2>6. Book!Answers(call.op, call.id, call.arg, value)'
      BY <1>7, <1>8, <1>15 DEF Book!Answers
    <2>7. Answered'
      BY <1>7, <2>5, <2>6 DEF Answered
    <2>8. QED
      BY <1>13, <2>4, <2>7
  <1>16. QED
    BY <1>14, <1>15

\* CreateRecipe and UpdateRecipe: the book stutters up to COMMIT, which takes
\* effect for the whole recipe at once.
LEMMA RecordsRecipe ==
    ASSUME IndInv, Underway, call \in Requests, Accepted(call), call.op \in {"CreateRecipe", "UpdateRecipe"},
           Recording(Statements(call), call.arg), Acts
    PROVE  \/ Midway' /\ UNCHANGED Book!vars
           \/ (Answered' \/ Midway') /\ Book!TakeEffect
  <1>1. Len(call.arg.items) \in Nat
    BY RecordIs
  <1>2. ASSUME Recording(Statements(call), call.arg)', UNCHANGED call
        PROVE  Midway'
    BY <1>2 DEF Midway
  <1>3. Open
    BY DEF Recording
  <1>4. CASE At(todo, Statements(call), 1) /\ db = saved /\ rowid = call.id
    BY <1>2, <1>3, <1>4, PutsRecipe
  <1>5. CASE At(todo, Statements(call), 2) /\ Put
    BY <1>2, <1>3, <1>5, ClearsItems
  <1>6. ASSUME NEW j \in 0 .. Len(call.arg.items), At(todo, Statements(call), j + 3), Put,
               ItemsOf(db, rowid) = LastItems(call.arg.items, j)
        PROVE  \/ Midway' /\ UNCHANGED Book!vars
               \/ (Answered' \/ Midway') /\ Book!TakeEffect
    <2>1. CASE j < Len(call.arg.items)
      BY <1>2, <1>3, <1>6, <2>1, PutsItem
    <2>2. CASE j = Len(call.arg.items)
      BY <1>3, <1>6, <2>2, CommitsRecipe
    <2>3. QED
      BY <1>1, <2>1, <2>2
  <1>7. QED
    BY <1>4, <1>5, <1>6 DEF Recording
-----------------------------------------------------------------------------
(* Rounds.                                                                 *)

Batches == {"InsertRecipe", "InsertRecipes"}

\* A statement that writes, within a round.
LEMMA WritesInRound ==
    ASSUME IndInv, Open, Acts, NEW stmt \in Writing, Head1 = stmt
    PROVE  /\ Write
           /\ UNCHANGED Book!vars
           /\ UNCHANGED <<saved, call, reply, value, applied>>
           /\ db' \in Written(stmt, Arg1) /\ Open'
           /\ todo' = Tail(todo)
  <1>1. Write
    BY KindOfStep
  <1>2. saved # Null /\ ~applied /\ value = Null
    BY DEF Open
  <1>3. /\ Durable' = Durable
        /\ applied' = applied /\ UNCHANGED <<saved, call, reply, value>>
        /\ db' \in Written(Head1, Arg1) /\ todo' = Tail(todo)
    BY <1>1, <1>2, WriteInside
  <1>4. Open'
    BY <1>2, <1>3 DEF Open
  <1>5. UNCHANGED Book!vars
    BY <1>3, BookStutters
  <1>6. QED
    BY <1>1, <1>3, <1>4, <1>5

\* The next recipe of the batch gets its statements, or COMMIT ends it.
LEMMA StartsRound ==
    ASSUME IndInv, Underway, call \in Requests, call.op \in Batches, Acts, Open,
           NEW k \in 0 .. Len(Batch), k < Len(Batch), At(todo, Statements(call), k + 1),
           db.products = saved.products,
           MergedRecipes(Documents(db), Documents(saved), Batch, k, {})
    PROVE  Midway' /\ UNCHANGED Book!vars
  <1> DEFINE list == Statements(call)
             m == Len(Batch)
             recipe == Batch[k + 1]
             round == UpsertRecipe(recipe)
  <1>1. /\ BatchListed(list, Batch, "next_recipe")
        /\ \A i \in 1 .. m : Batch[i] \in Recipes
    BY BatchIs DEF Batches
  <1>2. At(todo, list, k + 1)
    OBVIOUS
  <1>3. /\ m \in Nat /\ Len(list) = m + 2 /\ IsList(list)
        /\ \A i \in 1 .. m : list[i + 1].stmt = "next_recipe" /\ list[i + 1].arg = Batch[i]
    BY <1>1 DEF BatchListed
  <1>4. k + 1 \in 1 .. m /\ k + 1 < Len(list) /\ k \in 0 .. m - 1 /\ (k + 1) + 1 = k + 2 /\ k + 1 \in Nat
    BY <1>3
  <1>5. recipe \in Recipes /\ list[(k + 1) + 1].stmt = "next_recipe" /\ list[(k + 1) + 1].arg = recipe
    BY <1>1, <1>3, <1>4
  <1> HIDE DEF list, m
  <1>6. IsList(todo)
    BY AlwaysSound
  <1>7. Head(todo) = list[(k + 1) + 1]
    <2>1. IsList(todo) /\ IsList(list) /\ At(todo, list, k + 1) /\ k + 1 < Len(list)
      BY <1>2, <1>3, <1>4, <1>6
    <2>2. QED
      BY <2>1, AtTail
  <1>8. Head1 = "next_recipe" /\ Arg1 = recipe
    BY <1>5, <1>7 DEF Head1, Arg1
  <1>9. NextRecipe
    BY <1>8, KindOfStep
  <1>10. IsList(round) /\ Len(round) = Len(recipe.items) + 3 /\ Len(recipe.items) \in Nat
    BY <1>5, UpsertListed
  <1>11. InRound(round \o Tail(todo), round, 0, list, k + 2)
    <2>1. IsList(todo) /\ IsList(round) /\ IsList(list) /\ At(todo, list, k + 1) /\ k + 1 < Len(list)
      BY <1>2, <1>3, <1>4, <1>6, <1>10
    <2> HIDE DEF round
    <2>2. InRound(round \o Tail(todo), round, 0, list, (k + 1) + 1)
      BY <2>1, RoundStart
    <2>3. QED
      BY <1>4, <2>2
  <1>12. /\ todo' = round \o Tail(todo)
         /\ UNCHANGED <<db, saved, failed, call, rowid, value, reply, applied, seen>>
    BY <1>8, <1>9 DEF NextRecipe
  <1>13. UNCHANGED Book!vars
    <2>1. Durable' = Durable
      BY <1>12 DEF Durable
    <2>2. QED
      BY <1>12, <2>1, BookStutters
  <1>14. Open' /\ Batch' = Batch /\ Statements(call') = list
    BY <1>12 DEF Open, Batch, list
  <1>15. InRound(todo', round, 0, list, k + 2)
    BY <1>11, <1>12
  <1>16. 0 \in 0 .. Len(recipe.items) + 2
    BY <1>10
  <1>17. WithinRound(Statements(call), Batch)'
    <2>1. /\ db'.products = (saved').products
          /\ MergedRecipes(Documents(db'), Documents(saved'), Batch, k, IF 0 = 0 THEN {} ELSE {recipe.name})
      BY <1>12
    <2>2. k \in 0 .. Len(Batch') - 1 /\ Batch'[k + 1] = recipe
      BY <1>4, <1>14 DEF m
    <2> HIDE DEF recipe
    <2>3. QED
      BY <1>14, <1>15, <1>16, <2>1, <2>2 DEF WithinRound
  <1>18. QED
    BY <1>12, <1>13, <1>17 DEF Midway, Batches

\* COMMIT of a batch: every recipe of it takes effect at once.
LEMMA CommitsBatch ==
    ASSUME IndInv, Underway, call \in Requests, Accepted(call), call.op \in Batches, Acts, Open,
           At(todo, Statements(call), Len(Batch) + 1),
           db.products = saved.products,
           MergedRecipes(Documents(db), Documents(saved), Batch, Len(Batch), {})
    PROVE  Answered' /\ Book!TakeEffect
  <1> DEFINE list == Statements(call)
             m == Len(Batch)
  <1>1. BatchListed(list, Batch, "next_recipe") /\ DOMAIN Batch = 1 .. m
    BY BatchIs DEF Batches
  <1>2. At(todo, list, m + 1)
    OBVIOUS
  <1>3. m \in Nat /\ Len(list) = m + 2 /\ IsList(list) /\ list[m + 2].stmt = "COMMIT"
    BY <1>1 DEF BatchListed
  <1> HIDE DEF list
  <1>4. Head(todo) = list[m + 2] /\ Tail(todo) = <<>>
    <2>1. (m + 1) + 1 = m + 2 /\ (m + 1) + 1 = Len(list) /\ IsList(todo)
      BY <1>3, AlwaysSound
    <2>2. Head(todo) = list[(m + 1) + 1] /\ Tail(todo) = <<>>
      BY <1>2, <1>3, <2>1, LastStatement
    <2>3. QED
      BY <2>1, <2>2
  <1>5. Commit
    <2>1. Head1 = "COMMIT"
      BY <1>3, <1>4 DEF Head1
    <2>2. QED
      BY <2>1, KindOfStep
  <1>6. /\ Durable' = db /\ saved' = Null /\ applied' = TRUE
        /\ UNCHANGED <<db, call, rowid, value, reply>> /\ todo' = <<>>
    BY <1>4, <1>5, CommitSteps
  <1>7. saved # Null /\ ~applied /\ value = Null /\ Durable = saved
    BY DEF Open, Durable
  <1>8. Answered'
    <2>1. Book!Answers(call.op, call.id, call.arg, value)'
      BY <1>6, <1>7 DEF Book!Answers, Batches
    <2>2. QED
      BY <1>6, <2>1 DEF Answered
  <1>9. \A x, y \in Documents(db) : (x.id = y.id \/ x.name = y.name) => x = y
    BY AlwaysSound, OneDocument DEF Sound
  <1>10. Book!Merges(Documents(db), Documents(saved), Book!RecipeIs, Book!Name, Batch)
    BY <1>1, <1>3, <1>9, MergesRecipes
  <1>11. Book!Effect(call.op, call.id, call.arg)
    BY <1>6, <1>7, <1>10 DEF Book!Effect, Batch, Batches
  <1>12. Book!TakeEffect
    BY <1>6, <1>7, <1>11, TakesEffect
  <1>13. QED
    BY <1>8, <1>12

\* Between two rounds: the next one begins, or COMMIT.
LEMMA BetweenTwoRounds ==
    ASSUME IndInv, Underway, call \in Requests, Accepted(call), call.op \in Batches, Acts,
           BetweenRounds(Statements(call), Batch)
    PROVE  \/ Midway' /\ UNCHANGED Book!vars
           \/ Answered' /\ Book!TakeEffect
  <1>1. PICK k \in 0 .. Len(Batch) : /\ At(todo, Statements(call), k + 1)
                                     /\ Open
                                     /\ db.products = saved.products
                                     /\ MergedRecipes(Documents(db), Documents(saved), Batch, k, {})
    BY DEF BetweenRounds
  <1>2. Len(Batch) \in Nat
    BY BatchIs DEF BatchListed, Batches
  <1>3. CASE k < Len(Batch)
    BY <1>1, <1>3, StartsRound
  <1>4. CASE k = Len(Batch)
    BY <1>1, <1>4, CommitsBatch
  <1>5. QED
    BY <1>2, <1>3, <1>4

\* What a round has done once its recipe is found.
RoundAt(k, u, recipe) ==
    /\ InRound(todo, UpsertRecipe(recipe), u, Statements(call), k + 2)
    /\ Open
    /\ db.products = saved.products
    /\ MergedRecipes(Documents(db), Documents(saved), Batch, k, {recipe.name})
    /\ \E r \in db.recipes : r.id = rowid /\ r.name = recipe.name
    /\ ItemsOf(db, rowid) = LastItems(recipe.items, u - 3)

\* After its last statement the round is over.
LEMMA RoundGoesOn ==
    ASSUME SchemaHolds(db'), call \in Requests, call.op \in Batches, UNCHANGED call,
           NEW k \in 0 .. Len(Batch) - 1, NEW recipe, recipe = Batch[k + 1],
           NEW u \in 3 .. Len(recipe.items) + 3, RoundAt(k, u, recipe)'
    PROVE  Midway'
  <1> DEFINE list == Statements(call)
             m == Len(Batch)
             n == Len(recipe.items)
             round == UpsertRecipe(recipe)
  <1>1. Batch' = Batch /\ Statements(call') = list /\ call'.op \in Batches
    BY DEF Batch
  <1>2. /\ InRound(todo', round, u, list, k + 2)
        /\ Open'
        /\ db'.products = (saved').products
        /\ MergedRecipes(Documents(db'), Documents(saved'), Batch, k, {recipe.name})
        /\ \E r \in db'.recipes : r.id = rowid' /\ r.name = recipe.name
        /\ ItemsOf(db', rowid') = LastItems(recipe.items, u - 3)
    BY <1>1 DEF RoundAt
  <1>3. m \in Nat /\ IsList(list) /\ recipe \in Recipes
    <2>1. BatchListed(list, Batch, "next_recipe") /\ \A i \in 1 .. Len(Batch) : Batch[i] \in Recipes
      BY BatchIs DEF Batches
    <2>2. m \in Nat /\ IsList(list)
      BY <2>1 DEF BatchListed
    <2>3. k + 1 \in 1 .. Len(Batch)
      BY <2>2
    <2>4. QED
      BY <2>1, <2>2, <2>3
  <1>4. n \in Nat /\ IsList(round) /\ Len(round) = n + 3
    BY <1>3, UpsertListed
  <1> HIDE DEF list, m, round
  <1>5. CASE u < n + 3
    <2>1. u \in 0 .. n + 2 /\ k \in 0 .. Len(Batch') - 1 /\ u # 0
      BY <1>1, <1>4, <1>5
    <2>2. MergedRecipes(Documents(db'), Documents(saved'), Batch, k, IF u = 0 THEN {} ELSE {recipe.name})
      BY <1>2, <2>1
    <2>3. WithinRound(Statements(call), Batch)'
      BY <1>1, <1>2, <2>1, <2>2 DEF WithinRound, round
    <2>4. QED
      BY <1>1, <2>3 DEF Midway, Batches
  <1>6. CASE u = n + 3
    <2>1. At(todo', list, k + 2)
      <3>1. IsList(round) /\ IsList(list) /\ InRound(todo', round, Len(round), list, k + 2)
        BY <1>2, <1>3, <1>4, <1>6
      <3>2. QED
        BY <3>1, RoundEnd
    <2>2. u - 3 = n /\ k + 1 \in 0 .. m /\ (k + 1) + 1 = k + 2 /\ k \in Nat
      BY <1>3, <1>4, <1>6 DEF m
    <2>3. ItemsOf(db', rowid') = Book!Ingredients(recipe)
      BY <1>2, <1>3, <2>2, AllItems
    <2>4. \A x \in Documents(db') : x.name = recipe.name => x.items = Book!Ingredients(recipe)
      <3>1. TAKE x \in Documents(db')
      <3>2. HAVE x.name = recipe.name
      <3>3. PICK s \in db'.recipes : x = [id |-> s.id, name |-> s.name, items |-> ItemsOf(db', s.id)]
        BY DEF Documents
      <3>4. PICK r \in db'.recipes : r.id = rowid' /\ r.name = recipe.name
        BY <1>2
      <3>5. s = r
        BY <3>2, <3>3, <3>4 DEF SchemaHolds
      <3>6. QED
        BY <2>3, <3>3, <3>4, <3>5
    <2>5. MergedRecipes(Documents(db'), Documents(saved'), Batch, k + 1, {})
      BY <1>2, <2>2, <2>4, OneMoreRecipe
    <2>6. BetweenRounds(Statements(call), Batch)'
      BY <1>1, <1>2, <2>1, <2>2, <2>5 DEF BetweenRounds, m
    <2>7. QED
      BY <1>1, <2>6 DEF Midway, Batches
  <1>7. QED
    BY <1>4, <1>5, <1>6

\* A statement of the round, and its place.
LEMMA RoundStatement ==
    ASSUME IndInv, Underway, call \in Requests, call.op \in Batches,
           NEW k \in 0 .. Len(Batch) - 1, NEW recipe, recipe = Batch[k + 1],
           NEW u \in 0 .. Len(recipe.items) + 2,
           InRound(todo, UpsertRecipe(recipe), u, Statements(call), k + 2)
    PROVE  /\ recipe \in Recipes /\ Len(recipe.items) \in Nat /\ u \in Nat
           /\ Head1 = UpsertRecipe(recipe)[u + 1].stmt /\ Arg1 = UpsertRecipe(recipe)[u + 1].arg
           /\ InRound(Tail(todo), UpsertRecipe(recipe), u + 1, Statements(call), k + 2)
  <1> DEFINE list == Statements(call)
             round == UpsertRecipe(recipe)
  <1>1. recipe \in Recipes /\ IsList(list)
    <2>1. BatchListed(list, Batch, "next_recipe") /\ \A i \in 1 .. Len(Batch) : Batch[i] \in Recipes
      BY BatchIs DEF Batches
    <2>2. Len(Batch) \in Nat /\ IsList(list)
      BY <2>1 DEF BatchListed
    <2>3. k + 1 \in 1 .. Len(Batch)
      BY <2>2
    <2>4. QED
      BY <2>1, <2>2, <2>3
  <1>2. Len(recipe.items) \in Nat /\ IsList(round) /\ Len(round) = Len(recipe.items) + 3
    BY <1>1, UpsertListed
  <1>3. IsList(todo) /\ InRound(todo, round, u, list, k + 2)
    BY AlwaysSound
  <1> HIDE DEF list, round
  <1>4. IsList(todo) /\ IsList(round) /\ IsList(list) /\ InRound(todo, round, u, list, k + 2) /\ u < Len(round)
    BY <1>1, <1>2, <1>3
  <1>5. Head(todo) = round[u + 1] /\ InRound(Tail(todo), round, u + 1, list, k + 2)
    BY <1>4, RoundTail
  <1>6. QED
    BY <1>1, <1>2, <1>5 DEF Head1, Arg1, list, round

\* INSERT OR IGNORE.
LEMMA NamesRecipe ==
    ASSUME IndInv, Underway, call \in Requests, call.op \in Batches, Acts, Open,
           NEW k \in 0 .. Len(Batch) - 1, NEW recipe, recipe = Batch[k + 1],
           InRound(todo, UpsertRecipe(recipe), 0, Statements(call), k + 2),
           db.products = saved.products,
           MergedRecipes(Documents(db), Documents(saved), Batch, k, {})
    PROVE  Midway' /\ UNCHANGED Book!vars
  <1>1. /\ recipe \in Recipes /\ Len(recipe.items) \in Nat
        /\ Head1 = UpsertRecipe(recipe)[0 + 1].stmt /\ Arg1 = UpsertRecipe(recipe)[0 + 1].arg
        /\ InRound(Tail(todo), UpsertRecipe(recipe), 0 + 1, Statements(call), k + 2)
    <2>1. PICK u : u = 0
      OBVIOUS
    <2>2. recipe \in Recipes
      <3>1. BatchListed(Statements(call), Batch, "next_recipe") /\ \A i \in 1 .. Len(Batch) : Batch[i] \in Recipes
        BY BatchIs DEF Batches
      <3>2. Len(Batch) \in Nat
        BY <3>1 DEF BatchListed
      <3>3. k + 1 \in 1 .. Len(Batch)
        BY <3>2
      <3>4. QED
        BY <3>1, <3>3
    <2>3. u \in 0 .. Len(recipe.items) + 2
      BY <2>1, <2>2, AllItems
    <2>4. QED
      BY <2>1, <2>3, RoundStatement
  <1>2. Head1 = "insert_recipe_if_absent" /\ Arg1 = recipe.name /\ 0 + 1 = 1
    BY <1>1, UpsertListed
  <1>3. /\ UNCHANGED Book!vars
        /\ UNCHANGED <<saved, call, reply, value, applied>>
        /\ db' \in Written("insert_recipe_if_absent", recipe.name) /\ Open'
        /\ todo' = Tail(todo)
    <2>1. "insert_recipe_if_absent" \in Writing
      BY DEF Writing
    <2>2. QED
      BY <1>2, <2>1, WritesInRound
  <1>4. db' \in InsertRecipeIfAbsent(db, recipe.name)
    BY <1>3, WrittenIs
  <1>5. db'.products = db.products /\ Touches(Documents(db'), Documents(db), recipe.name)
    <2>1. Sound(db)
      BY AlwaysSound
    <2>2. QED
      BY <1>4, <2>1, InsertedRecipe
  <1>6. MergedRecipes(Documents(db'), Documents(saved), Batch, k, {recipe.name})
    BY <1>5, Touched
  <1>7. Batch' = Batch /\ Statements(call') = Statements(call)
    BY <1>3 DEF Batch
  <1>8. /\ db'.products = (saved').products
        /\ MergedRecipes(Documents(db'), Documents(saved'), Batch, k, IF 1 = 0 THEN {} ELSE {recipe.name})
    BY <1>3, <1>5, <1>6
  <1>9. 1 \in 0 .. Len(recipe.items) + 2 /\ ~(1 >= 2) /\ ~(1 >= 3)
    BY <1>1
  <1>10. WithinRound(Statements(call), Batch)'
    <2>1. InRound(todo', UpsertRecipe(recipe), 1, Statements(call), k + 2)
      BY <1>1, <1>2, <1>3
    <2>2. QED
      BY <1>3, <1>7, <1>8, <1>9, <2>1 DEF WithinRound
  <1>11. QED
    BY <1>3, <1>10 DEF Midway, Batches

\* SELECT id, for the name is there now.
LEMMA FindsRecipe ==
    ASSUME IndInv, Underway, call \in Requests, call.op \in Batches, Acts, Open,
           NEW k \in 0 .. Len(Batch) - 1, NEW recipe, recipe = Batch[k + 1], 1 \in 0 .. Len(recipe.items) + 2,
           InRound(todo, UpsertRecipe(recipe), 1, Statements(call), k + 2),
           db.products = saved.products,
           MergedRecipes(Documents(db), Documents(saved), Batch, k, {recipe.name})
    PROVE  Midway' /\ UNCHANGED Book!vars
  <1>1. /\ recipe \in Recipes /\ Len(recipe.items) \in Nat
        /\ Head1 = UpsertRecipe(recipe)[1 + 1].stmt /\ Arg1 = UpsertRecipe(recipe)[1 + 1].arg
        /\ InRound(Tail(todo), UpsertRecipe(recipe), 1 + 1, Statements(call), k + 2)
    BY RoundStatement
  <1>2. Head1 = "select_recipe_id_by_name" /\ Arg1 = recipe.name /\ 1 + 1 = 2
    BY <1>1, UpsertListed
  <1>3. Read
    BY <1>2, KindOfStep DEF Reading
  <1>4. /\ UNCHANGED <<db, saved, call, reply, applied>> /\ todo' = Tail(todo)
        /\ value' = value /\ rowid' = RecipeIdByName(db, recipe.name)
    BY <1>2, <1>3 DEF Read, ValuesRead
  <1>5. NameTaken(db, recipe.name)
    BY <1>2, <1>3, FirstStatement DEF Read
  <1>6. \E r \in db'.recipes : r.id = rowid' /\ r.name = recipe.name
    BY <1>4, <1>5 DEF NameTaken, RecipeIdByName
  <1>7. Open' /\ Batch' = Batch /\ Statements(call') = Statements(call)
    BY <1>4 DEF Open, Batch
  <1>8. UNCHANGED Book!vars
    <2>1. Durable' = Durable
      BY <1>4 DEF Durable
    <2>2. QED
      BY <1>4, <2>1, BookStutters
  <1>9. /\ db'.products = (saved').products
        /\ MergedRecipes(Documents(db'), Documents(saved'), Batch, k, IF 2 = 0 THEN {} ELSE {recipe.name})
    BY <1>4
  <1>10. 2 \in 0 .. Len(recipe.items) + 2 /\ ~(2 >= 3)
    BY <1>1
  <1>11. WithinRound(Statements(call), Batch)'
    <2>1. InRound(todo', UpsertRecipe(recipe), 2, Statements(call), k + 2)
      BY <1>1, <1>2, <1>4
    <2>2. QED
      BY <1>4, <1>6, <1>7, <1>9, <1>10, <2>1 DEF WithinRound
  <1>12. QED
    BY <1>4, <1>8, <1>11 DEF Midway, Batches

\* The ingredients go, and come one by one.
LEMMA FillsRecipe ==
    ASSUME IndInv, IndInv', Underway, call \in Requests, call.op \in Batches, Acts, Open,
           NEW k \in 0 .. Len(Batch) - 1, NEW recipe, recipe = Batch[k + 1],
           NEW u \in 0 .. Len(recipe.items) + 2, u >= 2,
           InRound(todo, UpsertRecipe(recipe), u, Statements(call), k + 2),
           db.products = saved.products,
           MergedRecipes(Documents(db), Documents(saved), Batch, k, {recipe.name}),
           NEW r \in db.recipes, r.id = rowid, r.name = recipe.name,
           u >= 3 => ItemsOf(db, rowid) = LastItems(recipe.items, u - 3)
    PROVE  Midway' /\ UNCHANGED Book!vars
  <1>1. /\ recipe \in Recipes /\ Len(recipe.items) \in Nat /\ u \in Nat
        /\ Head1 = UpsertRecipe(recipe)[u + 1].stmt /\ Arg1 = UpsertRecipe(recipe)[u + 1].arg
        /\ InRound(Tail(todo), UpsertRecipe(recipe), u + 1, Statements(call), k + 2)
    BY RoundStatement
  <1>2. Sound(db) /\ SchemaHolds(db) /\ SchemaHolds(db')
    BY AlwaysSound DEF IndInv
  <1>3. u + 1 \in 3 .. Len(recipe.items) + 3
    BY <1>1
  <1>4. ASSUME NEW stmt \in Writing \ {"create_product", "create_recipe"}, Head1 = stmt,
               OnlyItemsOf(db, db', rowid),
               ItemsOf(db', rowid) = LastItems(recipe.items, (u + 1) - 3)
        PROVE  Midway' /\ UNCHANGED Book!vars
    <2>1. /\ Write
          /\ UNCHANGED Book!vars
          /\ UNCHANGED <<saved, call, reply, value, applied>>
          /\ Open'
          /\ todo' = Tail(todo)
      BY <1>4, WritesInRound
    <2>2. rowid' = rowid
      BY <1>4, <2>1, SameRowid
    <2>3. Touches(Documents(db'), Documents(db), recipe.name)
      <3>1. OnlyItemsOf(db, db', r.id)
        BY <1>4
      <3>2. Touches(Documents(db'), Documents(db), r.name)
        BY <1>2, <3>1, ItemsTouch
      <3>3. QED
        BY <3>2
    <2>4. MergedRecipes(Documents(db'), Documents(saved'), Batch, k, {recipe.name})
      <3>1. MergedRecipes(Documents(db'), Documents(saved), Batch, k, {recipe.name})
        BY <2>3, Touched
      <3>2. QED
        BY <2>1, <3>1
    <2>5. db'.products = (saved').products /\ r \in db'.recipes
      BY <1>4, <2>1 DEF OnlyItemsOf
    <2>6. Batch' = Batch /\ Statements(call') = Statements(call)
      BY <2>1 DEF Batch
    <2>7. RoundAt(k, u + 1, recipe)'
      BY <1>1, <1>4, <2>1, <2>2, <2>4, <2>5, <2>6 DEF RoundAt
    <2>8. Midway'
      BY <1>2, <1>3, <2>1, <2>7, RoundGoesOn
    <2>9. QED
      BY <2>1, <2>8
  <1>5. CASE u = 2
    <2>1. Head1 = "delete_recipe_ingredients_by_recipe_id"
      <3>1. UpsertRecipe(recipe)[3].stmt = "delete_recipe_ingredients_by_recipe_id" /\ u + 1 = 3
        BY <1>1, <1>5, UpsertListed
      <3>2. QED
        BY <1>1, <3>1
    <2>2. "delete_recipe_ingredients_by_recipe_id" \in Writing \ {"create_product", "create_recipe"}
      BY DEF Writing
    <2>3. db' \in Written("delete_recipe_ingredients_by_recipe_id", Arg1)
      BY <2>1, <2>2, WritesInRound
    <2>4. db' = DeleteIngredients(db, rowid)
      BY <2>3, WrittenIs
    <2>5. OnlyItemsOf(db, db', rowid) /\ ItemsOf(db', rowid) = {}
      BY <1>2, <2>4, DeletedIngredients
    <2>6. ItemsOf(db', rowid) = LastItems(recipe.items, (u + 1) - 3)
      <3>1. (u + 1) - 3 = 0
        BY <1>5
      <3>2. QED
        BY <2>5, <3>1, NoItemYet
    <2>7. QED
      BY <1>4, <2>1, <2>2, <2>5, <2>6
  <1>6. CASE u >= 3
    <2> DEFINE j == u - 3
    <2>1. j \in Nat /\ j + 1 \in 1 .. Len(recipe.items) /\ (j + 1) + 3 = u + 1 /\ (u + 1) - 3 = j + 1
      BY <1>1, <1>6
    <2>2. ItemsOf(db, rowid) = LastItems(recipe.items, j)
      BY <1>6
    <2> HIDE DEF j
    <2>3. Head1 = "insert_recipe_ingredient" /\ Arg1 = recipe.items[j + 1] /\ recipe.items[j + 1] \in Products
      <3>1. /\ UpsertRecipe(recipe)[(j + 1) + 3].stmt = "insert_recipe_ingredient"
            /\ UpsertRecipe(recipe)[(j + 1) + 3].arg = recipe.items[j + 1]
        BY <1>1, <2>1, UpsertListed
      <3>2. recipe.items[j + 1] \in Products
        BY <1>1, <2>1, AllItems
      <3>3. QED
        BY <1>1, <2>1, <3>1, <3>2
    <2>4. "insert_recipe_ingredient" \in Writing \ {"create_product", "create_recipe"}
      BY DEF Writing
    <2>5. db' \in Written("insert_recipe_ingredient", recipe.items[j + 1])
      BY <2>3, <2>4, WritesInRound
    <2>6. db' = PutIngredient(db, rowid, recipe.items[j + 1])
      BY <2>5, WrittenIs
    <2>7. /\ OnlyItemsOf(db, db', rowid)
          /\ ItemsOf(db', rowid) = {x \in ItemsOf(db, rowid) : x.key # recipe.items[j + 1].key} \cup {recipe.items[j + 1]}
      BY <1>2, <2>3, <2>6, PutOneIngredient
    <2>8. ItemsOf(db', rowid) = LastItems(recipe.items, (u + 1) - 3)
      <3>1. ItemsOf(db', rowid) = LastItems(recipe.items, j + 1)
        BY <2>1, <2>2, <2>7, OneMoreItem
      <3>2. QED
        BY <2>1, <3>1
    <2>9. QED
      BY <1>4, <2>3, <2>4, <2>7, <2>8
  <1>7. QED
    BY <1>1, <1>5, <1>6

\* No statement of a round is seen in the book.
LEMMA WithinOneRound ==
    ASSUME IndInv, IndInv', Underway, call \in Requests, call.op \in Batches, Acts,
           WithinRound(Statements(call), Batch)
    PROVE  Midway' /\ UNCHANGED Book!vars
  <1>1. PICK k \in 0 .. Len(Batch) - 1 :
            \E u \in 0 .. Len(Batch[k + 1].items) + 2 :
               /\ InRound(todo, UpsertRecipe(Batch[k + 1]), u, Statements(call), k + 2)
               /\ Open
               /\ db.products = saved.products
               /\ MergedRecipes(Documents(db), Documents(saved), Batch, k, IF u = 0 THEN {} ELSE {Batch[k + 1].name})
               /\ u >= 2 => \E r \in db.recipes : r.id = rowid /\ r.name = Batch[k + 1].name
               /\ u >= 3 => ItemsOf(db, rowid) = LastItems(Batch[k + 1].items, u - 3)
    BY DEF WithinRound
  <1>3. PICK recipe : recipe = Batch[k + 1]
    OBVIOUS
  <1>2. PICK u \in 0 .. Len(recipe.items) + 2 :
               /\ InRound(todo, UpsertRecipe(recipe), u, Statements(call), k + 2)
               /\ Open
               /\ db.products = saved.products
               /\ MergedRecipes(Documents(db), Documents(saved), Batch, k, IF u = 0 THEN {} ELSE {recipe.name})
               /\ u >= 2 => \E r \in db.recipes : r.id = rowid /\ r.name = recipe.name
               /\ u >= 3 => ItemsOf(db, rowid) = LastItems(recipe.items, u - 3)
    BY <1>1, <1>3
  <1>4. CASE u = 0
    <2>1. /\ InRound(todo, UpsertRecipe(recipe), 0, Statements(call), k + 2)
          /\ MergedRecipes(Documents(db), Documents(saved), Batch, k, {})
      BY <1>2, <1>4
    <2>2. QED
      BY <1>2, <1>3, <2>1, NamesRecipe
  <1>5. CASE u = 1
    <2>1. /\ InRound(todo, UpsertRecipe(recipe), 1, Statements(call), k + 2)
          /\ MergedRecipes(Documents(db), Documents(saved), Batch, k, {recipe.name})
          /\ 1 \in 0 .. Len(recipe.items) + 2
      BY <1>2, <1>5
    <2>2. QED
      BY <1>2, <1>3, <2>1, FindsRecipe
  <1>6. CASE u >= 2
    <2>1. PICK r \in db.recipes : r.id = rowid /\ r.name = recipe.name
      BY <1>2, <1>6
    <2>2. MergedRecipes(Documents(db), Documents(saved), Batch, k, {recipe.name})
      BY <1>2, <1>6
    <2>3. QED
      BY <1>2, <1>3, <1>6, <2>1, <2>2, FillsRecipe
  <1>7. QED
    BY <1>4, <1>5, <1>6
-----------------------------------------------------------------------------
(* All steps.                                                              *)

\* What the next statement of a call does to it and to the book.
LEMMA ActStep ==
    ASSUME IndInv, IndInv', Underway, call \in Requests, Accepted(call), todo # <<>>, Acts
    PROVE  /\ Fresh' \/ Answered' \/ Midway'
           /\ UNCHANGED Book!vars \/ Book!TakeEffect
  <1>1. CASE Fresh
    <2>1. CASE call.op \in SingleWrites
      <3>1. PICK stmt \in Writing : \E arg : Only(Statements(call), stmt, arg)
        BY <2>1, SingleListed DEF SingleWrites, Writing
      <3>2. Write
        <4>1. PICK arg : Only(Statements(call), stmt, arg)
          BY <3>1
        <4>2. IsList(todo) /\ Only(Statements(call), stmt, arg) /\ At(todo, Statements(call), 0)
          BY <1>1, <4>1, AlwaysSound DEF Fresh
        <4>3. Head1 = stmt
          BY <4>2, OnlyStatement DEF Head1
        <4>4. QED
          BY <4>3, KindOfStep
      <3>3. QED
        BY <1>1, <2>1, <3>2, SingleWrite
    <2>2. CASE call.op \in Book!Reads
      <3>1. PICK stmt \in Reading : \E arg : Only(Statements(call), stmt, arg)
        BY <2>2, SingleListed DEF Book!Reads, Reading
      <3>2. Read
        <4>1. PICK arg : Only(Statements(call), stmt, arg)
          BY <3>1
        <4>2. IsList(todo) /\ Only(Statements(call), stmt, arg) /\ At(todo, Statements(call), 0)
          BY <1>1, <4>1, AlwaysSound DEF Fresh
        <4>3. Head1 = stmt
          BY <4>2, OnlyStatement DEF Head1
        <4>4. QED
          BY <4>3, KindOfStep
      <3>3. QED
        BY <1>1, <2>2, <3>2, SingleRead
    <2>3. CASE call.op = "CreateProduct"
      <3>1. Head1 = "create_product"
        <4>1. IsList(todo) /\ IsList(Statements(call)) /\ At(todo, Statements(call), 0) /\ 0 < Len(Statements(call))
          BY <1>1, <2>3, AlwaysSound, CreateProductListed DEF Fresh
        <4>2. Head(todo) = Statements(call)[0 + 1]
          BY <4>1, AtTail
        <4>3. QED
          BY <2>3, <4>2, CreateProductListed DEF Head1
      <3>2. Write
        BY <3>1, KindOfStep DEF Writing
      <3>3. QED
        BY <1>1, <2>3, <3>2, CreatesProduct DEF Midway
    <2>4. CASE call.op \in InTransactions
      BY <1>1, <2>4, BeginsTransaction
    <2>5. QED
      BY <2>1, <2>2, <2>3, <2>4, Arguments DEF SingleWrites, Book!Reads, InTransactions
  <1>2. CASE ReadingBack
    <2>1. Head1 \in Reading
      <3> DEFINE p == Len(Statements(call)) - 1
      <3>1. IsList(todo) /\ IsList(Statements(call)) /\ At(todo, Statements(call), p)
        BY <1>2, AlwaysSound, ListOfCall DEF ReadingBack
      <3>2. p + 1 = Len(Statements(call))
        BY <3>1 DEF IsList
      <3> HIDE DEF p
      <3>3. Head(todo) = Statements(call)[Len(Statements(call))]
        BY <3>1, <3>2, LastStatement
      <3>4. QED
        BY <1>2, <3>3, CreateProductListed, RecipeListed DEF ReadingBack, Head1, Reading
    <2>2. Read
      BY <2>1, KindOfStep
    <2>3. QED
      BY <1>2, <2>2, ReadsBack
  <1>3. CASE call.op = "InsertProducts" /\ Inserting(Statements(call), call.arg)
    BY <1>3, InsertsProducts
  <1>4. CASE call.op \in {"CreateRecipe", "UpdateRecipe"} /\ Recording(Statements(call), call.arg)
    BY <1>4, RecordsRecipe
  <1>5. CASE call.op \in {"InsertRecipe", "InsertRecipes"} /\ BetweenRounds(Statements(call), Batch)
    BY <1>5, BetweenTwoRounds DEF Batches
  <1>6. CASE call.op \in {"InsertRecipe", "InsertRecipes"} /\ WithinRound(Statements(call), Batch)
    BY <1>6, WithinOneRound DEF Batches
  <1>7. CASE Answered
    BY <1>7 DEF Answered
  <1>8. QED
    <2>1. call # NoCall
      BY Arguments
    <2>2. Fresh \/ Answered \/ Midway
      BY <2>1 DEF Underway
    <2>3. QED
      BY <1>1, <1>2, <1>3, <1>4, <1>5, <1>6, <1>7, <2>2 DEF Midway

\* The tables stay finite.
LEMMA FiniteStep ==
    ASSUME IndInv, Underway, Acts
    PROVE  IsFiniteSet(db'.ingredients) /\ IsFiniteSet((Durable').ingredients)
  <1>1. IsFiniteSet(db.ingredients) /\ IsFiniteSet(Durable.ingredients) /\ Sound(db)
    BY AlwaysSound DEF Underway
  <1>2. IsFiniteSet(db'.ingredients)
    <2>1. CASE Write
      <3>1. /\ Head1 \in Writing /\ db' \in Written(Head1, Arg1)
            /\ Head1 = "insert_product" => Arg1 \in Products
        BY <2>1, FirstStatement DEF Write, AboutProducts
      <3>2. PICK stmt, arg : stmt = Head1 /\ arg = Arg1
        OBVIOUS
      <3>3. /\ stmt \in Writing /\ db' \in Written(stmt, arg)
            /\ stmt = "insert_product" => arg \in Products
        BY <3>1, <3>2
      <3>4. QED
        BY <1>1, <3>3, StaysFinite
    <2>2. CASE ~Write
      <3>1. db' = db
        BY <2>2 DEF Acts, Begin, Commit, NextRecipe, Read
      <3>2. QED
        BY <1>1, <3>1
    <2>3. QED
      BY <2>1, <2>2
  <1>3. Durable' \in {Durable, db, db'}
    BY DEF Acts, Begin, Commit, NextRecipe, Read, Write, Durable
  <1>4. QED
    BY <1>1, <1>2, <1>3

\* Before its first statement.
LEMMA CallStep ==
    ASSUME IndInv, Underway, NEW c \in Requests, Call(c)
    PROVE  Underway' /\ Book!Next
  <1>1. /\ call = NoCall /\ call' = c /\ todo' = IF Accepted(c) THEN Statements(c) ELSE <<>>
        /\ rowid' = c.id /\ value' = Null /\ reply' = Null /\ applied' = FALSE /\ UNCHANGED <<db, saved>>
    BY DEF Call
  <1>2. saved = Null
    BY <1>1 DEF IndInv, TodoKnown
  <1>3. Durable' = Durable
    BY <1>1 DEF Durable
  <1>4. IsFiniteSet(db'.ingredients) /\ IsFiniteSet((Durable').ingredients)
    BY <1>1, <1>3 DEF Underway
  <1>5. ASSUME Accepted(c)
        PROVE  Fresh'
    <2>1. At(Statements(c), Statements(c), 0)
      BY ListOfCall, AtStart
    <2>2. QED
      BY <1>1, <1>2, <1>5, <2>1 DEF Fresh
  <1>6. Underway'
    BY <1>1, <1>2, <1>4, <1>5 DEF Underway
  <1>7. Book!Request
    BY <1>1, <1>3 DEF Book!Request
  <1>8. QED
    BY <1>6, <1>7 DEF Book!Next

\* Between its first and its last statement a call has been accepted.
LEMMA TodoAccepted ==
    ASSUME IndInv, Underway, todo # <<>>
    PROVE  call \in Requests /\ call # NoCall /\ Accepted(call)
  BY DEF IndInv, TodoKnown, Underway

\* The statements that may find nothing to change, and where they stand.
Finding == {"update_product_by_id", "delete_product_by_id", "update_recipe_name_by_id", "delete_recipe_by_id"}

\* Such a statement is the only one of its call, or follows the BEGIN of
\* UpdateRecipe.
LEMMA FindingAt ==
    ASSUME NEW c \in Requests, NEW i \in 1 .. Len(Statements(c)), Statements(c)[i].stmt \in Finding
    PROVE  \/ c.op \in {"UpdateProduct", "DeleteProduct", "DeleteRecipe"} /\ i = 1
           \/ c.op = "UpdateRecipe" /\ i = 2
  <1> DEFINE list == Statements(c)
  <1>1. i \in 1 .. Len(list) /\ list[i].stmt \in Finding
    OBVIOUS
  <1>2. ASSUME NEW stmt, NEW arg, Only(list, stmt, arg)
        PROVE  i = 1 /\ list[i].stmt = stmt
    BY <1>1, <1>2 DEF Only
  <1>3. CASE c.op \in {"GetProduct", "GetProducts", "UpdateProduct", "DeleteProduct", "InsertProduct", "GetRecipe",
                       "GetRecipes", "GetCookableRecipes", "DeleteRecipe"}
    BY <1>1, <1>2, <1>3, SingleListed DEF Finding
  <1>4. CASE c.op = "CreateProduct"
    <2>1. Len(list) = 2 /\ list[1].stmt = "create_product" /\ list[2].stmt = "select_product_by_id"
      BY <1>4, CreateProductListed
    <2>2. QED
      BY <1>1, <2>1 DEF Finding
  <1>5. ASSUME NEW stmt, RecordListed(list, c.arg, stmt),
               \/ Len(list) = Len(c.arg.items) + 4
               \/ /\ Len(list) = Len(c.arg.items) + 5
                  /\ list[Len(c.arg.items) + 5].stmt = "select_recipe_by_id_with_ingredients"
        PROVE  i = 2 /\ list[i].stmt = stmt
    <2> DEFINE n == Len(c.arg.items)
    <2>1. /\ n \in Nat
          /\ list[1].stmt = "BEGIN" /\ list[2].stmt = stmt
          /\ list[3].stmt = "delete_recipe_ingredients_by_recipe_id"
          /\ \A j \in 1 .. n : list[j + 3].stmt = "insert_recipe_ingredient"
          /\ list[n + 4].stmt = "COMMIT"
      BY <1>5 DEF RecordListed
    <2>2. Len(list) = n + 4 \/ (Len(list) = n + 5 /\ list[n + 5].stmt = "select_recipe_by_id_with_ingredients")
      BY <1>5
    <2> HIDE DEF list, n
    <2>3. i = 1 \/ i = 2 \/ i = 3 \/ (i - 3 \in 1 .. n /\ (i - 3) + 3 = i) \/ i = n + 4 \/ (i = n + 5 /\ Len(list) = n + 5)
      BY <1>1, <2>1, <2>2
    <2>4. i = 2
      <3>1. ASSUME i - 3 \in 1 .. n, (i - 3) + 3 = i
            PROVE  list[i].stmt = "insert_recipe_ingredient"
        <4>1. list[(i - 3) + 3].stmt = "insert_recipe_ingredient"
          BY <2>1, <3>1
        <4>2. QED
          BY <3>1, <4>1
      <3>2. n + 4 # n + 5
        BY <2>1
      <3>3. QED
        BY <1>1, <2>1, <2>2, <2>3, <3>1, <3>2 DEF Finding
    <2>5. QED
      BY <2>1, <2>4
  <1>6. CASE c.op = "CreateRecipe"
    <2>1. list[i].stmt = "create_recipe"
      BY <1>5, <1>6, RecipeListed
    <2>2. QED
      BY <1>1, <2>1 DEF Finding
  <1>7. CASE c.op = "UpdateRecipe"
    BY <1>5, <1>7, RecipeListed
  <1>8. ASSUME NEW args, NEW stmt, BatchListed(list, args, stmt), stmt \notin Finding
        PROVE  FALSE
    <2> DEFINE m == Len(args)
    <2>1. /\ m \in Nat /\ Len(list) = m + 2
          /\ list[1].stmt = "BEGIN" /\ list[m + 2].stmt = "COMMIT"
          /\ \A j \in 1 .. m : list[j + 1].stmt = stmt
      BY <1>8 DEF BatchListed
    <2> HIDE DEF list, m
    <2>2. i = 1 \/ (i - 1 \in 1 .. m /\ (i - 1) + 1 = i) \/ i = m + 2
      BY <1>1, <2>1
    <2>3. ASSUME i - 1 \in 1 .. m, (i - 1) + 1 = i
          PROVE  list[i].stmt = stmt
      <3>1. list[(i - 1) + 1].stmt = stmt
        BY <2>1, <2>3
      <3>2. QED
        BY <2>3, <3>1
    <2>4. QED
      BY <1>1, <1>8, <2>1, <2>2, <2>3 DEF Finding
  <1>9. CASE c.op \in {"InsertProducts", "InsertRecipe", "InsertRecipes"}
    <2>1. "insert_product" \notin Finding /\ "next_recipe" \notin Finding
      BY DEF Finding
    <2>2. QED
      BY <1>8, <1>9, <2>1, BatchesListed
  <1>10. QED
    BY <1>3, <1>4, <1>6, <1>7, <1>9, Arguments

\* A statement that finds nothing to change: the call's product or recipe is not
\* in the book.
LEMMA NothingFound ==
    ASSUME IndInv, Underway, todo # <<>>, ChangesNothing(Head1)
    PROVE  ~applied /\ Book!Absent(call.op, call.id)
  <1>1. /\ call \in Requests /\ call # NoCall /\ Accepted(call)
        /\ IsList(todo) /\ IsList(Statements(call))
        /\ (Fresh \/ Answered \/ Midway)
    BY TodoAccepted, AlwaysSound, ListOfCall DEF Underway
  <1>2. /\ Head1 \in Finding
        /\ Head1 \in {"update_product_by_id", "delete_product_by_id"} => ~HasProduct(db, rowid)
        /\ Head1 \in {"update_recipe_name_by_id", "delete_recipe_by_id"} => ~HasRecipe(db, rowid)
    BY DEF ChangesNothing, Finding
  <1>3. ASSUME NEW p, At(todo, Statements(call), p)
        PROVE  \/ call.op \in {"UpdateProduct", "DeleteProduct", "DeleteRecipe"}
               \/ call.op = "UpdateRecipe" /\ p = 1
    <2>1. Head(todo) = Statements(call)[p + 1] /\ p + 1 \in 1 .. Len(Statements(call)) /\ p \in Nat
      <3>1. IsList(todo) /\ IsList(Statements(call)) /\ At(todo, Statements(call), p) /\ todo # <<>>
        BY <1>1, <1>3
      <3>2. QED
        BY <3>1, AtTail
    <2>2. PICK i : i = p + 1
      OBVIOUS
    <2>3. i \in 1 .. Len(Statements(call)) /\ Statements(call)[i].stmt \in Finding
      BY <1>2, <2>1, <2>2 DEF Head1
    <2>4. \/ call.op \in {"UpdateProduct", "DeleteProduct", "DeleteRecipe"} /\ i = 1
          \/ call.op = "UpdateRecipe" /\ i = 2
      BY <1>1, <2>3, FindingAt
    <2>5. QED
      BY <2>1, <2>2, <2>4
  <1>4. CASE Fresh
    <2>1. At(todo, Statements(call), 0) /\ ~applied /\ rowid = call.id /\ Durable = db
      BY <1>4 DEF Fresh, Durable
    <2>2. call.op \in {"UpdateProduct", "DeleteProduct", "DeleteRecipe"}
      <3>1. 0 # 1
        OBVIOUS
      <3>2. QED
        BY <1>3, <2>1, <3>1
    <2>3. ASSUME NEW stmt, NEW arg, Only(Statements(call), stmt, arg)
          PROVE  Head1 = stmt
      <3>1. IsList(todo) /\ Only(Statements(call), stmt, arg) /\ At(todo, Statements(call), 0)
        BY <1>1, <2>1, <2>3
      <3>2. QED
        BY <3>1, OnlyStatement DEF Head1
    <2>4. \/ call.op \in {"UpdateProduct", "DeleteProduct"} /\ Head1 \in {"update_product_by_id", "delete_product_by_id"}
          \/ call.op = "DeleteRecipe" /\ Head1 = "delete_recipe_by_id"
      BY <2>2, <2>3, SingleListed
    <2>5. CASE call.op \in {"UpdateProduct", "DeleteProduct"}
      BY <1>2, <2>1, <2>4, <2>5 DEF Book!Absent, HasProduct
    <2>6. CASE call.op = "DeleteRecipe"
      BY <1>2, <2>1, <2>4, <2>6 DEF Book!Absent, HasRecipe, Documents
    <2>7. QED
      BY <2>2, <2>5, <2>6, <2>1
  <1>5. CASE Answered
    BY <1>5 DEF Answered
  <1>6. CASE ReadingBack
    <2>1. PICK p : p = Len(Statements(call)) - 1 /\ At(todo, Statements(call), p)
      BY <1>6 DEF ReadingBack
    <2>2. QED
      BY <1>3, <1>6, <2>1 DEF ReadingBack
  <1>7. CASE call.op = "InsertProducts" /\ Inserting(Statements(call), call.arg)
    <2>1. PICK p : At(todo, Statements(call), p)
      BY <1>7 DEF Inserting
    <2>2. QED
      BY <1>3, <1>7, <2>1
  <1>8. CASE call.op \in {"CreateRecipe", "UpdateRecipe"} /\ Recording(Statements(call), call.arg)
    <2>1. CASE At(todo, Statements(call), 1) /\ db = saved /\ rowid = call.id
      <3>1. call.op = "UpdateRecipe"
        BY <1>3, <1>8, <2>1
      <3>2. ~applied /\ Durable = db
        BY <1>8, <2>1 DEF Recording, Open, Durable
      <3>3. Head1 = "update_recipe_name_by_id"
        <4>1. RecordListed(Statements(call), call.arg, "update_recipe_name_by_id")
          BY <1>1, <3>1, RecipeListed
        <4>2. Statements(call)[1 + 1].stmt = "update_recipe_name_by_id"
          BY <4>1 DEF RecordListed
        <4>3. IsList(todo) /\ IsList(Statements(call)) /\ At(todo, Statements(call), 1) /\ todo # <<>>
          BY <1>1, <2>1
        <4>4. Head(todo) = Statements(call)[1 + 1]
          BY <4>3, AtTail
        <4>5. QED
          BY <4>2, <4>4 DEF Head1
      <3>4. QED
        BY <1>2, <2>1, <3>1, <3>2, <3>3 DEF Book!Absent, HasRecipe, Documents
    <2>2. CASE At(todo, Statements(call), 2)
      BY <1>3, <1>8, <2>2
    <2>3. ASSUME NEW j \in 0 .. Len(call.arg.items), At(todo, Statements(call), j + 3)
          PROVE  FALSE
      <3>1. PICK p : p = j + 3 /\ p # 1
        OBVIOUS
      <3>2. QED
        BY <1>3, <1>8, <2>3, <3>1
    <2>4. QED
      BY <1>8, <2>1, <2>2, <2>3 DEF Recording
  <1>9. CASE call.op \in {"InsertRecipe", "InsertRecipes"} /\ BetweenRounds(Statements(call), Batch)
    <2>1. PICK p : At(todo, Statements(call), p)
      BY <1>9 DEF BetweenRounds
    <2>2. QED
      BY <1>3, <1>9, <2>1
  <1>10. CASE call.op \in {"InsertRecipe", "InsertRecipes"} /\ WithinRound(Statements(call), Batch)
    <2>1. PICK k \in 0 .. Len(Batch) - 1 :
              \E u \in 0 .. Len(Batch[k + 1].items) + 2 :
                  InRound(todo, UpsertRecipe(Batch[k + 1]), u, Statements(call), k + 2)
      BY <1>10 DEF WithinRound
    <2>2. PICK recipe : recipe = Batch[k + 1]
      OBVIOUS
    <2>3. PICK u \in 0 .. Len(recipe.items) + 2 : InRound(todo, UpsertRecipe(recipe), u, Statements(call), k + 2)
      BY <2>1, <2>2
    <2>4. /\ recipe \in Recipes /\ Len(recipe.items) \in Nat
          /\ Head1 = UpsertRecipe(recipe)[u + 1].stmt
      BY <1>1, <1>10, <2>2, <2>3, RoundStatement DEF Batches
    <2>5. UpsertRecipe(recipe)[u + 1].stmt \in {"insert_recipe_if_absent", "select_recipe_id_by_name",
                                               "delete_recipe_ingredients_by_recipe_id", "insert_recipe_ingredient"}
      <3>1. /\ UpsertRecipe(recipe)[1].stmt = "insert_recipe_if_absent"
            /\ UpsertRecipe(recipe)[2].stmt = "select_recipe_id_by_name"
            /\ UpsertRecipe(recipe)[3].stmt = "delete_recipe_ingredients_by_recipe_id"
            /\ \A j \in 1 .. Len(recipe.items) : UpsertRecipe(recipe)[j + 3].stmt = "insert_recipe_ingredient"
        BY <2>4, UpsertListed
      <3>2. u + 1 = 1 \/ u + 1 = 2 \/ u + 1 = 3 \/ (u - 2 \in 1 .. Len(recipe.items) /\ (u - 2) + 3 = u + 1)
        BY <2>4
      <3>3. QED
        BY <3>1, <3>2
    <2>6. QED
      BY <1>2, <2>4, <2>5 DEF Finding
  <1>11. QED
    BY <1>1, <1>4, <1>5, <1>6, <1>7, <1>8, <1>9, <1>10 DEF Midway
-----------------------------------------------------------------------------
(* The refinement.                                                         *)

\* Every call has a statement to execute.
LEMMA SomeStatement ==
    ASSUME NEW c \in Requests
    PROVE  Len(Statements(c)) \in Nat /\ Len(Statements(c)) > 0
  <1>1. CASE c.op \in {"GetProduct", "GetProducts", "UpdateProduct", "DeleteProduct", "InsertProduct", "GetRecipe",
                       "GetRecipes", "GetCookableRecipes", "DeleteRecipe"}
    <2>1. ASSUME NEW stmt, NEW arg, Only(Statements(c), stmt, arg)
          PROVE  Len(Statements(c)) = 1
      BY <2>1 DEF Only
    <2>2. Len(Statements(c)) = 1
      BY <1>1, <2>1, SingleListed
    <2>3. QED
      BY <2>2
  <1>2. CASE c.op = "CreateProduct"
    BY <1>2, CreateProductListed
  <1>3. CASE c.op \in InTransactions
    BY <1>3, BeginsWith, ListOfCall DEF IsList
  <1>4. QED
    BY <1>1, <1>2, <1>3, Arguments DEF InTransactions

\* With no statement left the call is neither at its beginning nor midway: a
\* transaction holds on to its COMMIT, the reading back is one more statement.
LEMMA NoneLeft ==
    ASSUME IndInv, Underway, call \in Requests, todo = <<>>
    PROVE  ~Fresh /\ ~Midway
  <1>1. Len(todo) = 0 /\ Len(Statements(call)) \in Nat /\ Len(Statements(call)) > 0
    BY SomeStatement
  <1>2. ~Open
    BY DEF Open, IndInv, TodoKnown
  <1>3. ~Fresh
    BY <1>1 DEF Fresh, At
  <1>4. ~ReadingBack
    BY <1>1 DEF ReadingBack, At
  <1>5. QED
    BY <1>2, <1>3, <1>4 DEF Midway, Inserting, Recording, BetweenRounds, WithinRound

\* The steps that end a call answer it, and a crash forgets it.
LEMMA AnswerSteps ==
    ASSUME IndInv, Underway, ReturnFalse \/ ConstraintFails \/ ResetFails \/ StorageFails \/ Return \/ Crash
    PROVE  Underway' /\ Book!Next
  <1>1. CASE ReturnFalse
    <2>1. todo # <<>> /\ ChangesNothing(Head1) /\ Answer("NotFound", Null)
      BY <1>1 DEF ReturnFalse
    <2>2. call # NoCall /\ ~applied /\ Book!Absent(call.op, call.id)
      BY <2>1, TodoAccepted, NothingFound
    <2>3. QED
      BY <2>1, <2>2, Answering
  <1>2. CASE ConstraintFails \/ ResetFails \/ StorageFails
    <2>1. todo # <<>> /\ Answer("Storage", Null)
      BY <1>2 DEF ConstraintFails, ResetFails, StorageFails
    <2>2. call # NoCall /\ Accepted(call)
      BY <2>1, TodoAccepted
    <2>3. QED
      BY <2>1, <2>2, Answering
  <1>3. CASE Return
    <2>1. call # NoCall /\ todo = <<>>
      BY <1>3 DEF Return
    <2>2. CASE Accepted(call)
      <3>1. Answer("ok", value)
        BY <1>3, <2>2 DEF Return
      <3>2. Answered
        <4>1. call \in Requests /\ IsList(Statements(call)) /\ todo = <<>>
          BY <2>1, ListOfCall DEF IndInv
        <4>2. ~Fresh /\ ~Midway
          BY <2>1, <4>1, NoneLeft
        <4>3. QED
          BY <2>1, <2>2, <4>2 DEF Underway
      <3>3. (applied \/ call.op \in Book!Reads) /\ Book!Answers(call.op, call.id, call.arg, value)
        BY <3>2 DEF Answered
      <3>4. QED
        BY <2>1, <3>1, <3>3, Answering
    <2>3. CASE ~Accepted(call)
      <3>1. Answer("Validation", Null) /\ ~applied
        BY <1>3, <2>1, <2>3 DEF Return, Underway
      <3>2. QED
        BY <2>1, <2>3, <3>1, Answering
    <2>4. QED
      BY <2>2, <2>3
  <1>4. CASE Crash
    <2>1. call' = NoCall /\ reply' = Null /\ db' = Durable /\ saved' = Null
      BY <1>4 DEF Crash
    <2>2. Durable' = Durable
      BY <2>1 DEF Durable
    <2>3. Underway'
      BY <2>1, <2>2 DEF Underway
    <2>4. Book!Crash
      BY <2>1, <2>2 DEF Book!Crash
    <2>5. QED
      BY <2>3, <2>4 DEF Book!Next
  <1>5. QED
    BY <1>1, <1>2, <1>3, <1>4

\* The empty tables are the empty book.
LEMMA InitUnderway == Init => Underway /\ Book!Init
  <1> SUFFICES ASSUME Init PROVE Underway /\ Book!Init
    OBVIOUS
  <1>1. Durable = db /\ db = EmptyDb /\ call = NoCall /\ applied = FALSE /\ reply = Null
    BY DEF Init, Durable
  <1>2. db.products = {} /\ db.recipes = {} /\ db.ingredients = {}
    BY <1>1 DEF EmptyDb
  <1>3. IsFiniteSet({})
    BY FS_EmptySet
  <1>4. Documents(Durable) = {}
    BY <1>1, <1>2 DEF Documents
  <1>5. QED
    BY <1>1, <1>2, <1>3, <1>4 DEF Underway, Book!Init

\* Each step of the database manager is a step of the book, or none at all.
LEMMA StepUnderway ==
    ASSUME IndInv, IndInv', Underway, [Next]_vars
    PROVE  Underway' /\ [Book!Next]_(Book!vars)
  <1>1. CASE \E c \in Requests : Call(c)
    BY <1>1, CallStep
  <1>2. CASE Acts
    <2>1. todo # <<>> /\ call' = call
      BY <1>2 DEF Acts, Begin, Commit, NextRecipe, Write, Read
    <2>2. call \in Requests /\ call # NoCall /\ Accepted(call)
      BY <2>1, TodoAccepted
    <2>3. /\ Fresh' \/ Answered' \/ Midway'
          /\ UNCHANGED Book!vars \/ Book!TakeEffect
      BY <1>2, <2>1, <2>2, ActStep
    <2>4. IsFiniteSet(db'.ingredients) /\ IsFiniteSet((Durable').ingredients)
      BY <1>2, FiniteStep
    <2>5. Accepted(call')
      BY <2>1, <2>2
    <2>6. Underway'
      BY <2>3, <2>4, <2>5 DEF Underway
    <2>7. QED
      BY <2>3, <2>6 DEF Book!Next
  <1>3. CASE ReturnFalse \/ ConstraintFails \/ ResetFails \/ StorageFails \/ Return \/ Crash
    BY <1>3, AnswerSteps
  <1>4. CASE UNCHANGED vars
    <2>1. UNCHANGED <<db, saved, call, todo, rowid, value, reply, applied>>
      BY <1>4 DEF vars
    <2>2. Durable' = Durable
      BY <2>1 DEF Durable
    <2>3. UNCHANGED Book!vars
      BY <2>1, <2>2, BookStutters
    <2>4. Batch' = Batch /\ Documents(Durable)' = Documents(Durable) /\ Documents(db)' = Documents(db)
      BY <2>1, <2>2 DEF Batch
    <2>5. Open' = Open /\ Put' = Put
      BY <2>1 DEF Open, Put
    <2>6. Fresh' = Fresh
      BY <2>1 DEF Fresh
    <2>7. Answered' = Answered
      BY <2>1, <2>2, <2>4 DEF Answered, Book!Answers, Book!Cookable
    <2>8. Midway' = Midway
      <3>1. ReadingBack' = ReadingBack
        BY <2>1, <2>4 DEF ReadingBack
      <3>2. Inserting(Statements(call), call.arg)' = Inserting(Statements(call), call.arg)
        BY <2>1, <2>5 DEF Inserting
      <3>3. Recording(Statements(call), call.arg)' = Recording(Statements(call), call.arg)
        BY <2>1, <2>5 DEF Recording
      <3>4. BetweenRounds(Statements(call), Batch)' = BetweenRounds(Statements(call), Batch)
        BY <2>1, <2>4, <2>5 DEF BetweenRounds
      <3>5. WithinRound(Statements(call), Batch)' = WithinRound(Statements(call), Batch)
        BY <2>1, <2>4, <2>5 DEF WithinRound
      <3>6. QED
        BY <2>1, <3>1, <3>2, <3>3, <3>4, <3>5 DEF Midway
    <2>9. Underway'
      BY <2>1, <2>2, <2>6, <2>7, <2>8 DEF Underway
    <2>10. QED
      BY <2>3, <2>9
  <1>5. QED
    BY <1>1, <1>2, <1>3, <1>4 DEF Next, Acts

\* A call is always where its statement list says: fresh, answered, reading
\* back what it created, or inside a transaction with a definite part of its
\* work done and none of it durable.
THEOREM AlwaysUnderway == Spec => []Underway
  <1>1. IndInv /\ Underway /\ [Next]_vars /\ IndInv' => Underway'
    BY StepUnderway
  <1>2. QED
    BY <1>1, InitUnderway, IndInvAlways, PTL DEF Spec

\* The database manager implements the recipe book: whatever a call executes,
\* across transactions, failing statements, rollbacks and crashes, it takes
\* effect at one instant and as a whole or not at all, its answer says which,
\* and a read answers with the book as it is at that instant.
THEOREM BookImplemented == Spec => ImplementsBook
  <1>1. IndInv /\ Underway /\ [Next]_vars /\ IndInv' => [Book!Next]_(Book!vars)
    BY StepUnderway
  <1>2. QED
    BY <1>1, InitUnderway, IndInvAlways, AlwaysUnderway, PTL DEF Spec, ImplementsBook, Book!Spec
-----------------------------------------------------------------------------
(* The tables by id.                                                       *)

UniqueIds(rows) == \A x, y \in rows : x.id = y.id => x = y

\* What stands under an id.
LEMMA Found ==
    ASSUME NEW k, NEW rows, UniqueIds(rows)
    PROVE  /\ DOMAIN ById(k, rows) = {x.id : x \in rows}
           /\ \A x \in rows : ById(k, rows)[x.id] = ContentsOf(k, x)
  <1>1. DOMAIN ById(k, rows) = {x.id : x \in rows}
    BY DEF ById
  <1>2. ASSUME NEW x \in rows PROVE ById(k, rows)[x.id] = ContentsOf(k, x)
    <2>1. (CHOOSE y \in rows : y.id = x.id) = x
      BY DEF UniqueIds
    <2>2. QED
      BY <2>1 DEF ById
  <1>3. QED
    BY <1>1, <1>2

\* One table under ids stands for another if each row of the other is found.
LEMMA SameById ==
    ASSUME NEW k, NEW rows, UniqueIds(rows), NEW f, f = [i \in DOMAIN f |-> f[i]],
           DOMAIN f = {x.id : x \in rows}, \A x \in rows : f[x.id] = ContentsOf(k, x)
    PROVE  ById(k, rows) = f
  <1>1. DOMAIN ById(k, rows) = DOMAIN f /\ ById(k, rows) = [i \in DOMAIN f |-> ById(k, rows)[i]]
    BY DEF ById
  <1>2. ASSUME NEW i \in DOMAIN f PROVE ById(k, rows)[i] = f[i]
    <2>1. PICK x \in rows : i = x.id
      OBVIOUS
    <2>2. ById(k, rows)[x.id] = ContentsOf(k, x)
      BY Found
    <2>3. QED
      BY <2>1, <2>2
  <1>3. QED
    BY <1>1, <1>2

\* A row under a new id.
LEMMA RowAdded ==
    ASSUME NEW k, NEW rows, UniqueIds(rows), NEW x, \A y \in rows : y.id # x.id
    PROVE  ById(k, rows \cup {x}) =
               [i \in DOMAIN ById(k, rows) \cup {x.id} |-> IF i = x.id THEN ContentsOf(k, x) ELSE ById(k, rows)[i]]
  <1> DEFINE f == [i \in DOMAIN ById(k, rows) \cup {x.id} |-> IF i = x.id THEN ContentsOf(k, x) ELSE ById(k, rows)[i]]
  <1>1. /\ DOMAIN ById(k, rows) = {y.id : y \in rows}
        /\ \A y \in rows : ById(k, rows)[y.id] = ContentsOf(k, y)
    BY Found
  <1>2. DOMAIN f = {y.id : y \in rows \cup {x}} /\ f = [i \in DOMAIN f |-> f[i]]
    BY <1>1
  <1>3. \A y \in rows \cup {x} : f[y.id] = ContentsOf(k, y)
    BY <1>1
  <1>4. UniqueIds(rows \cup {x})
    BY DEF UniqueIds
  <1> HIDE DEF f
  <1>5. ById(k, rows \cup {x}) = f
    BY <1>2, <1>3, <1>4, SameById
  <1>6. QED
    BY <1>5 DEF f

\* A row exchanged for one with the same id.
LEMMA RowReplaced ==
    ASSUME NEW k, NEW rows, UniqueIds(rows), NEW x, \E y \in rows : y.id = x.id
    PROVE  ById(k, {y \in rows : y.id # x.id} \cup {x}) = [ById(k, rows) EXCEPT ![x.id] = ContentsOf(k, x)]
  <1> DEFINE f == [ById(k, rows) EXCEPT ![x.id] = ContentsOf(k, x)]
             new == {y \in rows : y.id # x.id} \cup {x}
  <1>1. /\ DOMAIN ById(k, rows) = {y.id : y \in rows}
        /\ \A y \in rows : ById(k, rows)[y.id] = ContentsOf(k, y)
    BY Found
  <1>2. DOMAIN f = {y.id : y \in rows} /\ x.id \in DOMAIN f /\ f = [i \in DOMAIN f |-> f[i]]
    BY <1>1
  <1>3. DOMAIN f = {y.id : y \in new}
    BY <1>2
  <1>4. \A y \in new : f[y.id] = ContentsOf(k, y)
    BY <1>1
  <1>5. UniqueIds(new)
    BY DEF UniqueIds
  <1> HIDE DEF f, new
  <1>6. ById(k, new) = f
    BY <1>2, <1>3, <1>4, <1>5, SameById
  <1>7. QED
    BY <1>6 DEF f, new

\* A row taken away.
LEMMA RowRemoved ==
    ASSUME NEW k, NEW rows, UniqueIds(rows), NEW id
    PROVE  ById(k, {y \in rows : y.id # id}) = [i \in DOMAIN ById(k, rows) \ {id} |-> ById(k, rows)[i]]
  <1> DEFINE f == [i \in DOMAIN ById(k, rows) \ {id} |-> ById(k, rows)[i]]
             new == {y \in rows : y.id # id}
  <1>1. /\ DOMAIN ById(k, rows) = {y.id : y \in rows}
        /\ \A y \in rows : ById(k, rows)[y.id] = ContentsOf(k, y)
    BY Found
  <1>2. DOMAIN f = {y.id : y \in new} /\ f = [i \in DOMAIN f |-> f[i]]
    BY <1>1
  <1>3. \A y \in new : f[y.id] = ContentsOf(k, y)
    BY <1>1
  <1>4. UniqueIds(new)
    BY DEF UniqueIds
  <1> HIDE DEF f, new
  <1>5. ById(k, new) = f
    BY <1>2, <1>3, <1>4, SameById
  <1>6. QED
    BY <1>5 DEF f, new

\* An id means one product, and one recipe.
LEMMA IdsUnique ==
    ASSUME IndInv
    PROVE  /\ UniqueIds(Durable.products) /\ UniqueIds(Documents(Durable))
           /\ \A x \in Durable.products : x # Null /\ x.id \in 1 .. Durable.productSeq
           /\ \A x \in Documents(Durable) : x # Null /\ x.id \in 1 .. Durable.recipeSeq
  <1>1. Durable.products \subseteq [id : Int, key : Int, amount : Int] /\ SchemaHolds(Durable)
    BY DEF IndInv, Rows
  <1>2. \A x \in Durable.products : x # Null
    BY <1>1 DEF Null
  <1>3. ASSUME NEW x \in Documents(Durable)
        PROVE  /\ x # Null
               /\ \E r \in Durable.recipes : x = [id |-> r.id, name |-> r.name, items |-> ItemsOf(Durable, r.id)]
    BY DEF Documents, Null
  <1>4. UniqueIds(Documents(Durable))
    BY <1>1, <1>3 DEF SchemaHolds, UniqueIds
  <1>5. \A x \in Documents(Durable) : x.id \in 1 .. Durable.recipeSeq
    BY <1>1, <1>3 DEF SchemaHolds
  <1>6. QED
    BY <1>1, <1>2, <1>3, <1>4, <1>5 DEF SchemaHolds, UniqueIds
-----------------------------------------------------------------------------
(* The job.                                                                *)

\* What the call is to the router.
LEMMA JobIs ==
    ASSUME call \in Requests, FromRouter(call)
    PROVE  /\ Api!Kind(Job) = PathOf(call.op) \/ call.op = "GetCookableRecipes"
           /\ PathOf(call.op) \in {"products", "recipes"} \/ call.op = "GetCookableRecipes"
           /\ call.op \in {"CreateProduct", "CreateRecipe"} => Api!UseCase(Job) = "Create"
           /\ call.op \in {"UpdateProduct", "UpdateRecipe"} => Api!UseCase(Job) = "Update"
           /\ call.op \in {"DeleteProduct", "DeleteRecipe"} => Api!UseCase(Job) = "Delete"
           /\ call.op \in {"GetProduct", "GetRecipe"} => Api!UseCase(Job) = "Get"
           /\ call.op \in {"GetProducts", "GetRecipes"} => Api!UseCase(Job) = "List"
           /\ call.op = "GetCookableRecipes" => Api!UseCase(Job) = "Cookable"
  <1> DEFINE r == RequestOf(call)
  <1>1. call # NoCall /\ call.id \in Int
    BY Arguments, StoreAssumption
  <1>2. /\ r.verb = VerbOf(call.op) /\ r.target.path = PathOf(call.op)
        /\ r.target.id = IF call.op \in ItemOps THEN call.id ELSE 0
    BY DEF RequestOf
  <1>3. Api!UseCase(Job) = Api!HandlerOf(r)
    BY <1>1 DEF Api!UseCase, Job, Session
  <1>4. Api!Kind(Job) = IF r.target.path = "cookable" THEN "recipes" ELSE r.target.path
    BY <1>1 DEF Api!Kind, Job, Session
  <1>5. /\ Api!IsItem(r.target) <=> (r.target.path \in {"products", "recipes"} /\ r.target.id > 0)
        /\ Api!IsCollection(r.target) <=> (r.target.path \in {"products", "recipes"} /\ r.target.id = 0)
    BY DEF Api!IsItem, Api!IsCollection, Api!Kinds
  <1> HIDE DEF r
  <1>6. CASE call.op \in ItemOps
    <2>1. r.target.id > 0 /\ r.target.path \in {"products", "recipes"}
      BY <1>2, <1>6 DEF FromRouter, CollectionOps, ItemOps, PathOf
    <2>2. Api!IsItem(r.target) /\ ~Api!IsCollection(r.target) /\ r.target.path # "cookable"
      BY <1>1, <1>2, <1>5, <1>6, <2>1
    <2>3. r.verb = CASE call.op \in {"UpdateProduct", "UpdateRecipe"} -> "put"
                     [] call.op \in {"DeleteProduct", "DeleteRecipe"} -> "delete"
                     [] call.op \in {"GetProduct", "GetRecipe"} -> "get"
      BY <1>2, <1>6 DEF ItemOps, VerbOf, Book!Reads
    <2>4. QED
      BY <1>2, <1>3, <1>4, <1>6, <2>1, <2>2, <2>3 DEF ItemOps, Api!HandlerOf, Api!Kinds
  <1>7. CASE call.op \in CollectionOps
    <2>1. call.op \notin ItemOps /\ r.target.id = 0
      BY <1>2, <1>7 DEF ItemOps, CollectionOps
    <2>2. r.verb = IF call.op \in {"CreateProduct", "CreateRecipe"} THEN "post" ELSE "get"
      BY <1>2, <1>7 DEF CollectionOps, VerbOf, Book!Reads
    <2>3. r.target.path = CASE call.op \in {"CreateProduct", "GetProducts"} -> "products"
                            [] call.op \in {"CreateRecipe", "GetRecipes"} -> "recipes"
                            [] call.op = "GetCookableRecipes" -> "cookable"
      BY <1>2, <1>7 DEF CollectionOps, PathOf
    <2>4. ~Api!IsItem(r.target) /\ (Api!IsCollection(r.target) <=> r.target.path \in {"products", "recipes"})
      BY <1>5, <2>1
    <2>5. QED
      BY <1>2, <1>3, <1>4, <1>7, <2>2, <2>3, <2>4 DEF CollectionOps, Api!HandlerOf, Api!Kinds
  <1>8. QED
    BY <1>6, <1>7 DEF FromRouter

\* What a valid request gives, and when the router's job is refused.
LEMMA Given ==
    ASSUME call \in Requests, FromRouter(call)
    PROVE  /\ ~Book!Valid(call) => ContentsGiven(call) = Refused
           /\ Book!Valid(call) => /\ ContentsGiven(call) # Refused
                                  /\ call.op \in {"CreateProduct", "UpdateProduct"} =>
                                         \A x : Book!ProductIs(x, call.arg) =>
                                                    ContentsGiven(call) = ContentsOf("products", x)
                                  /\ call.op \in {"CreateRecipe", "UpdateRecipe"} =>
                                         \A x : Book!RecipeIs(x, call.arg) =>
                                                    ContentsGiven(call) = ContentsOf("recipes", x)
  <1>1. \A p : ContentsOf("products", p) = [key |-> p.key, amount |-> p.amount]
    BY DEF ContentsOf
  <1>2. \A x : ContentsOf("recipes", x) = [name |-> x.name, items |-> x.items]
    BY DEF ContentsOf
  <1>3. \A a, b : [key |-> a, amount |-> b] # Refused /\ [name |-> a, items |-> b] # Refused
    BY DEF Refused
  <1>4. Null # Refused
    BY DEF Refused, Null
  <1>5. ~Book!Valid(call) => ContentsGiven(call) = Refused
    BY DEF ContentsGiven
  <1>6. ASSUME Book!Valid(call), call.op \in {"CreateProduct", "UpdateProduct"}
        PROVE  ContentsGiven(call) = [key |-> call.arg.key, amount |-> call.arg.amount]
    BY <1>1, <1>6 DEF ContentsGiven
  <1>7. ASSUME Book!Valid(call), call.op \in {"CreateRecipe", "UpdateRecipe"}
        PROVE  ContentsGiven(call) = [name |-> call.arg.name, items |-> Book!Ingredients(call.arg)]
    <2>1. ContentsGiven(call) = ContentsOf("recipes", [name |-> call.arg.name, items |-> Book!Ingredients(call.arg)])
      BY <1>7 DEF ContentsGiven
    <2>2. QED
      BY <1>2, <2>1
  <1>8. ASSUME Book!Valid(call), call.op \notin {"CreateProduct", "UpdateProduct", "CreateRecipe", "UpdateRecipe"}
        PROVE  ContentsGiven(call) = Null
    BY <1>8 DEF ContentsGiven
  <1>9. Book!Valid(call) => ContentsGiven(call) # Refused
    BY <1>3, <1>4, <1>6, <1>7, <1>8
  <1>10. ASSUME Book!Valid(call), call.op \in {"CreateProduct", "UpdateProduct"}, NEW x, Book!ProductIs(x, call.arg)
         PROVE  ContentsGiven(call) = ContentsOf("products", x)
    <2>1. x.key = call.arg.key /\ x.amount = call.arg.amount
      BY <1>10 DEF Book!ProductIs
    <2>2. QED
      BY <1>1, <1>6, <1>10, <2>1
  <1>11. ASSUME Book!Valid(call), call.op \in {"CreateRecipe", "UpdateRecipe"}, NEW x, Book!RecipeIs(x, call.arg)
         PROVE  ContentsGiven(call) = ContentsOf("recipes", x)
    <2>1. x.name = call.arg.name /\ x.items = Book!Ingredients(call.arg)
      BY <1>11 DEF Book!RecipeIs
    <2>2. QED
      BY <1>2, <1>7, <1>11, <2>1
  <1>12. QED
    BY <1>5, <1>9, <1>10, <1>11

\* The table a call is about.
Table == IF PathOf(call.op) = "products" THEN Durable.products ELSE Documents(Durable)

\* When the router's job is refused.
LEMMA RefusedIf ==
    ASSUME call \in Requests, FromRouter(call)
    PROVE  LET absent == call.op \in {"UpdateProduct", "DeleteProduct", "UpdateRecipe", "DeleteRecipe"}
                             /\ call.id \notin {x.id : x \in Table}
           IN Api!Refusal(Job) = IF ~Book!Valid(call) THEN "Validation" ELSE IF absent THEN "NotFound" ELSE Null
  <1> DEFINE r == RequestOf(call)
  <1>1. call # NoCall /\ call.op \in ItemOps \cup CollectionOps
    BY Arguments DEF FromRouter
  <1>2. /\ r.value = ContentsGiven(call)
        /\ call.op \in ItemOps => r.target.id = call.id
    BY DEF RequestOf
  <1>3. Api!Refusal(Job) =
            CASE Api!UseCase(Job) \in {"Create", "Update"} /\ r.value \in {Refused} -> "Validation"
              [] Api!UseCase(Job) \in {"Update", "Delete"} /\ ~(Api!UseCase(Job) = "Update" /\ r.value \in {Refused})
                     /\ r.target.id \notin DOMAIN Shelf[Api!Kind(Job)] -> "NotFound"
              [] OTHER -> Null
    BY <1>1 DEF Api!Refusal, Job, Session
  <1>4. r.value = Refused <=> ~Book!Valid(call)
    BY <1>2, Given
  <1>5. ~Book!Valid(call) => call.op \in {"CreateProduct", "UpdateProduct", "CreateRecipe", "UpdateRecipe"}
    BY DEF Book!Valid
  <1>6. PathOf(call.op) \in {"products", "recipes"} => DOMAIN Shelf[PathOf(call.op)] = {x.id : x \in Table}
    BY DEF Shelf, Table, ById
  <1> HIDE DEF r
  <1>7. CASE call.op \in {"CreateProduct", "CreateRecipe"}
    <2>1. Api!UseCase(Job) = "Create"
      BY <1>7, JobIs
    <2>2. QED
      BY <1>3, <1>4, <1>7, <2>1
  <1>8. CASE call.op \in {"UpdateProduct", "UpdateRecipe"}
    <2>1. Api!UseCase(Job) = "Update" /\ Api!Kind(Job) = PathOf(call.op) /\ PathOf(call.op) \in {"products", "recipes"}
      BY <1>8, JobIs
    <2>2. r.target.id = call.id
      BY <1>2, <1>8 DEF ItemOps
    <2>3. QED
      BY <1>3, <1>4, <1>6, <1>8, <2>1, <2>2
  <1>9. CASE call.op \in {"DeleteProduct", "DeleteRecipe"}
    <2>1. Api!UseCase(Job) = "Delete" /\ Api!Kind(Job) = PathOf(call.op) /\ PathOf(call.op) \in {"products", "recipes"}
      BY <1>9, JobIs
    <2>2. r.target.id = call.id /\ Book!Valid(call)
      BY <1>2, <1>5, <1>9 DEF ItemOps
    <2>3. QED
      BY <1>3, <1>6, <1>9, <2>1, <2>2
  <1>10. CASE call.op \in Book!Reads
    <2>1. Api!UseCase(Job) \in {"Get", "List", "Cookable"}
      BY <1>10, JobIs DEF Book!Reads
    <2>2. Book!Valid(call)
      BY <1>5, <1>10 DEF Book!Reads
    <2>3. QED
      BY <1>3, <1>10, <2>1, <2>2 DEF Book!Reads
  <1>11. QED
    BY <1>1, <1>7, <1>8, <1>9, <1>10 DEF ItemOps, CollectionOps, Book!Reads
-----------------------------------------------------------------------------
(* The ids to come.                                                        *)

\* Inside its transaction a CreateRecipe has used one id or none, an
\* UpdateRecipe none.
SequenceKnown ==
    (saved # Null /\ call.op \in {"CreateRecipe", "UpdateRecipe"}) =>
        /\ db.productSeq = saved.productSeq
        /\ db.recipeSeq \in {saved.recipeSeq} \cup IF call.op = "CreateRecipe" THEN {saved.recipeSeq + 1} ELSE {}

\* Which statements use up an id, and how many.
LEMMA IdsUsed ==
    ASSUME Rows(db), NEW arg, NEW stmt \in Writing \ {"insert_product", "insert_recipe_if_absent"}, NEW e \in Written(stmt, arg)
    PROVE  /\ e.productSeq = IF stmt = "create_product" THEN db.productSeq + 1 ELSE db.productSeq
           /\ e.recipeSeq = IF stmt = "create_recipe" THEN db.recipeSeq + 1 ELSE db.recipeSeq
  <1>1. db.productSeq \in Nat /\ db.recipeSeq \in Nat
    BY DEF Rows
  <1>2. \A d : d = [db EXCEPT !.products = d.products] => d.productSeq = db.productSeq /\ d.recipeSeq = db.recipeSeq
    BY DEF Rows
  <1>3. CASE stmt = "create_product"
    <2>1. e = AddProduct(db, arg)
      BY <1>3, WrittenIs
    <2> DEFINE n == db.productSeq + 1
               ps == db.products \cup {[id |-> n, key |-> arg.key, amount |-> arg.amount]}
    <2>2. n \in Nat /\ db.productSeq < n
      BY <1>1
    <2>3. AddProduct(db, arg) = [db EXCEPT !.products = ps, !.productSeq = n]
      BY <2>2 DEF AddProduct, NextId
    <2> HIDE DEF ps
    <2>4. QED
      BY <1>3, <2>1, <2>3 DEF Rows
  <1>4. CASE stmt = "create_recipe"
    <2>1. e = AddRecipe(db, arg)
      BY <1>4, WrittenIs
    <2> DEFINE n == db.recipeSeq + 1
               rs == db.recipes \cup {[id |-> n, name |-> arg]}
    <2>2. n \in Nat /\ db.recipeSeq < n
      BY <1>1
    <2>3. AddRecipe(db, arg) = [db EXCEPT !.recipes = rs, !.recipeSeq = n]
      BY <2>2 DEF AddRecipe, NextId
    <2> HIDE DEF rs
    <2>4. QED
      BY <1>4, <2>1, <2>3 DEF Rows
  <1>5. CASE stmt \in {"update_product_by_id", "delete_product_by_id"}
    <2>1. PICK ps : e = [db EXCEPT !.products = ps]
      BY <1>5, WrittenIs DEF UpdateProductRow, DeleteProductRow
    <2>2. QED
      BY <1>5, <2>1 DEF Rows
  <1>6. CASE stmt = "update_recipe_name_by_id"
    <2>1. PICK rs : e = [db EXCEPT !.recipes = rs]
      BY <1>6, WrittenIs DEF RenameRecipe
    <2>2. QED
      BY <1>6, <2>1 DEF Rows
  <1>7. CASE stmt = "delete_recipe_ingredients_by_recipe_id"
    <2>1. e = DeleteIngredients(db, rowid)
      BY <1>7, WrittenIs
    <2>2. PICK is : e = [db EXCEPT !.ingredients = is]
      BY <2>1 DEF DeleteIngredients
    <2>3. QED
      BY <1>7, <2>2 DEF Rows
  <1>8. CASE stmt = "insert_recipe_ingredient"
    <2>1. e = PutIngredient(db, rowid, arg)
      BY <1>8, WrittenIs
    <2>2. PICK is : e = [db EXCEPT !.ingredients = is]
      BY <2>1 DEF PutIngredient
    <2>3. QED
      BY <1>8, <2>2 DEF Rows
  <1>9. CASE stmt = "delete_recipe_by_id"
    <2>1. e = DeleteRecipeRow(db, rowid)
      BY <1>9, WrittenIs
    <2> DEFINE rs == {r \in db.recipes : r.id # rowid}
               is == {i \in db.ingredients : i.recipe # rowid}
    <2>2. DeleteRecipeRow(db, rowid) = [db EXCEPT !.recipes = rs, !.ingredients = is]
      BY DEF DeleteRecipeRow
    <2> HIDE DEF rs, is
    <2>3. QED
      BY <1>9, <2>1, <2>2 DEF Rows
  <1>10. QED
    BY <1>3, <1>4, <1>5, <1>6, <1>7, <1>8, <1>9 DEF Writing

\* The statements between BEGIN and COMMIT of a recipe.
LEMMA RecordStatement ==
    ASSUME IndInv, Underway, call \in Requests, Accepted(call), call.op \in {"CreateRecipe", "UpdateRecipe"},
           saved # Null, Write
    PROVE  \/ Head1 = RecordStmt /\ db = saved
           \/ Head1 \in {"delete_recipe_ingredients_by_recipe_id", "insert_recipe_ingredient"}
  <1> DEFINE list == Statements(call)
             n == Len(call.arg.items)
  <1>1. n \in Nat /\ RecordListed(list, call.arg, RecordStmt) /\ IsList(list) /\ IsList(todo) /\ todo # <<>>
    BY RecordIs, ListOfCall, AlwaysSound DEF Write
  <1>2. Recording(list, call.arg)
    <2>1. ~Fresh /\ ~Answered /\ ~ReadingBack
      BY DEF Fresh, Answered, ReadingBack
    <2>2. call # NoCall
      BY Arguments
    <2>3. Midway
      BY <2>1, <2>2 DEF Underway
    <2>4. QED
      BY <2>1, <2>3 DEF Midway
  <1>3. Head1 \in Writing
    BY DEF Write
  <1> HIDE DEF list, n
  <1>4. ASSUME NEW p \in Nat, At(todo, list, p) PROVE Head1 = list[p + 1].stmt
    BY <1>1, <1>4, AtTail DEF Head1
  <1>5. CASE At(todo, list, 1) /\ db = saved
    <2>1. Head1 = list[2].stmt
      BY <1>4, <1>5
    <2>2. QED
      BY <1>1, <1>5, <2>1 DEF RecordListed
  <1>6. CASE At(todo, list, 2)
    <2>1. Head1 = list[3].stmt
      BY <1>4, <1>6
    <2>2. QED
      BY <1>1, <2>1 DEF RecordListed
  <1>7. ASSUME NEW j \in 0 .. n, At(todo, list, j + 3)
        PROVE  Head1 = "insert_recipe_ingredient"
    <2>1. Head1 = list[j + 4].stmt
      <3>1. j + 3 \in Nat /\ (j + 3) + 1 = j + 4
        BY <1>1
      <3>2. QED
        BY <1>4, <1>7, <3>1
    <2>2. CASE j = n
      BY <1>1, <1>3, <2>1, <2>2 DEF RecordListed, Writing, n
    <2>3. CASE j # n
      <3>1. j + 1 \in 1 .. n /\ (j + 1) + 3 = j + 4
        BY <1>1, <2>3
      <3>2. QED
        BY <1>1, <2>1, <3>1 DEF RecordListed, n
    <2>4. QED
      BY <2>2, <2>3
  <1>8. QED
    BY <1>2, <1>5, <1>6, <1>7 DEF Recording, n

\* No step of the store makes them use up more, or other ones.
LEMMA SequenceStep ==
    ASSUME IndInv, Underway, SequenceKnown, [Next]_vars
    PROVE  SequenceKnown'
  <1>1. CASE \E c \in Requests : Call(c)
    <2>1. saved' = saved /\ call = NoCall
      BY <1>1 DEF Call
    <2>2. saved = Null
      <3>1. todo = <<>>
        BY <2>1 DEF IndInv, TodoKnown
      <3>2. DOMAIN todo = {}
        BY <3>1
      <3>3. QED
        BY <3>2 DEF IndInv, TodoKnown
    <2>3. QED
      BY <2>1, <2>2 DEF SequenceKnown
  <1>2. CASE Begin
    BY <1>2 DEF Begin, SequenceKnown
  <1>3. CASE NextRecipe \/ Read
    BY <1>3 DEF NextRecipe, Read, SequenceKnown
  <1>4. CASE Write
    <2>1. UNCHANGED <<saved, call>> /\ db' \in Written(Head1, Arg1) /\ todo # <<>> /\ Head1 \in Writing
      BY <1>4 DEF Write
    <2>2. call \in Requests /\ Accepted(call)
      BY <2>1, TodoAccepted
    <2>3. SUFFICES ASSUME saved # Null, call.op \in {"CreateRecipe", "UpdateRecipe"} PROVE SequenceKnown'
      BY <2>1 DEF SequenceKnown
    <2>4. \/ Head1 = RecordStmt /\ db = saved
          \/ Head1 \in {"delete_recipe_ingredients_by_recipe_id", "insert_recipe_ingredient"}
      BY <1>4, <2>2, <2>3, RecordStatement
    <2>5. Rows(db) /\ Rows(saved)
      BY <2>3 DEF IndInv, Durable
    <2>6. /\ db'.productSeq = db.productSeq
          /\ db'.recipeSeq = IF Head1 = "create_recipe" THEN db.recipeSeq + 1 ELSE db.recipeSeq
      BY <2>1, <2>4, <2>5, IdsUsed DEF RecordStmt
    <2>7. QED
      BY <2>1, <2>3, <2>4, <2>6 DEF SequenceKnown, RecordStmt
  <1>5. CASE Commit \/ ReturnFalse \/ ConstraintFails \/ ResetFails \/ StorageFails \/ Return \/ Crash
    <2>1. saved' = Null
      BY <1>5 DEF Commit, ReturnFalse, ConstraintFails, ResetFails, StorageFails, Return, Crash, Answer
    <2>2. QED
      BY <2>1 DEF SequenceKnown
  <1>6. CASE UNCHANGED vars
    BY <1>6 DEF vars, SequenceKnown
  <1>7. QED
    BY <1>1, <1>2, <1>3, <1>4, <1>5, <1>6 DEF Next

\* What is left of a call that reads back is a SELECT.
LEMMA ReadsNext ==
    ASSUME IndInv, Underway, call \in Requests, ReadingBack
    PROVE  Head1 \in Reading
  <1> DEFINE p == Len(Statements(call)) - 1
  <1>1. IsList(todo) /\ IsList(Statements(call)) /\ At(todo, Statements(call), p)
    BY AlwaysSound, ListOfCall DEF ReadingBack
  <1>2. p + 1 = Len(Statements(call))
    BY <1>1 DEF IsList
  <1> HIDE DEF p
  <1>3. Head(todo) = Statements(call)[Len(Statements(call))]
    BY <1>1, <1>2, LastStatement
  <1>4. QED
    BY <1>3, CreateProductListed, RecipeListed DEF ReadingBack, Head1, Reading

\* Outside a transaction a call of the router executes one writing statement,
\* and that is its first.
LEMMA OutsideStatement ==
    ASSUME IndInv, Underway, call \in Requests, Accepted(call), FromRouter(call), saved = Null, Write
    PROVE  /\ ~applied
           /\ \/ Head1 \in {"update_product_by_id", "delete_product_by_id", "delete_recipe_by_id"}
              \/ Head1 = "create_product" /\ call.op = "CreateProduct"
  <1>1. IsList(todo) /\ IsList(Statements(call)) /\ todo # <<>> /\ Head1 \in Writing /\ call # NoCall
    BY AlwaysSound, ListOfCall, Arguments DEF Write
  <1>2. Fresh
    <2>1. ~Answered
      BY <1>1 DEF Answered
    <2>2. ~ReadingBack
      BY <1>1, ReadsNext DEF Writing, Reading
    <2>3. ~Midway
      BY <2>2 DEF Midway, Inserting, Recording, BetweenRounds, WithinRound, Open
    <2>4. QED
      BY <1>1, <2>1, <2>3 DEF Underway
  <1>3. ~applied /\ At(todo, Statements(call), 0)
    BY <1>2 DEF Fresh
  <1>4. call.op \notin InTransactions
    <2>1. ASSUME call.op \in InTransactions PROVE FALSE
      <3>1. Begin
        BY <1>2, <2>1, FirstBegins DEF Acts
      <3>2. QED
        BY <1>1, <3>1 DEF Begin, Writing
    <2>2. QED
      BY <2>1
  <1>5. CASE call.op = "CreateProduct"
    <2>1. 0 < Len(Statements(call)) /\ Statements(call)[0 + 1].stmt = "create_product"
      BY <1>5, CreateProductListed
    <2>2. Head(todo) = Statements(call)[0 + 1]
      BY <1>1, <1>3, <2>1, AtTail
    <2>3. QED
      BY <1>3, <1>5, <2>1, <2>2 DEF Head1
  <1>6. ASSUME NEW stmt, NEW arg, Only(Statements(call), stmt, arg)
        PROVE  Head1 = stmt
    BY <1>1, <1>3, <1>6, OnlyStatement DEF Head1
  <1>7. CASE call.op \in Book!Reads
    <2>1. \E stmt \in Reading : \E arg : Only(Statements(call), stmt, arg)
      BY <1>7, SingleListed DEF Book!Reads, Reading
    <2>2. QED
      BY <1>1, <1>6, <2>1 DEF Reading, Writing
  <1>8. CASE call.op = "UpdateProduct"
    BY <1>3, <1>6, <1>8, SingleListed
  <1>9. CASE call.op = "DeleteProduct"
    BY <1>3, <1>6, <1>9, SingleListed
  <1>10. CASE call.op = "DeleteRecipe"
    BY <1>3, <1>6, <1>10, SingleListed
  <1>11. QED
    BY <1>4, <1>5, <1>7, <1>8, <1>9, <1>10 DEF FromRouter, ItemOps, CollectionOps, InTransactions, Book!Reads

\* A transaction of the router's is that of CreateRecipe or UpdateRecipe, and
\* nothing of it has taken effect.
LEMMA InsideCall ==
    ASSUME IndInv, Underway, call \in Requests, Accepted(call), FromRouter(call), saved # Null
    PROVE  call.op \in {"CreateRecipe", "UpdateRecipe"} /\ ~applied
  <1>1. call # NoCall /\ call.op \in ItemOps \cup CollectionOps
    BY Arguments DEF FromRouter
  <1>2. ~Fresh /\ ~Answered /\ ~ReadingBack
    BY DEF Fresh, Answered, ReadingBack
  <1>3. Midway
    BY <1>1, <1>2 DEF Underway
  <1>4. call.op \in {"CreateRecipe", "UpdateRecipe"} /\ Recording(Statements(call), call.arg)
    BY <1>1, <1>2, <1>3 DEF Midway, ItemOps, CollectionOps
  <1>5. QED
    BY <1>4 DEF Recording, Open

\* The step in which a call of this kind takes effect.
Counts(op) == call.op = op /\ ~applied /\ applied'

\* What a statement of the router's makes of the counters that are durable.
LEMMA IdsStep ==
    ASSUME IndInv, Underway, SequenceKnown, call \in Requests, Accepted(call), FromRouter(call), Acts
    PROVE  /\ Durable'.productSeq \in {Durable.productSeq} \cup IF Counts("CreateProduct") THEN {Durable.productSeq + 1} ELSE {}
           /\ Durable'.recipeSeq \in {Durable.recipeSeq} \cup IF Counts("CreateRecipe") THEN {Durable.recipeSeq + 1} ELSE {}
  <1>1. CASE Begin
    BY <1>1, BeginSteps
  <1>2. CASE NextRecipe \/ Read
    <2>1. Durable' = Durable
      BY <1>2 DEF NextRecipe, Read, Durable
    <2>2. QED
      BY <2>1
  <1>3. CASE Commit
    <2>1. Durable' = db /\ applied'
      BY <1>3, CommitSteps
    <2>2. CASE saved = Null
      BY <2>1, <2>2 DEF Durable
    <2>3. CASE saved # Null
      <3>1. Durable = saved /\ call.op \in {"CreateRecipe", "UpdateRecipe"} /\ ~applied
        BY <2>3, InsideCall DEF Durable
      <3>2. QED
        BY <2>1, <2>3, <3>1 DEF SequenceKnown, Counts
    <2>4. QED
      BY <2>2, <2>3
  <1>4. CASE Write
    <2>1. CASE saved # Null
      <3>1. Durable' = Durable
        BY <1>4, <2>1 DEF Write, Durable
      <3>2. QED
        BY <3>1
    <2>2. CASE saved = Null
      <3>1. Durable = db /\ Durable' = db' /\ applied' = TRUE /\ db' \in Written(Head1, Arg1)
        BY <1>4, <2>2, WriteOutside
      <3>2. /\ ~applied
            /\ \/ Head1 \in {"update_product_by_id", "delete_product_by_id", "delete_recipe_by_id"}
               \/ Head1 = "create_product" /\ call.op = "CreateProduct"
        BY <1>4, <2>2, OutsideStatement
      <3>3. Rows(db)
        BY DEF IndInv
      <3>4. /\ db'.productSeq = IF Head1 = "create_product" THEN db.productSeq + 1 ELSE db.productSeq
            /\ db'.recipeSeq = db.recipeSeq
        BY <3>1, <3>2, <3>3, IdsUsed DEF Writing
      <3>5. QED
        BY <3>1, <3>2, <3>4 DEF Counts
    <2>3. QED
      BY <2>1, <2>2
  <1>5. QED
    BY <1>1, <1>2, <1>3, <1>4 DEF Acts
-----------------------------------------------------------------------------
(* The effect.                                                             *)

\* The router's step of the store, when its table becomes the contents f.
LEMMA WritesAsJob ==
    ASSUME call \in Requests, FromRouter(call), call' = call, ~applied, applied', applied \in BOOLEAN,
           NEW k \in {"products", "recipes"}, k = PathOf(call.op), Api!Kind(Job) = k,
           NEW f, Shelf' = [Shelf EXCEPT ![k] = f]
    PROVE  Api!Writes(Job, f)
  <1> DEFINE r == RequestOf(call)
             now == IF r.target.id \in DOMAIN Shelf'[r.target.path] THEN Shelf'[r.target.path][r.target.id] ELSE Null
  <1>1. call # NoCall /\ r # Null
    BY Arguments DEF RequestOf, Null
  <1>2. r.target.path = k /\ (call.op \in ItemOps => r.target.id = call.id /\ call.id > 0)
        /\ (call.op \notin ItemOps => r.target.id = 0)
    BY DEF RequestOf, FromRouter, ItemOps, CollectionOps
  <1>3. Api!IsItem(r.target) <=> call.op \in ItemOps
    BY <1>2 DEF Api!IsItem, Api!Kinds
  <1>4. call.op \in ItemOps => Addressed' = now
    BY <1>1, <1>2 DEF Addressed
  <1>5. call.op \notin ItemOps => Addressed' = Addressed
    BY DEF Addressed
  <1> HIDE DEF r
  <1>6. [s \in {Session} |-> {Addressed'}] =
            [s \in {Session} |-> IF r = Null \/ ~Api!IsItem(r.target) THEN {Addressed}
                                 ELSE IF s = Session THEN {now} ELSE {Addressed} \cup {now}]
    BY <1>1, <1>3, <1>4, <1>5
  <1>7. Api!Observe(Session)
    BY <1>1, <1>6 DEF Api!Observe, r
  <1>8. [s \in {Session} |-> IF applied' THEN 1 ELSE 0] = [[s \in {Session} |-> IF applied THEN 1 ELSE 0] EXCEPT ![Session] = @ + 1]
    OBVIOUS
  <1>9. QED
    BY <1>7, <1>8 DEF Api!Writes, Job

\* The table a call is about is the router's, under ids.
LEMMA ShelfIs ==
    ASSUME NEW k \in {"products", "recipes"}
    PROVE  /\ Shelf[k] = ById(k, IF k = "products" THEN Durable.products ELSE Documents(Durable))
           /\ DOMAIN Shelf = {"products", "recipes"}
  BY DEF Shelf

\* One table changes, and the other does not.
LEMMA ShelfChanges ==
    ASSUME NEW k \in {"products", "recipes"}, NEW f,
           k = "products" => ById(k, Durable'.products) = f /\ Documents(Durable)' = Documents(Durable),
           k = "recipes" => ById(k, Documents(Durable)') = f /\ Durable'.products = Durable.products
    PROVE  Shelf' = [Shelf EXCEPT ![k] = f]
  <1>1. CASE k = "products"
    BY <1>1 DEF Shelf
  <1>2. CASE k = "recipes"
    BY <1>2 DEF Shelf
  <1>3. QED
    BY <1>1, <1>2

\* A step between two statements of a call does what the router's job does.
LEMMA ActAsJob ==
    ASSUME IndInv, IndInv', Underway, SequenceKnown, call # NoCall, FromRouter(call), Acts
    PROVE  TakesEffectAsJob
  <1>1. todo # <<>> /\ call' = call
    BY DEF Acts, Begin, Commit, NextRecipe, Write, Read
  <1>2. call \in Requests /\ Accepted(call)
    BY <1>1, TodoAccepted
  <1>3. /\ Durable'.productSeq \in {Durable.productSeq} \cup IF Counts("CreateProduct") THEN {Durable.productSeq + 1} ELSE {}
        /\ Durable'.recipeSeq \in {Durable.recipeSeq} \cup IF Counts("CreateRecipe") THEN {Durable.recipeSeq + 1} ELSE {}
    BY <1>2, IdsStep
  <1>4. UNCHANGED Book!vars \/ Book!TakeEffect
    BY <1>1, <1>2, ActStep
  <1>5. Durable.productSeq \in Nat /\ Durable.recipeSeq \in Nat /\ applied \in BOOLEAN
    BY DEF IndInv, Rows
  <1>6. CASE UNCHANGED Book!vars
    <2>1. Durable'.products = Durable.products /\ Documents(Durable)' = Documents(Durable) /\ applied' = applied
      BY <1>6 DEF Book!vars
    <2>2. Shelf' = Shelf
      BY <2>1 DEF Shelf
    <2>3. NextIds' = NextIds
      BY <1>3, <2>1 DEF NextIds, Counts
    <2>4. QED
      BY <2>1, <2>2, <2>3 DEF TakesEffectAsJob
  <1>7. CASE Book!TakeEffect
    <2>1. /\ ~applied /\ applied' = TRUE /\ Book!Valid(call)
          /\ Book!Effect(call.op, call.id, call.arg)
      BY <1>7 DEF Book!TakeEffect
    <2> DEFINE k == PathOf(call.op)
               old == Table
               new == IF k = "products" THEN Durable'.products ELSE Documents(Durable)'
    <2>2. call.op \in ItemOps \cup CollectionOps
      BY DEF FromRouter
    <2>3. /\ call.op \in {"CreateProduct", "UpdateProduct", "DeleteProduct", "CreateRecipe", "UpdateRecipe", "DeleteRecipe"}
          /\ k = IF call.op \in {"CreateProduct", "UpdateProduct", "DeleteProduct"} THEN "products" ELSE "recipes"
          /\ k = "products" => Documents(Durable)' = Documents(Durable)
          /\ k = "recipes" => Durable'.products = Durable.products
      BY <2>1, <2>2 DEF Book!Effect, PathOf, ItemOps, CollectionOps
    <2>4. k \in {"products", "recipes"} /\ Api!Kind(Job) = k
      BY <1>2, <2>3, JobIs
    <2>5. /\ UniqueIds(old) /\ Shelf[k] = ById(k, old)
          /\ \A x \in old : x.id \in 1 .. NextIds[k] - 1
          /\ \A x \in new : x.id \in 1 .. NextIds'[k] - 1
      <3>1. UniqueIds(old) /\ \A x \in old : x.id \in 1 .. NextIds[k] - 1
        BY <1>5, <2>4, IdsUnique DEF Table, NextIds
      <3>2. /\ \A x \in Durable'.products : x.id \in 1 .. Durable'.productSeq
            /\ \A x \in Documents(Durable)' : x.id \in 1 .. Durable'.recipeSeq
        <4>1. SchemaHolds(Durable')
          BY DEF IndInv
        <4>2. QED
          BY <4>1 DEF SchemaHolds, Documents
      <3>3. Durable'.productSeq \in Nat /\ Durable'.recipeSeq \in Nat
        BY <1>3, <1>5
      <3>4. \A x \in new : x.id \in 1 .. NextIds'[k] - 1
        BY <2>4, <3>2, <3>3 DEF NextIds
      <3>5. QED
        BY <2>4, <3>1, <3>4, ShelfIs DEF Table
    <2>6. \A f : ById(k, new) = f => Api!Writes(Job, f)
      <3>1. TAKE f
      <3>2. HAVE ById(k, new) = f
      <3>3. Shelf' = [Shelf EXCEPT ![k] = f]
        BY <2>3, <2>4, <3>2, ShelfChanges
      <3>4. QED
        BY <1>1, <1>2, <1>5, <2>1, <2>4, <3>3, WritesAsJob
    <2>7. Api!Refusal(Job) = IF ~Book!Valid(call) THEN "Validation"
                             ELSE IF /\ call.op \in {"UpdateProduct", "DeleteProduct", "UpdateRecipe", "DeleteRecipe"}
                                     /\ call.id \notin {x.id : x \in old}
                             THEN "NotFound" ELSE Null
      BY <1>2, RefusedIf
    <2>8. call.op \in ItemOps => RequestOf(call).target.id = call.id
      BY DEF RequestOf
    <2>9. RequestOf(call).value = ContentsGiven(call)
      BY DEF RequestOf
    <2>10. CASE call.op \in {"CreateProduct", "CreateRecipe"}
      <3>1. PICK x \in new : /\ new = old \cup {x} /\ \A y \in old : y.id # x.id
                             /\ ContentsGiven(call) = ContentsOf(k, x)
        <4>1. CASE call.op = "CreateProduct"
          <5>1. Book!Adds(Durable'.products, Durable.products, Book!ProductIs, call.arg)
            BY <2>1, <4>1 DEF Book!Effect
          <5>2. PICK x \in Durable'.products : /\ Durable'.products = Durable.products \cup {x}
                                               /\ \A y \in Durable.products : y.id # x.id
                                               /\ Book!ProductIs(x, call.arg)
            BY <5>1 DEF Book!Adds
          <5>3. QED
            BY <1>2, <2>1, <2>3, <4>1, <5>2, Given DEF Table
        <4>2. CASE call.op = "CreateRecipe"
          <5>1. Book!Adds(Documents(Durable)', Documents(Durable), Book!RecipeIs, call.arg)
            BY <2>1, <4>2 DEF Book!Effect
          <5>2. PICK x \in Documents(Durable)' : /\ Documents(Durable)' = Documents(Durable) \cup {x}
                                                 /\ \A y \in Documents(Durable) : y.id # x.id
                                                 /\ Book!RecipeIs(x, call.arg)
            BY <5>1 DEF Book!Adds
          <5>3. QED
            BY <1>2, <2>1, <2>3, <4>2, <5>2, Given DEF Table
        <4>3. QED
          BY <2>10, <4>1, <4>2
      <3>2. x.id = NextIds[k] /\ NextIds' = [NextIds EXCEPT ![k] = @ + 1]
        <4>1. Grown(Durable, Durable')
          BY Step DEF Next, Acts
        <4>2. x.id > Durable.productSeq \/ k = "recipes"
          BY <2>3, <3>1, <4>1 DEF Grown, Table
        <4>3. x.id > Durable.recipeSeq \/ k = "products"
          <5>1. SUFFICES ASSUME k = "recipes" PROVE x.id > Durable.recipeSeq
            BY <2>4
          <5>2. PICK q \in Durable'.recipes : q.id = x.id
            BY <3>1, <5>1 DEF Documents
          <5>3. \A r \in Durable.recipes : r.id # x.id
            <6>1. TAKE r \in Durable.recipes
            <6>2. [id |-> r.id, name |-> r.name, items |-> ItemsOf(Durable, r.id)] \in old
              BY <5>1 DEF Documents, Table
            <6>3. QED
              BY <3>1, <6>2
          <5>4. QED
            BY <4>1, <5>2, <5>3 DEF Grown
        <4>4. x.id \in Int /\ x.id <= NextIds'[k] - 1
          <5>1. x.id \in 1 .. NextIds'[k] - 1
            BY <2>5, <3>1
          <5>2. QED
            BY <1>3, <1>5, <2>4, <5>1 DEF NextIds
        <4>5. CASE k = "products"
          <5>1. /\ NextIds[k] = Durable.productSeq + 1 /\ NextIds'[k] = Durable'.productSeq + 1
                /\ Durable'.recipeSeq = Durable.recipeSeq
            BY <1>3, <2>3, <2>10, <4>5 DEF NextIds, Counts
          <5>2. x.id = Durable.productSeq + 1 /\ Durable'.productSeq = Durable.productSeq + 1
            BY <1>3, <1>5, <4>2, <4>4, <4>5, <5>1
          <5>3. QED
            BY <4>5, <5>1, <5>2 DEF NextIds
        <4>6. CASE k = "recipes"
          <5>1. /\ NextIds[k] = Durable.recipeSeq + 1 /\ NextIds'[k] = Durable'.recipeSeq + 1
                /\ Durable'.productSeq = Durable.productSeq
            BY <1>3, <2>3, <2>10, <4>6 DEF NextIds, Counts
          <5>2. x.id = Durable.recipeSeq + 1 /\ Durable'.recipeSeq = Durable.recipeSeq + 1
            BY <1>3, <1>5, <4>3, <4>4, <4>6, <5>1
          <5>3. QED
            BY <4>6, <5>1, <5>2 DEF NextIds
        <4>7. QED
          BY <2>4, <4>5, <4>6
      <3>3. ById(k, new) = [i \in DOMAIN Shelf[k] \cup {x.id} |-> IF i = x.id THEN ContentsOf(k, x) ELSE Shelf[k][i]]
        BY <2>5, <3>1, RowAdded
      <3>4. Api!UseCase(Job) = "Create"
        BY <1>2, <2>10, JobIs
      <3>5. Api!Writes(Job, [i \in DOMAIN Shelf[k] \cup {NextIds[k]} |->
                                IF i = NextIds[k] THEN RequestOf(call).value ELSE Shelf[k][i]])
        BY <2>6, <2>9, <3>1, <3>2, <3>3
      <3>6. Api!CreateEffect(Job)
        BY <2>4, <3>2, <3>5 DEF Api!CreateEffect, Job, Session
      <3>7. QED
        BY <2>1, <2>7, <2>10, <3>4, <3>6 DEF TakesEffectAsJob, Api!Effect
    <2>11. CASE call.op \in {"UpdateProduct", "UpdateRecipe"}
      <3>1. PICK x \in new : /\ x.id = call.id /\ new = {y \in old : y.id # call.id} \cup {x} /\ \E y \in old : y.id = call.id
                             /\ ContentsGiven(call) = ContentsOf(k, x)
        <4>1. CASE call.op = "UpdateProduct"
          <5>1. Book!Replaces(Durable'.products, Durable.products, call.id, Book!ProductIs, call.arg)
            BY <2>1, <4>1 DEF Book!Effect
          <5>2. PICK x \in Durable'.products : /\ x.id = call.id /\ Durable'.products = {y \in Durable.products : y.id # call.id} \cup {x}
                                               /\ \E y \in Durable.products : y.id = call.id
                                               /\ Book!ProductIs(x, call.arg)
            BY <5>1 DEF Book!Replaces
          <5>3. QED
            BY <1>2, <2>1, <2>3, <4>1, <5>2, Given DEF Table
        <4>2. CASE call.op = "UpdateRecipe"
          <5>1. Book!Replaces(Documents(Durable)', Documents(Durable), call.id, Book!RecipeIs, call.arg)
            BY <2>1, <4>2 DEF Book!Effect
          <5>2. PICK x \in Documents(Durable)' : /\ x.id = call.id
                                                 /\ Documents(Durable)' = {y \in Documents(Durable) : y.id # call.id} \cup {x}
                                                 /\ \E y \in Documents(Durable) : y.id = call.id
                                                 /\ Book!RecipeIs(x, call.arg)
            BY <5>1 DEF Book!Replaces
          <5>3. QED
            BY <1>2, <2>1, <2>3, <4>2, <5>2, Given DEF Table
        <4>3. QED
          BY <2>11, <4>1, <4>2
      <3>2. ById(k, new) = [Shelf[k] EXCEPT ![call.id] = RequestOf(call).value]
        <4>1. ById(k, {y \in old : y.id # x.id} \cup {x}) = [ById(k, old) EXCEPT ![x.id] = ContentsOf(k, x)]
          <5>1. UniqueIds(old) /\ \E y \in old : y.id = x.id
            BY <2>5, <3>1
          <5> HIDE DEF old, new, k
          <5>2. QED
            BY <5>1, RowReplaced
        <4>2. {y \in old : y.id # x.id} \cup {x} = new
          BY <3>1
        <4>3. QED
          BY <2>5, <2>9, <3>1, <4>1, <4>2
      <3>3. Api!UseCase(Job) = "Update" /\ RequestOf(call).target.id = call.id
        BY <1>2, <2>8, <2>11, JobIs DEF ItemOps
      <3>4. Api!Writes(Job, [Shelf[k] EXCEPT ![RequestOf(call).target.id] = RequestOf(call).value])
        BY <2>6, <3>2, <3>3
      <3>5. NextIds' = NextIds
        BY <1>3, <2>11 DEF NextIds, Counts
      <3>6. Api!UpdateEffect(Job)
        BY <2>4, <3>4, <3>5 DEF Api!UpdateEffect, Job, Session
      <3>7. QED
        BY <2>1, <2>7, <2>11, <3>1, <3>3, <3>6 DEF TakesEffectAsJob, Api!Effect
    <2>12. CASE call.op \in {"DeleteProduct", "DeleteRecipe"}
      <3>1. new = {y \in old : y.id # call.id} /\ \E y \in old : y.id = call.id
        BY <2>1, <2>3, <2>12 DEF Book!Effect, Book!Removes, Table
      <3>2. ById(k, new) = [i \in DOMAIN Shelf[k] \ {call.id} |-> Shelf[k][i]]
        BY <2>5, <3>1, RowRemoved
      <3>3. Api!UseCase(Job) = "Delete" /\ RequestOf(call).target.id = call.id
        BY <1>2, <2>8, <2>12, JobIs DEF ItemOps
      <3>4. Api!Writes(Job, [i \in DOMAIN Shelf[k] \ {RequestOf(call).target.id} |-> Shelf[k][i]])
        BY <2>6, <3>2, <3>3
      <3>5. NextIds' = NextIds
        BY <1>3, <2>12 DEF NextIds, Counts
      <3>6. Api!DeleteEffect(Job)
        BY <2>4, <3>4, <3>5 DEF Api!DeleteEffect, Job, Session
      <3>7. QED
        BY <2>1, <2>7, <2>12, <3>1, <3>3, <3>6 DEF TakesEffectAsJob, Api!Effect
    <2>13. QED
      BY <2>3, <2>10, <2>11, <2>12
  <1>8. QED
    BY <1>4, <1>6, <1>7
-----------------------------------------------------------------------------
(* The answer.                                                             *)

\* A call that has succeeded hands back what the router's job does.
LEMMA ReturnedAsJob ==
    ASSUME IndInv, call \in Requests, Accepted(call), FromRouter(call), NEW v,
           applied \/ call.op \in Book!Reads, Book!Answers(call.op, call.id, call.arg, v)
    PROVE  /\ Api!UseCase(Job) \in {"Create", "Update", "Delete"} => applied
           /\ Api!UseCase(Job) \notin {"List", "Cookable"} =>
                  Api!ReturnedValue(Job) = IF v = Null THEN Null ELSE ContentsOf(Api!Kind(Job), v)
  <1> DEFINE r == RequestOf(call)
             k == PathOf(call.op)
  <1>1. call # NoCall /\ call.op \in ItemOps \cup CollectionOps /\ Book!Valid(call)
    BY Arguments DEF FromRouter, Accepted, ValidateProduct, ValidateRecipe, Book!Valid, Book!ValidProduct, Book!ValidRecipe
  <1>2. r.value = ContentsGiven(call) /\ r.target.path = k /\ (call.op \in ItemOps => r.target.id = call.id)
    BY DEF RequestOf
  <1>3. Api!ReturnedValue(Job) = CASE Api!UseCase(Job) = "Get"    -> Api!Current(r)
                                   [] Api!UseCase(Job) = "Create" -> r.value
                                   [] OTHER                       -> Null
    BY <1>1 DEF Api!ReturnedValue, Job, Session
  <1>4. /\ UniqueIds(Durable.products) /\ \A x \in Durable.products : x # Null
        /\ UniqueIds(Documents(Durable)) /\ \A x \in Documents(Durable) : x # Null
    BY IdsUnique
  <1>5. CASE call.op \in {"CreateProduct", "CreateRecipe"}
    <2>1. Api!UseCase(Job) = "Create" /\ Api!Kind(Job) = k /\ applied
      BY <1>5, JobIs DEF Book!Reads
    <2>2. v # Null /\ ContentsGiven(call) = ContentsOf(k, v)
      <3>1. CASE call.op = "CreateProduct"
        <4>1. v \in Durable.products /\ Book!ProductIs(v, call.arg) /\ k = "products"
          BY <3>1 DEF Book!Answers, PathOf
        <4>2. QED
          BY <1>1, <1>4, <3>1, <4>1, Given
      <3>2. CASE call.op = "CreateRecipe"
        <4>1. v \in Documents(Durable) /\ Book!RecipeIs(v, call.arg) /\ k = "recipes"
          BY <3>2 DEF Book!Answers, PathOf
        <4>2. QED
          BY <1>1, <1>4, <3>2, <4>1, Given
      <3>3. QED
        BY <1>5, <3>1, <3>2
    <2>3. QED
      BY <1>2, <1>3, <2>1, <2>2
  <1>6. CASE call.op \in {"UpdateProduct", "UpdateRecipe", "DeleteProduct", "DeleteRecipe"}
    <2>1. Api!UseCase(Job) \in {"Update", "Delete"} /\ applied /\ v = Null
      BY <1>6, JobIs DEF Book!Reads, Book!Answers
    <2>2. QED
      BY <1>3, <2>1
  <1>7. CASE call.op \in {"GetProduct", "GetRecipe"}
    <2>1. Api!UseCase(Job) = "Get" /\ Api!Kind(Job) = k /\ k \in {"products", "recipes"}
      BY <1>7, JobIs
    <2>2. k = IF call.op = "GetProduct" THEN "products" ELSE "recipes"
      BY <1>7 DEF PathOf
    <2>3. r.target.id = call.id /\ call.id > 0
      BY <1>2, <1>7 DEF ItemOps, CollectionOps, FromRouter
    <2>4. Api!Current(r) = IF call.id \in DOMAIN Shelf[k] THEN Shelf[k][call.id] ELSE Null
      BY <1>2, <2>1, <2>3 DEF Api!Current, Api!IsItem, Api!Stored, Api!Kinds
    <2>5. UniqueIds(Table) /\ Shelf[k] = ById(k, Table)
      BY <1>4, <2>1, ShelfIs DEF Table
    <2>6. \/ v \in Table /\ v # Null /\ v.id = call.id
          \/ v = Null /\ \A x \in Table : x.id # call.id
      BY <1>4, <1>7, <2>2 DEF Book!Answers, Table
    <2>7. CASE v \in Table /\ v # Null /\ v.id = call.id
      <3>1. v.id \in DOMAIN ById(k, Table) /\ ById(k, Table)[v.id] = ContentsOf(k, v)
        BY <2>5, <2>7, Found
      <3>2. QED
        BY <1>3, <2>1, <2>4, <2>5, <2>7, <3>1
    <2>8. CASE v = Null /\ \A x \in Table : x.id # call.id
      <3>1. call.id \notin DOMAIN ById(k, Table)
        <4>1. DOMAIN ById(k, Table) = {x.id : x \in Table}
          BY <2>5, Found
        <4>2. QED
          BY <2>8, <4>1
      <3>2. QED
        BY <1>3, <2>1, <2>4, <2>5, <2>8, <3>1
    <2>9. QED
      BY <2>6, <2>7, <2>8
  <1>8. CASE call.op \in {"GetProducts", "GetRecipes", "GetCookableRecipes"}
    BY <1>8, JobIs
  <1>9. QED
    BY <1>1, <1>5, <1>6, <1>7, <1>8 DEF ItemOps, CollectionOps

\* A call that is left has the tables as they were, and answers as the job.
LEMMA LeftAsJob ==
    ASSUME IndInv, Underway, call # NoCall, FromRouter(call),
           ReturnFalse \/ ConstraintFails \/ ResetFails \/ StorageFails \/ Return \/ Crash
    PROVE  /\ TakesEffectAsJob
           /\ reply' # Null => AnswersAsJob
  <1>1. call \in Requests
    BY DEF IndInv
  <1>2. TakesEffectAsJob
    <2>1. Durable' = Durable /\ applied' = applied
      BY DEF ReturnFalse, ConstraintFails, ResetFails, StorageFails, Return, Crash, Answer, Durable
    <2>2. Shelf' = Shelf /\ NextIds' = NextIds
      <3>1. Documents(Durable)' = Documents(Durable)
        BY <2>1
      <3>2. QED
        BY <2>1, <3>1 DEF Shelf, NextIds
    <2>3. QED
      BY <2>1, <2>2 DEF TakesEffectAsJob
  <1>3. CASE ReturnFalse
    <2>1. todo # <<>> /\ ChangesNothing(Head1) /\ reply' = [status |-> "NotFound", value |-> Null]
      BY <1>3 DEF ReturnFalse, Answer
    <2>2. Accepted(call) /\ ~applied /\ Book!Absent(call.op, call.id)
      BY <2>1, TodoAccepted, NothingFound
    <2>3. Book!Valid(call)
      BY <2>2 DEF Accepted, ValidateProduct, ValidateRecipe, Book!Valid, Book!ValidProduct, Book!ValidRecipe
    <2>4. /\ call.op \in {"UpdateProduct", "DeleteProduct", "UpdateRecipe", "DeleteRecipe"}
          /\ call.id \notin {x.id : x \in Table}
      BY <2>2 DEF Book!Absent, Table, PathOf
    <2>5. Api!Refusal(Job) = "NotFound"
      BY <1>1, <2>3, <2>4, RefusedIf
    <2>6. QED
      BY <1>2, <2>1, <2>2, <2>5 DEF AnswersAsJob
  <1>4. CASE ConstraintFails \/ ResetFails \/ StorageFails
    <2>1. reply' = [status |-> "Storage", value |-> Null]
      BY <1>4 DEF ConstraintFails, ResetFails, StorageFails, Answer
    <2>2. QED
      BY <1>2, <2>1 DEF AnswersAsJob
  <1>5. CASE Return
    <2>1. todo = <<>>
      BY <1>5 DEF Return
    <2>2. CASE Accepted(call)
      <3>1. reply' = [status |-> "ok", value |-> value]
        BY <1>5, <2>2 DEF Return, Answer
      <3>2. Answered
        BY <1>1, <2>1, <2>2, NoneLeft, Arguments DEF Underway
      <3>3. (applied \/ call.op \in Book!Reads) /\ Book!Answers(call.op, call.id, call.arg, value)
        BY <3>2 DEF Answered
      <3>4. /\ Api!UseCase(Job) \in {"Create", "Update", "Delete"} => applied
            /\ Api!UseCase(Job) \notin {"List", "Cookable"} =>
                   Api!ReturnedValue(Job) = IF value = Null THEN Null ELSE ContentsOf(Api!Kind(Job), value)
        BY <1>1, <2>2, <3>3, ReturnedAsJob
      <3>5. QED
        BY <1>2, <3>1, <3>4 DEF AnswersAsJob
    <2>3. CASE ~Accepted(call)
      <3>1. reply' = [status |-> "Validation", value |-> Null] /\ ~applied
        BY <1>5, <2>3 DEF Return, Answer, Underway
      <3>2. ~Book!Valid(call)
        BY <2>3 DEF Accepted, ValidateProduct, ValidateRecipe, Book!Valid, Book!ValidProduct, Book!ValidRecipe
      <3>3. Api!Refusal(Job) = "Validation"
        BY <1>1, <3>2, RefusedIf
      <3>4. QED
        BY <1>2, <3>1, <3>3 DEF AnswersAsJob
    <2>4. QED
      BY <2>2, <2>3
  <1>6. CASE Crash
    <2>1. reply' = Null
      BY <1>6 DEF Crash
    <2>2. QED
      BY <1>2, <2>1
  <1>7. QED
    BY <1>3, <1>4, <1>5, <1>6

\* Whatever its transactions, its failing statements and its crashes, DBManager
\* does with a call of the router what Router.tla takes the database worker to
\* do with the job: the same effect or none, on the same id, the same refusals
\* and the same value.
THEOREM RouterServed == Spec => ServesRouter
  <1> DEFINE Served == (call # NoCall /\ FromRouter(call)) =>
                           /\ TakesEffectAsJob
                           /\ (call' = NoCall /\ reply' # Null) => AnswersAsJob
  <1>1. Init => SequenceKnown
    BY DEF Init, SequenceKnown
  <1>2. IndInv /\ Underway /\ SequenceKnown /\ [Next]_vars => SequenceKnown'
    BY SequenceStep
  <1>3. IndInv /\ IndInv' /\ Underway /\ SequenceKnown /\ [Next]_vars => [Served]_vars
    <2> SUFFICES ASSUME IndInv, IndInv', Underway, SequenceKnown, Next, call # NoCall, FromRouter(call)
                 PROVE  TakesEffectAsJob /\ ((call' = NoCall /\ reply' # Null) => AnswersAsJob)
      OBVIOUS
    <2>1. CASE Acts
      <3>1. call' = call
        BY <2>1 DEF Acts, Begin, Commit, NextRecipe, Write, Read
      <3>2. QED
        BY <2>1, <3>1, ActAsJob
    <2>2. CASE ReturnFalse \/ ConstraintFails \/ ResetFails \/ StorageFails \/ Return \/ Crash
      BY <2>2, LeftAsJob
    <2>3. CASE \E c \in Requests : Call(c)
      BY <2>3 DEF Call
    <2>4. QED
      BY <2>1, <2>2, <2>3 DEF Next, Acts
  <1> HIDE DEF Served
  <1>4. Spec => [][Served]_vars
    BY <1>1, <1>2, <1>3, IndInvAlways, AlwaysUnderway, PTL DEF Spec
  <1>5. QED
    BY <1>4 DEF ServesRouter, Served
-----------------------------------------------------------------------------
(* How far a stale error reaches.                                          *)

\* The statements a constraint of the schema can refuse.
Constrained ==
    {"create_product", "update_product_by_id", "insert_product", "insert_recipe_ingredient",
     "create_recipe", "update_recipe_name_by_id"}

\* On a reliable storage no other statement carries an error.
ErrorsKnown == ~Failures => failed \subseteq Constrained

Deletes == {"DeleteProduct", "DeleteRecipe"}

\* On a reliable storage an error kept by a prepared statement (ResetStatement,
\* DBManager.cpp:34) is met by writes only: a read or a delete is never
\* answered with Storage.  And it is met once: a call that is refused although
\* its statement breaks no constraint takes the error with it.
StaleErrorsConfined ==
    [][ (~Failures /\ call # NoCall /\ call' = NoCall /\ reply'.status = "Storage") =>
            /\ call.op \notin Book!Reads \cup Deletes
            /\ ~Violates(Head1, Arg1) => Head1 \in failed /\ failed' = failed \ {Head1} ]_vars

\* Errors stay where constraints are.
LEMMA ErrorsStep == ErrorsKnown /\ [Next]_vars => ErrorsKnown'
  <1> SUFFICES ASSUME ErrorsKnown, [Next]_vars, ~Failures PROVE failed' \subseteq Constrained
    BY DEF ErrorsKnown
  <1>1. failed \subseteq Constrained
    BY DEF ErrorsKnown
  <1>2. ASSUME ConstraintFails PROVE failed' \subseteq Constrained
    <2>1. Head1 \in Constrained
      BY <1>2 DEF ConstraintFails, Violates, Constrained
    <2>2. QED
      BY <1>1, <1>2, <2>1 DEF ConstraintFails
  <1>3. ASSUME ResetFails PROVE failed' \subseteq Constrained
    BY <1>1, <1>3 DEF ResetFails
  <1>4. ~StorageFails /\ ~Crash
    BY DEF StorageFails, Crash
  <1>5. \/ \E c \in Requests : Call(c)
        \/ Begin \/ Commit \/ NextRecipe \/ Write \/ Read \/ ReturnFalse \/ ConstraintFails \/ ResetFails \/ Return
        \/ UNCHANGED failed
    BY <1>4 DEF Next, vars
  <1>6. UNCHANGED failed \/ ConstraintFails \/ ResetFails
    BY <1>5 DEF Call, Begin, Commit, NextRecipe, Write, Read, ReturnFalse, Return
  <1>7. QED
    BY <1>1, <1>2, <1>3, <1>6

\* A read or a delete is one statement, and no constraint can refuse it.
LEMMA Unconstrained ==
    ASSUME IndInv, Underway, call \in Requests, call.op \in Book!Reads \cup Deletes, todo # <<>>
    PROVE  Head1 \notin Constrained
  <1>1. IsList(todo) /\ IsList(Statements(call)) /\ call # NoCall
    BY AlwaysSound, ListOfCall, Arguments
  <1>2. Fresh
    <2>1. ~Midway
      BY DEF Midway, ReadingBack, Book!Reads, Deletes
    <2>2. QED
      BY <1>1, <2>1 DEF Underway, Answered
  <1>3. Head(todo) = Statements(call)[1]
    <2>1. At(todo, Statements(call), 0)
      BY <1>2 DEF Fresh
    <2>2. Head(todo) = Statements(call)[0 + 1]
      BY <1>1, <2>1, AtTail
    <2>3. QED
      BY <2>2
  <1>4. Statements(call)[1].stmt \notin Constrained
    BY SingleListed DEF Book!Reads, Deletes, Only, Constrained
  <1>5. QED
    BY <1>3, <1>4 DEF Head1

\* A call that is refused on a reliable storage.
LEMMA ConfinedStep ==
    ASSUME IndInv, Underway, ErrorsKnown, [Next]_vars, ~Failures, call # NoCall, call' = NoCall, reply'.status = "Storage"
    PROVE  /\ call.op \notin Book!Reads \cup Deletes
           /\ ~Violates(Head1, Arg1) => Head1 \in failed /\ failed' = failed \ {Head1}
  <1>1. ConstraintFails \/ ResetFails
    <2>1. ~StorageFails /\ ~Crash
      BY DEF StorageFails, Crash
    <2>2. ~ReturnFalse /\ ~Return
      BY DEF ReturnFalse, Return, Answer
    <2>3. ~UNCHANGED vars
      BY DEF vars
    <2>4. ~ \E c \in Requests : Call(c)
      BY DEF Call
    <2>5. QED
      BY <2>1, <2>2, <2>3, <2>4 DEF Next, Begin, Commit, NextRecipe, Write, Read
  <1>2. todo # <<>> /\ call \in Requests
    BY <1>1 DEF ConstraintFails, ResetFails, IndInv, TodoKnown
  <1>3. Head1 \in Constrained
    BY <1>1 DEF ConstraintFails, ResetFails, Violates, ErrorsKnown, Constrained
  <1>4. call.op \notin Book!Reads \cup Deletes
    BY <1>2, <1>3, Unconstrained
  <1>5. ~Violates(Head1, Arg1) => Head1 \in failed /\ failed' = failed \ {Head1}
    BY <1>1 DEF ConstraintFails, ResetFails
  <1>6. QED
    BY <1>4, <1>5

\* What a stale error (ResetStatement) can do to the calls that come after, on
\* a storage without faults, for any calls and rows.
THEOREM StaleErrorsSpare == Spec => StaleErrorsConfined
  <1>1. Init => ErrorsKnown
    BY DEF Init, ErrorsKnown
  <1>2. IndInv /\ Underway /\ ErrorsKnown /\ [Next]_vars =>
            [(~Failures /\ call # NoCall /\ call' = NoCall /\ reply'.status = "Storage") =>
                /\ call.op \notin Book!Reads \cup Deletes
                /\ ~Violates(Head1, Arg1) => Head1 \in failed /\ failed' = failed \ {Head1}]_vars
    BY ConfinedStep
  <1>3. QED
    BY <1>1, <1>2, ErrorsStep, IndInvAlways, AlwaysUnderway, PTL DEF Spec, StaleErrorsConfined
=============================================================================
