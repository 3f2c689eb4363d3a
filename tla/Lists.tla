------------------------------- MODULE Lists --------------------------------
(***************************************************************************)
(* The collections of pobj.cc: cl_list, an array of pointers that grows by *)
(* Delta, and cl_sorted_list, which finds its items by binary search.      *)
(*                                                                         *)
(* The state is the record li: one list, plain or sorted, with duplicate   *)
(* keys or not.  An item has a key and a name that stands for its address. *)
(* over is set by a step that stores behind the array, after which nothing *)
(* is known.                                                               *)
(***************************************************************************)
EXTENDS Integers, Sequences, FiniteSets
Seqs == INSTANCE SequencesExt

CONSTANTS
  ListKeys,   \* keys of items
  ListNames,  \* addresses of items
  ListDelta,  \* growth of the array
  MaxList     \* items of the largest array (max_list_size)

ASSUME ListAssumption ==
  ListKeys \subseteq Int /\ ListDelta \in Nat \ {0} /\ MaxList \in Nat \ {0}

VARIABLE li

\* cl_list::cl_list: set_limit allocates the array
list_init(sorted, dup) ==
  [items |-> <<>>, Limit |-> 1, sorted |-> sorted, Duplicates |-> dup, over |-> FALSE]

Count(l) == Len(l.items)

\* cl_list::set_limit
set_limit(l, n) ==
  LET wanted == IF n < Count(l) THEN Count(l) ELSE n
  IN  [l EXCEPT !.Limit = IF wanted > MaxList THEN MaxList ELSE wanted]

\* cl_list::add_at.  An array of the largest size does not grow, and the item
\* goes behind it.
add_at(l, i, x) ==
  LET g == IF Count(l) = l.Limit THEN set_limit(l, Count(l) + ListDelta) ELSE l
  IN  [g EXCEPT !.items = Seqs!InsertAt(@, i + 1, x), !.over = @ \/ Count(l) = g.Limit]

\* cl_list::disconn_at, free_at
disconn_at(l, i) == [l EXCEPT !.items = Seqs!RemoveAt(@, i + 1)]

\* cl_list::disconn, by the address of the item, from the first on
disconn(l, x) ==
  LET at == {i \in 1 .. Count(l) : l.items[i] = x}
  IN  IF at = {} THEN l
      ELSE disconn_at(l, (CHOOSE i \in at : \A j \in at : i <= j) - 1)

\* cl_list::free_all and disconn_all: the array stays
free_all(l) == [l EXCEPT !.items = <<>>]

\* cl_list::push, and pop for lists that hold something
push(l, x) == add_at(l, 0, x)
pop(l) == disconn_at(l, 0)

\* Fault: the search goes on in the lower half without the probe.
Fault_search(keys, key, dup) ==
  LET Probe[p \in (0 .. Len(keys)) \X (-1 .. Len(keys) - 1)] ==
        LET l == p[1]
            h == p[2]
            i == (l + h) \div 2
        IN  IF l > h THEN [res |-> FALSE, index |-> l]
            ELSE IF keys[i + 1] < key THEN Probe[<<i + 1, h>>]
            ELSE IF keys[i + 1] = key THEN [res |-> TRUE, index |-> i]
            ELSE Probe[<<l, i - 1>>]
  IN  Probe[<<0, Len(keys) - 1>>]

\* cl_sorted_list::search: whether the key is there, and where it is or would
\* be; with duplicates the first one
search(keys, key, dup) ==
  LET Probe[p \in (0 .. Len(keys)) \X (-1 .. Len(keys) - 1)] ==
        LET l == p[1]
            h == p[2]
            i == (l + h) \div 2
        IN  IF l > h THEN [res |-> FALSE, index |-> l]
            ELSE IF keys[i + 1] < key THEN Probe[<<i + 1, h>>]
            ELSE IF keys[i + 1] > key THEN Probe[<<l, i - 1>>]
            ELSE IF ~dup THEN [res |-> TRUE, index |-> i]
            ELSE [Probe[<<l, i - 1>>] EXCEPT !.res = TRUE]
  IN  Probe[<<0, Len(keys) - 1>>]

KeysOf(l) == [i \in 1 .. Count(l) |-> l.items[i].key]

\* cl_list::add and cl_sorted_list::add
list_add(l, x) ==
  LET f == search(KeysOf(l), x.key, l.Duplicates)
  IN  IF ~l.sorted THEN add_at(l, Count(l), x)
      ELSE IF f.res /\ ~l.Duplicates THEN l
      ELSE add_at(l, f.index, x)

NotFound == -1

\* cl_sorted_list::index_of: the items of the same key are passed one by one,
\* and the others behind them
index_of(l, x) ==
  LET f == search(KeysOf(l), x.key, l.Duplicates)
      at == {i \in f.index .. Count(l) - 1 : ~l.Duplicates \/ l.items[i + 1] = x}
  IN  IF ~f.res \/ at = {} THEN NotFound ELSE CHOOSE i \in at : \A j \in at : i <= j
-----------------------------------------------------------------------------
ListInit == \E sorted \in BOOLEAN, dup \in BOOLEAN : li = list_init(sorted, dup)

Stored == {li.items[i] : i \in 1 .. Count(li)}

ListAdd ==
  \E k \in ListKeys, u \in ListNames :
    /\ ~li.over /\ u \notin {x.u : x \in Stored}
    /\ li' = list_add(li, [key |-> k, u |-> u])

ListRemove == ~li.over /\ \E x \in Stored : li' = disconn(li, x)

ListClear == ~li.over /\ li.items # <<>> /\ li' = free_all(li)

ListStack ==
  /\ ~li.sorted /\ ~li.over
  /\ \/ \E u \in ListNames :
          u \notin {x.u : x \in Stored} /\ li' = push(li, [key |-> 0, u |-> u])
     \/ li.items # <<>> /\ li' = pop(li)

ListNext == ListAdd \/ ListRemove \/ ListClear \/ ListStack
-----------------------------------------------------------------------------
(* Properties *)

\* A sorted list stays in order under add and disconn, holds no key twice
\* unless it may, and index_of finds each of its items, also among equal keys;
\* and no list stores behind its array before it holds max_list_size items.
ListsFind ==
  /\ li.sorted =>
       /\ \A i, j \in 1 .. Count(li) : i < j =>
            /\ li.items[i].key <= li.items[j].key
            /\ ~li.Duplicates => li.items[i].key # li.items[j].key
       /\ \A i \in 1 .. Count(li) : index_of(li, li.items[i]) = i - 1
  /\ IF li.over THEN Count(li) > MaxList ELSE Count(li) <= li.Limit
=============================================================================
