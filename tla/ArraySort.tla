------------------------------ MODULE ArraySort ------------------------------
(***************************************************************************)
(* An array is filled, sorted and thinned out (XPathSort), with whatever   *)
(* comparison: remove_duplicates of an unsorted node set.                  *)
(***************************************************************************)
EXTENDS XPathSort, FiniteSets

CONSTANTS Elements,  \* what an array is made of
          Less,      \* the comparison
          MaxArray   \* bound: elements of an array

(* Of two different elements one is less than the other, without cycles.   *)
(* What the comparison says of equal ones is left open: that of nodes in   *)
(* the order of the document says of some that they are less than          *)
(* themselves.                                                             *)
ASSUME LessAssumption ==
  /\ \A x, y \in Elements : x # y => (<<x, y>> \in Less <=> <<y, x>> \notin Less)
  /\ \A x, y, z \in Elements :
       x # y /\ y # z /\ <<x, y>> \in Less /\ <<y, z>> \in Less => <<x, z>> \in Less

VARIABLES array,    \* what is to be sorted
          sorting,  \* the sort on its way
          steps,    \* how many steps it has taken
          thinning  \* unique on its way, of what was sorted

arrays == <<array, sorting, steps, thinning>>

NotSorting == [at |-> "none"]

NotThinning == [at |-> "none"]

SortInit == array = <<>> /\ sorting = NotSorting /\ steps = 0 /\ thinning = NotThinning

Extend == /\ sorting = NotSorting /\ Len(array) < MaxArray
          /\ \E x \in Elements : array' = Append(array, x)
          /\ UNCHANGED <<sorting, steps, thinning>>

Begin == /\ sorting = NotSorting
         /\ sorting' = Started(array)
         /\ UNCHANGED <<array, steps, thinning>>

Proceed == /\ sorting.at \notin {"none", "done"}
           /\ sorting' = SortStep(sorting, Less)
           /\ steps' = steps + 1
           /\ UNCHANGED <<array, thinning>>

ThinOut == /\ sorting.at = "done" /\ thinning.at # "done"
           /\ thinning' = IF thinning = NotThinning THEN Thinning(sorting.s) ELSE UniqueStep(thinning)
           /\ UNCHANGED <<array, sorting, steps>>

SortNext == Extend \/ Begin \/ Proceed \/ ThinOut

SortSpec == SortInit /\ [][SortNext]_arrays

------------------------------------------------------------------------------
(* Sorting ends: the steps are at most as many as a quadratic sort takes.  *)
MostSteps(n) == 4 * ((n + 1) * (n + 1))

SortEnds == steps <= MostSteps(Len(array))

(* Each element is there as often as before. *)
PlacesOf(s, x) == {i \in DOMAIN s : s[i] = x}

NothingIsLost ==
  \A x \in Elements : Cardinality(PlacesOf(sorting.s, x)) = Cardinality(PlacesOf(array, x))

(* Each element is less than all after it, or equal. *)
Ascending ==
  \A i, j \in DOMAIN sorting.s :
    i < j => sorting.s[i] = sorting.s[j] \/ <<sorting.s[i], sorting.s[j]>> \in Less

(* What is kept in the end is one of each element, in order. *)
OneOfEach ==
  LET kept == Truncated(thinning)
  IN  /\ \A x \in Elements : PlacesOf(kept, x) # {} <=> PlacesOf(array, x) # {}
      /\ \A i, j \in DOMAIN kept : i < j => kept[i] # kept[j] /\ <<kept[i], kept[j]>> \in Less

(* Whatever way sort divides an array, it comes to an end, and all is in   *)
(* order then (sort, partition, median, insertion_sort); and thinned out   *)
(* it has each element once (unique, remove_duplicates).                   *)
SortSorts ==
  /\ SortEnds
  /\ sorting.at = "done" => NothingIsLost /\ Ascending
  /\ thinning.at = "done" => OneOfEach
==============================================================================
