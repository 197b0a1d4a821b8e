------------------------------ MODULE XPathSort ------------------------------
(***************************************************************************)
(* Sorting and thinning out an array of XPath nodes (pugixml.cpp: sort,    *)
(* partition, median, insertion_sort, unique, min_element).  An iterator   *)
(* is a position in the array, ends are one past the last element; less is *)
(* the comparison, as a set of pairs.  Sorting is given step by step: c is *)
(* a sort on its way, a record of                                          *)
(*   s          - the array                                                *)
(*   begin, end - the range that sort has come to                          *)
(*   calls      - the ranges it goes on with after that, the next one first*)
(*   at         - "range": at the top of its loop; "equals", "right",      *)
(*                "left", "cross": in the loops of partition; "insert": in *)
(*                insertion_sort; "done"                                   *)
(*   lt, eqb, eqe, gt - the iterators of partition: the pivot and its      *)
(*                equals are at eqb .. eqe - 1, what is between lt and gt  *)
(*                has found its side                                       *)
(*   it         - the iterator of insertion_sort                           *)
(***************************************************************************)
EXTENDS Integers, Sequences, SequencesExt

CONSTANTS SmallSort,   \* as many elements are sorted by insertion (32 in the code)
          SmallMedian  \* chunks longer than this take the median of nine (40)

ASSUME SmallAssumption == SmallSort \in Nat \ {0} /\ SmallMedian \in Nat /\ SmallMedian >= 6

Swap(s, i, j) == [s EXCEPT ![i] = s[j], ![j] = s[i]]

MinElement(s, less) ==
  FoldLeft(LAMBDA least, x : IF <<x, least>> \in less THEN x ELSE least, s[1], Tail(s))

Started(s) == [s |-> s, begin |-> 1, end |-> Len(s) + 1, calls |-> <<>>, at |-> "range",
               lt |-> 1, eqb |-> 1, eqe |-> 1, gt |-> 1, it |-> 1]

------------------------------------------------------------------------------
(* One step of insertion_sort: s[it] goes to the front, or behind the last *)
(* element it is not less than.                                            *)
IsHole(s, begin, it, less, h) ==
  \/ h = begin /\ <<s[it], s[begin]>> \in less
  \/ /\ h > begin /\ <<s[it], s[begin]>> \notin less /\ <<s[it], s[h - 1]>> \notin less
     /\ \A j \in h .. it - 1 : <<s[it], s[j]>> \in less

Inserted(s, begin, it, less) ==
  LET hole == CHOOSE h \in begin .. it : IsHole(s, begin, it, less, h)
  IN  [i \in DOMAIN s |-> CASE i = hole -> s[it]
                            [] i \in hole + 1 .. it -> s[i - 1]
                            [] OTHER -> s[i]]

(* A range is sorted: on with the next one. *)
RangeDone(c) ==
  IF c.calls = <<>> THEN [c EXCEPT !.at = "done"]
  ELSE [c EXCEPT !.begin = Head(c.calls).begin, !.end = Head(c.calls).end,
                 !.calls = Tail(@), !.at = "range"]

Insertion(c, less) ==
  IF c.it < c.end THEN [c EXCEPT !.s = Inserted(@, c.begin, c.it, less), !.it = @ + 1]
  ELSE RangeDone(c)

------------------------------------------------------------------------------
(* median                                                                  *)
OrderedPair(s, i, j, less) == IF <<s[j], s[i]>> \in less THEN Swap(s, i, j) ELSE s

Median3(s, first, middle, last, less) ==
  OrderedPair(OrderedPair(OrderedPair(s, first, middle, less), middle, last, less), first, middle, less)

Median(s, first, middle, last, less) ==
  IF last - first <= SmallMedian THEN Median3(s, first, middle, last, less)
  ELSE LET step == (last - first + 1) \div 8
           s1 == Median3(s, first, first + step, first + 2 * step, less)
           s2 == Median3(s1, middle - step, middle, middle + step, less)
           s3 == Median3(s2, last - 2 * step, last - step, last, less)
       IN  Median3(s3, first + step, middle, last - step, less)

(* The top of the loop: a large range is divided at its median.            *)
TopOfLoop(c, less) ==
  LET middle == c.begin + (c.end - c.begin) \div 2
  IN  IF c.end - c.begin > SmallSort
      THEN [c EXCEPT !.s = Median(@, c.begin, middle, c.end - 1, less),
                     !.eqb = middle, !.eqe = middle + 1, !.at = "equals"]
      ELSE [c EXCEPT !.it = c.begin + 1, !.at = "insert"]

------------------------------------------------------------------------------
(* partition: the pivot's equals beside it; then what is on the wrong side *)
(* is looked for from the right and from the left.                         *)
Equals(c) ==
  IF c.eqb # c.begin /\ c.s[c.eqb - 1] = c.s[c.eqb] THEN [c EXCEPT !.eqb = @ - 1]
  ELSE IF c.eqe # c.end /\ c.s[c.eqe] = c.s[c.eqb] THEN [c EXCEPT !.eqe = @ + 1]
  ELSE [c EXCEPT !.lt = c.eqb, !.gt = c.eqe, !.at = "right"]

FromRight(c, less) ==
  IF c.gt = c.end THEN [c EXCEPT !.at = "left"]
  ELSE IF <<c.s[c.eqb], c.s[c.gt]>> \in less THEN [c EXCEPT !.gt = @ + 1]
  ELSE IF c.s[c.gt] = c.s[c.eqb]
       THEN [c EXCEPT !.s = Swap(@, c.gt, c.eqe), !.eqe = @ + 1, !.gt = @ + 1]
  ELSE [c EXCEPT !.at = "left"]

FromLeft(c, less) ==
  IF c.lt = c.begin THEN [c EXCEPT !.at = "cross"]
  ELSE IF <<c.s[c.lt - 1], c.s[c.eqb]>> \in less THEN [c EXCEPT !.lt = @ - 1]
  ELSE IF c.s[c.eqb] = c.s[c.lt - 1]
       THEN [c EXCEPT !.s = Swap(@, c.lt - 1, c.eqb - 1), !.eqb = @ - 1, !.lt = @ - 1]
  ELSE [c EXCEPT !.at = "cross"]

(* The equals make room: one of the elements on the wrong side crosses.    *)
(* (Fault: the equals do not move.)                                        *)
FromLeftOver(c) ==
  [c EXCEPT !.s = Swap(Swap(@, c.lt - 1, c.eqb - 1), c.eqb - 1, c.eqe - 1),
            !.lt = @ - 1, !.eqb = @ - 1, !.eqe = @ - 1, !.at = "right"]
FromRightOverStill(c) ==
  [c EXCEPT !.s = Swap(@, c.gt, c.eqb),
            !.eqb = @ + 1, !.eqe = @ + 1, !.gt = @ + 1, !.at = "right"]
FromRightOver(c) ==
  [c EXCEPT !.s = Swap(IF c.eqe # c.gt THEN Swap(@, c.eqb, c.eqe) ELSE @, c.gt, c.eqb),
            !.eqb = @ + 1, !.eqe = @ + 1, !.gt = @ + 1, !.at = "right"]
Exchanged(c) == [c EXCEPT !.s = Swap(@, c.gt, c.lt - 1), !.gt = @ + 1, !.lt = @ - 1, !.at = "right"]

(* All have found their side: the smaller one is sorted first.             *)
Divided(c) ==
  LET Turn(now, later) == [c EXCEPT !.begin = now.begin, !.end = now.end,
                                    !.calls = <<later>> \o @, !.at = "range"]
      left  == [begin |-> c.begin, end |-> c.eqb]
      right == [begin |-> c.eqe, end |-> c.end]
  IN  IF c.eqb - c.begin > c.end - c.eqe THEN Turn(right, left) ELSE Turn(left, right)

Cross(c) ==
  IF c.gt = c.end
  THEN IF c.lt = c.begin THEN Divided(c) ELSE FromLeftOver(c)
  ELSE IF c.lt = c.begin THEN FromRightOver(c) ELSE Exchanged(c)

SortStep(c, less) ==
  CASE c.at = "range"  -> TopOfLoop(c, less)
    [] c.at = "equals" -> Equals(c)
    [] c.at = "right"  -> FromRight(c, less)
    [] c.at = "left"   -> FromLeft(c, less)
    [] c.at = "cross"  -> Cross(c)
    [] c.at = "insert" -> Insertion(c, less)

------------------------------------------------------------------------------
(* unique, step by step: u has the array, the iterator begin and the last  *)
(* element written.  The head is skipped up to the first two equal         *)
(* neighbours; from there on what differs from the last one is written     *)
(* behind it.                                                              *)
Thinning(s) == [s |-> s, begin |-> 1, write |-> 0, at |-> "head"]

SkipHead(u) ==
  IF u.begin < Len(u.s) /\ u.s[u.begin] # u.s[u.begin + 1] THEN [u EXCEPT !.begin = @ + 1]
  ELSE IF u.begin = Len(u.s) + 1 THEN [u EXCEPT !.at = "done"]
  ELSE [u EXCEPT !.write = u.begin, !.begin = @ + 1, !.at = "merge"]

MergeUnique(u) ==
  IF u.begin = Len(u.s) + 1 THEN [u EXCEPT !.at = "done"]
  ELSE IF u.s[u.begin] # u.s[u.write]
       THEN [u EXCEPT !.s = [@ EXCEPT ![u.write + 1] = u.s[u.begin]], !.write = @ + 1, !.begin = @ + 1]
  ELSE [u EXCEPT !.begin = @ + 1]

UniqueStep(u) == IF u.at = "head" THEN SkipHead(u) ELSE MergeUnique(u)

(* The array ends behind the last element written. *)
Truncated(u) == SubSeq(u.s, 1, u.write)
==============================================================================
