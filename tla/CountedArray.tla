------------------------------ MODULE CountedArray ------------------------------
(***************************************************************************)
(* The server keeps every table (the users of a channel, the users logged  *)
(* in, the channels a neighbour subscribed to) as a C array and an int     *)
(* with the number of entries.  Several removals decrement the int whether *)
(* or not they removed anything, so the count can go below zero; an append *)
(* then writes in front of the array, where no loop looks, and only raises *)
(* the count.  A counted array is the entries the loops can see and the    *)
(* debt, by how much the int is below zero.                                *)
(***************************************************************************)
EXTENDS Integers, SequencesExt

CountedArrays(S) == [items : Seq(S), debt : Nat]

\* A debt means that no entry is visible.
WellCounted(a) == a.debt > 0 => a.items = <<>>

EmptyArray == [items |-> <<>>, debt |-> 0]

OneEntry(x) == [items |-> <<x>>, debt |-> 0]

\* The value of the C int.
Count(a) == Len(a.items) - a.debt

\* list[count++] = x
Store(a, x) ==
  IF a.debt > 0 THEN [a EXCEPT !.debt = @ - 1]
                ELSE [a EXCEPT !.items = Append(@, x)]

\* Mutant: the entry stays visible.
DropLastInCountOnly(a) == [a EXCEPT !.debt = @ + 1]

\* count-- with no entry moved: the last visible entry is forgotten.
DropLast(a) ==
  IF a.items = <<>> THEN [a EXCEPT !.debt = @ + 1]
                    ELSE [a EXCEPT !.items = Front(@)]

\* Entry i is removed, the later ones move down, count--.
RemoveIndex(a, i) == [a EXCEPT !.items = RemoveAt(@, i)]

================================================================================
