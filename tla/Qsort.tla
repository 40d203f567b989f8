------------------------------- MODULE Qsort --------------------------------
(***************************************************************************)
(* qsort of userland/lib/libc/stdlib/qsort.c: a quicksort in place with    *)
(* the middle element as its pivot.  An array is a sequence; the           *)
(* comparison function is given by a key, so that two elements compare as  *)
(* their keys do.  The indexes of the code count from 0.                   *)
(***************************************************************************)
EXTENDS Integers, Sequences

\* The array with the elements of the indexes a and b exchanged.
Exchanged(s, a, b) ==
    [i \in 1 .. Len(s) |-> CASE i = a + 1 -> s[b + 1]
                             [] i = b + 1 -> s[a + 1]
                             [] OTHER -> s[i]]

\* Steps 1 and 2: what compares less than or equal to the pivot goes to the
\* front.  The pivot is an index, and follows its element.
RECURSIVE qsort_partition(_, _, _, _, _)
qsort_partition(s, key, pivot, head, tail) ==
    LET k(i) == key[s[i + 1]]
    IN  IF head >= tail THEN [s |-> s, pivot |-> pivot, head |-> head, tail |-> tail]
        ELSE IF k(head) <= k(pivot) THEN qsort_partition(s, key, pivot, head + 1, tail)
        ELSE IF k(tail) > k(pivot) THEN qsort_partition(s, key, pivot, head, tail - 1)
        ELSE qsort_partition(Exchanged(s, head, tail), key,
                             CASE pivot = head -> tail
                               [] pivot = tail -> head
                               [] OTHER -> pivot,
                             head + 1, tail - 1)

\* Step 3: the index of the first element of the back portion.
qsort_back(p, key) ==
    IF p.head > p.tail \/ key[p.s[p.head + 1]] <= key[p.s[p.pivot + 1]]
    THEN p.tail + 1 ELSE p.tail

\* Step 4: the pivot is a largest element and goes to the end; what is equal
\* to it there is in place.
qsort_lop(p, key) ==
    LET last == Len(p.s) - 1
        s    == IF p.pivot < last /\ key[p.s[p.pivot + 1]] > key[p.s[last + 1]]
                THEN Exchanged(p.s, p.pivot, last) ELSE p.s
        tail == CHOOSE t \in 0 .. last :
                  /\ \A i \in t .. last : key[s[i + 1]] = key[s[last + 1]]
                  /\ t = 0 \/ key[s[t]] # key[s[t + 1]]
    IN  [s |-> s, tail |-> tail]

RECURSIVE qsort(_, _)
qsort(s, key) ==
    IF Len(s) <= 1 THEN s
    ELSE IF Len(s) = 2 /\ key[s[1]] > key[s[2]] THEN <<s[2], s[1]>>
    ELSE LET p    == qsort_partition(s, key, Len(s) \div 2, 0, Len(s) - 1)
             back == qsort_back(p, key)
             l    == qsort_lop(p, key)
         IN  IF back = Len(s)
             THEN qsort(SubSeq(l.s, 1, l.tail), key) \o SubSeq(l.s, l.tail + 1, Len(s))
             ELSE qsort(SubSeq(p.s, 1, back), key) \o qsort(SubSeq(p.s, back + 1, Len(s)), key)

=============================================================================
