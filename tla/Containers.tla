----------------------------- MODULE Containers -----------------------------
(***************************************************************************)
(* The kernel's containers: threadlist.c (lists of threads, linked through *)
(* the threads), array.c and bitmap.c, with their tests.  A behaviour has  *)
(* containers of one kind, and is the calls of one test in their order or  *)
(* any calls whose callers keep the rules of the headers.                  *)
(*                                                                         *)
(* cn.c is the container as the code lays it out in memory.  cn.order,     *)
(* cn.val and cn.set are what its callers have put into it.                *)
(***************************************************************************)
EXTENDS Integers, Sequences, FiniteSets, SequencesExt

CONSTANTS
    NUMNAMES,        \* threads of threadlisttest
    CnThreads,       \* threads of the calls in any order
    CnArray,         \* TESTSIZE of arraytest
    CnMax,           \* the largest array of the calls in any order
    CnBits,          \* sizes of bitmaps
    BITS_PER_WORD

ContainersBounds ==
    /\ NUMNAMES \in Nat /\ NUMNAMES >= 5 /\ CnThreads \in 1 .. NUMNAMES
    /\ CnArray \in Nat /\ CnArray >= 6 /\ CnMax \in Nat \ {0}
    /\ CnBits \subseteq Nat /\ BITS_PER_WORD \in Nat \ {0}

VARIABLE cn

Lists == {1, 2}
NoNode == <<"null", 0>>
tl_head(l) == <<"head", l>>
tl_tail(l) == <<"tail", l>>
t_listnode(t) == <<"thread", t>>
fakethreads == 0 .. NUMNAMES - 1

\* An element that array_setsize adds is not initialized.
Junk == -2

\* The calls of a test have their turn; other calls come in any order.
AnyCalls == << <<"any">> >>
Doing(kind, call) ==
    /\ cn.kind = kind /\ ~cn.panic
    /\ cn.prog = AnyCalls \/ (cn.prog # <<>> /\ Head(cn.prog) = call)
Rest == IF cn.prog = AnyCalls THEN AnyCalls ELSE Tail(cn.prog)
Free == cn.prog = AnyCalls

-----------------------------------------------------------------------------
(* threadlist.c *)

threadlist_init ==
    LET nodes == {tl_head(l) : l \in Lists} \cup {tl_tail(l) : l \in Lists}
                   \cup {t_listnode(t) : t \in fakethreads}
    IN [next |-> [n \in nodes |-> IF n[1] = "head" THEN tl_tail(n[2]) ELSE NoNode],
        prev |-> [n \in nodes |-> IF n[1] = "tail" THEN tl_head(n[2]) ELSE NoNode],
        count |-> [l \in Lists |-> 0]]

threadlist_insertafternode(c, onlist, addee) ==
    LET c1 == [c EXCEPT !.prev[addee] = onlist, !.next[addee] = c.next[onlist]]
        c2 == [c1 EXCEPT !.next[c1.prev[addee]] = addee]
    IN [c2 EXCEPT !.prev[c2.next[addee]] = addee]

threadlist_insertbeforenode(c, addee, onlist) ==
    LET c1 == [c EXCEPT !.prev[addee] = c.prev[onlist], !.next[addee] = onlist]
        c2 == [c1 EXCEPT !.next[c1.prev[addee]] = addee]
    IN [c2 EXCEPT !.prev[c2.next[addee]] = addee]

threadlist_removenode(c, tln) ==
    LET c1 == [c EXCEPT !.next[c.prev[tln]] = c.next[tln]]
        c2 == [c1 EXCEPT !.prev[c1.next[tln]] = c1.prev[tln]]
    IN [c2 EXCEPT !.prev[tln] = NoNode, !.next[tln] = NoNode]

Counted(c, l, n) == [c EXCEPT !.count[l] = @ + n]

\* A thread is on one list at most: it has one t_listnode.
OnList(l) == {cn.order[l][i] : i \in DOMAIN cn.order[l]}
Loose(t) == \A l \in Lists : t \notin OnList(l)

Relinked(call, c, l, order) ==
    /\ Doing("threadlist", call)
    /\ cn' = [cn EXCEPT !.c = c, !.order[l] = order, !.prog = Rest]

threadlist_addhead(l, t) ==
    /\ Loose(t)
    /\ Relinked(<<"addhead", t>>, Counted(threadlist_insertafternode(cn.c, tl_head(l), t_listnode(t)), l, 1),
              l, <<t>> \o cn.order[l])

threadlist_addtail(l, t) ==
    /\ Loose(t)
    /\ Relinked(<<"addtail", t>>, Counted(threadlist_insertbeforenode(cn.c, t_listnode(t), tl_tail(l)), l, 1),
              l, Append(cn.order[l], t))

Place(l, t) == CHOOSE i \in DOMAIN cn.order[l] : cn.order[l][i] = t

threadlist_insertafter(l, onlist, t) ==
    /\ Loose(t) /\ onlist \in OnList(l)
    /\ Relinked(<<"insertafter", onlist, t>>,
              Counted(threadlist_insertafternode(cn.c, t_listnode(onlist), t_listnode(t)), l, 1),
              l, InsertAt(cn.order[l], Place(l, onlist) + 1, t))

threadlist_insertbefore(l, t, onlist) ==
    /\ Loose(t) /\ onlist \in OnList(l)
    /\ Relinked(<<"insertbefore", t, onlist>>,
              Counted(threadlist_insertbeforenode(cn.c, t_listnode(t), t_listnode(onlist)), l, 1),
              l, InsertAt(cn.order[l], Place(l, onlist), t))

threadlist_remove(l, t) ==
    /\ t \in OnList(l)
    /\ Relinked(<<"remove", t>>, Counted(threadlist_removenode(cn.c, t_listnode(t)), l, -1),
              l, RemoveAt(cn.order[l], Place(l, t)))

\* What a call takes out is asserted to be the thread that was put there.
Taken(call, l, tln, empty, at) ==
    \/ /\ empty /\ Free /\ Doing("threadlist", <<call>>)
       /\ cn' = [cn EXCEPT !.panic = cn.order[l] # <<>>]
    \/ /\ ~empty
       /\ cn.kind = "threadlist" /\ ~cn.panic
       /\ Free \/ (cn.prog # <<>> /\ Head(cn.prog)[1] = call)
       /\ cn' = [cn EXCEPT !.c = Counted(threadlist_removenode(cn.c, tln), l, -1),
                           !.panic = \/ cn.order[l] = <<>>
                                     \/ tln # t_listnode(cn.order[l][at])
                                     \/ ~Free /\ tln # t_listnode(Head(cn.prog)[2]),
                           !.order[l] = IF @ = <<>> THEN @ ELSE RemoveAt(@, at),
                           !.prog = Rest]

threadlist_remhead(l) ==
    LET tln == cn.c.next[tl_head(l)] IN Taken("remhead", l, tln, cn.c.next[tln] = NoNode, 1)

threadlist_remtail(l) ==
    LET tln == cn.c.prev[tl_tail(l)]
    IN Taken("remtail", l, tln, cn.c.prev[tln] = NoNode, Len(cn.order[l]))

\* THREADLIST_FORALL over at most so many threads.
THREADLIST_FORALL(c, l) ==
    LET at[k \in 0 .. NUMNAMES] ==
          IF k = 0 THEN c.next[tl_head(l)]
          ELSE IF at[k - 1][1] = "thread" THEN c.next[at[k - 1]] ELSE at[k - 1]
    IN SelectSeq([k \in 1 .. NUMNAMES |-> at[k - 1]], LAMBDA n : n[1] = "thread")

check_order(rev) ==
    LET names == THREADLIST_FORALL(cn.c, 1)
    IN /\ ~Free /\ Doing("threadlist", <<"check_order", rev>>)
       /\ cn' = [cn EXCEPT !.prog = Rest,
                           !.panic = \E i \in 1 .. Len(names) - 1 :
                                        IF rev THEN names[i][2] <= names[i + 1][2]
                                        ELSE names[i][2] >= names[i + 1][2]]

threadlist_cleanup ==
    /\ ~Free /\ Doing("threadlist", <<"cleanup">>)
    /\ cn' = [cn EXCEPT !.prog = Rest, !.panic = cn.c.count[1] # 0]

threadlisttest_b ==
    << <<"addhead", 0>>, <<"check_order", FALSE>>, <<"check_order", TRUE>>, <<"remhead", 0>>,
       <<"addtail", 0>>, <<"check_order", FALSE>>, <<"check_order", TRUE>>, <<"remtail", 0>>,
       <<"cleanup">> >>
threadlisttest_c ==
    << <<"addhead", 0>>, <<"addhead", 1>>, <<"check_order", TRUE>>, <<"remhead", 1>>, <<"remhead", 0>>,
       <<"addtail", 0>>, <<"addtail", 1>>, <<"check_order", FALSE>>, <<"remtail", 1>>, <<"remtail", 0>>,
       <<"cleanup">> >>
threadlisttest_d ==
    << <<"addhead", 0>>, <<"addtail", 1>>, <<"check_order", FALSE>>, <<"remhead", 0>>, <<"remtail", 1>>,
       <<"addhead", 0>>, <<"addtail", 1>>, <<"check_order", FALSE>>, <<"remtail", 1>>, <<"remtail", 0>>,
       <<"cleanup">> >>
threadlisttest_e ==
    << <<"addhead", 1>>, <<"addtail", 3>>, <<"check_order", FALSE>>,
       <<"insertafter", 3, 4>>, <<"check_order", FALSE>>,
       <<"insertbefore", 0, 1>>, <<"check_order", FALSE>>,
       <<"insertafter", 1, 2>>, <<"check_order", FALSE>> >>
      \o [i \in 1 .. 5 |-> <<"remhead", i - 1>>] \o << <<"cleanup">> >>
threadlisttest_f ==
    [i \in 1 .. NUMNAMES |-> <<"addtail", i - 1>>] \o [i \in 1 .. NUMNAMES |-> <<"remhead", i - 1>>]
threadlisttest ==
    << <<"cleanup">> >> \o threadlisttest_b \o threadlisttest_c \o threadlisttest_d
       \o threadlisttest_e \o threadlisttest_f

-----------------------------------------------------------------------------
(* array.c *)

array_init == [v |-> <<>>, num |-> 0, max |-> 0]

\* newmax of array_preallocate: the next power of two from 4 that is enough.
newmax(max, num) ==
    LET grown[m \in 1 .. 8 * (num + max + 1)] ==
          IF num <= m THEN m ELSE grown[m * 2]
    IN grown[IF max = 0 THEN 4 ELSE max]

array_preallocate(a, num) ==
    IF num <= a.max THEN a
    ELSE [a EXCEPT !.max = newmax(a.max, num),
                   !.v = [i \in 1 .. newmax(a.max, num) |->
                            IF i <= a.num THEN a.v[i] ELSE Junk]]

\* What the caller has stored in its first num elements.
Kept(val, num) == [i \in 1 .. num |-> IF i <= Len(val) THEN val[i] ELSE Junk]

Arrays(call, a, val) ==
    Doing("array", call) /\ cn' = [cn EXCEPT !.c = a, !.val = val, !.prog = Rest]

\* kmalloc's failure leaves the array as it is; the tests stop there.
ENOMEM(call, num) ==
    /\ Doing("array", call) /\ num > cn.c.max
    /\ cn' = [cn EXCEPT !.prog = IF Free THEN AnyCalls ELSE <<>>]

array_setsize(num) ==
    \/ Arrays(<<"setsize", num>>, [array_preallocate(cn.c, num) EXCEPT !.num = num], Kept(cn.val, num))
    \/ ENOMEM(<<"setsize", num>>, num)

array_add(x) ==
    /\ Free => cn.c.num < CnMax
    /\ LET a == array_preallocate(cn.c, cn.c.num + 1)
       IN \/ Arrays(<<"add", x>>, [a EXCEPT !.v[cn.c.num + 1] = x, !.num = @ + 1], Append(cn.val, x))
          \/ ENOMEM(<<"add", x>>, cn.c.num + 1)

array_set(index, x) ==
    /\ index < cn.c.num
    /\ Arrays(<<"set", index, x>>, [cn.c EXCEPT !.v[index + 1] = x], [cn.val EXCEPT ![index + 1] = x])

\* memmove of the elements above index; the last one stays where it was.
array_remove(index) ==
    /\ index < cn.c.num
    /\ Arrays(<<"remove", index>>,
              [cn.c EXCEPT !.v = [i \in DOMAIN @ |->
                                    IF index < i /\ i < cn.c.num THEN @[i + 1] ELSE @[i]],
                           !.num = @ - 1],
              RemoveAt(cn.val, index + 1))

\* The test stores its elements' numbers, and NULL, for which -1 stands.
testa ==
    [i \in 1 .. CnArray |-> <<"add", i - 1>>]
      \o [i \in 1 .. CnArray |-> <<"set", i - 1, CnArray - i>>]
      \o << <<"setsize", CnArray \div 2>>, <<"remove", 1>>, <<"setsize", 2>>, <<"set", 1, -1>>,
            <<"setsize", 2>>, <<"setsize", CnArray * 10>> >>
arraytest == testa \o << <<"setsize", 0>> >> \o testa \o << <<"setsize", 0>> >>

-----------------------------------------------------------------------------
(* bitmap.c: a word is the set of its bits that are set *)

DIVROUNDUP(a, b) == (a + b - 1) \div b
WORD_ALLBITS == 0 .. BITS_PER_WORD - 1

\* Leftover bits at the end are marked in use.
bitmap_create(nbits) ==
    [nbits |-> nbits,
     v |-> [ix \in 0 .. DIVROUNDUP(nbits, BITS_PER_WORD) - 1 |->
              {j \in WORD_ALLBITS : ix * BITS_PER_WORD + j >= nbits}]]

bitmap_isset(b, index) == index % BITS_PER_WORD \in b.v[index \div BITS_PER_WORD]

Marked(b, index) == [b EXCEPT !.v[index \div BITS_PER_WORD] = @ \cup {index % BITS_PER_WORD}]

bitmap_mark(index) ==
    /\ Doing("bitmap", <<"mark", index>>) /\ index < cn.c.nbits
    /\ Free => index \notin cn.set
    /\ cn' = [cn EXCEPT !.c = Marked(@, index), !.set = @ \cup {index}, !.prog = Rest,
                        !.panic = bitmap_isset(cn.c, index)]

bitmap_unmark(index) ==
    /\ Doing("bitmap", <<"unmark", index>>) /\ index < cn.c.nbits
    /\ Free => index \in cn.set
    /\ cn' = [cn EXCEPT !.c.v[index \div BITS_PER_WORD] = @ \ {index % BITS_PER_WORD},
                        !.set = @ \ {index}, !.prog = Rest,
                        !.panic = ~bitmap_isset(cn.c, index)]

\* The first bit that is clear.  It is one its caller has not marked.
bitmap_alloc ==
    LET open == {ix \in DOMAIN cn.c.v : cn.c.v[ix] # WORD_ALLBITS}
        ix == CHOOSE i \in open : \A k \in open : i <= k
        offset == CHOOSE j \in WORD_ALLBITS \ cn.c.v[ix] : \A k \in WORD_ALLBITS \ cn.c.v[ix] : j <= k
        index == ix * BITS_PER_WORD + offset
    IN /\ Doing("bitmap", <<"alloc">>)
       /\ \/ /\ open # {}
             /\ cn' = [cn EXCEPT !.c = Marked(@, index), !.set = @ \cup {index},
                                 !.panic = index >= cn.c.nbits \/ index \in cn.set]
          \/ /\ open = {}
             /\ cn' = [cn EXCEPT !.prog = Rest, !.panic = cn.set # 0 .. cn.c.nbits - 1]

bitmaptest(nbits, data) ==
    [i \in 1 .. Cardinality(data) |-> <<"mark", SetToSortSeq(data, <)[i]>>]
      \o [i \in 1 .. nbits |-> IF i - 1 \in data THEN <<"unmark", i - 1>> ELSE <<"mark", i - 1>>]
      \o << <<"alloc">> >>

-----------------------------------------------------------------------------

Begins(kind, c, progs) ==
    \E prog \in progs : cn = [kind |-> kind, c |-> c, prog |-> prog, panic |-> FALSE,
                              order |-> [l \in Lists |-> <<>>], val |-> <<>>, set |-> {}]
CnInit ==
    \/ Begins("threadlist", threadlist_init, {AnyCalls, threadlisttest})
    \/ Begins("array", array_init, {AnyCalls, arraytest})
    \/ \E n \in CnBits :
         Begins("bitmap", bitmap_create(n), {AnyCalls} \cup {bitmaptest(n, d) : d \in SUBSET (0 .. n - 1)})

ListNext ==
    \E l \in IF cn.prog = AnyCalls THEN Lists ELSE {1} :
       \/ threadlist_remhead(l) \/ threadlist_remtail(l)
       \/ \E t \in IF cn.prog = AnyCalls THEN 0 .. CnThreads - 1 ELSE fakethreads :
            \/ threadlist_addhead(l, t) \/ threadlist_addtail(l, t) \/ (Free /\ threadlist_remove(l, t))
            \/ \E u \in OnList(l) : threadlist_insertafter(l, u, t) \/ threadlist_insertbefore(l, t, u)

CnNext ==
    \/ /\ cn.kind = "threadlist"
       /\ ListNext \/ threadlist_cleanup \/ \E rev \in BOOLEAN : check_order(rev)
    \/ /\ cn.kind = "array"
       /\ \/ \E n \in IF Free THEN 0 .. CnMax ELSE {0, 2, CnArray \div 2, CnArray * 10} : array_setsize(n)
          \/ \E x \in IF Free THEN {0, 1} ELSE -1 .. CnArray :
               array_add(x) \/ \E i \in 0 .. cn.c.num - 1 : array_set(i, x)
          \/ \E i \in 0 .. cn.c.num - 1 : array_remove(i)
    \/ /\ cn.kind = "bitmap"
       /\ bitmap_alloc \/ \E i \in 0 .. cn.c.nbits - 1 : bitmap_mark(i) \/ bitmap_unmark(i)

-----------------------------------------------------------------------------
(* Properties *)

\* A list is linked both ways through the threads that were put on it, in their
\* order, and counts them; a thread on no list has no links.  An array holds
\* what was stored in it whatever reallocations and removals came between.
\* A bitmap has marked what its callers have, and the bits of its last word
\* that are none of its own.  So no assertion of the code or its tests fails.
ContainersSound ==
    /\ ~cn.panic
    /\ cn.kind = "threadlist" =>
         /\ \A l \in Lists :
              LET s == <<tl_head(l)>> \o [i \in DOMAIN cn.order[l] |-> t_listnode(cn.order[l][i])]
                         \o <<tl_tail(l)>>
              IN /\ \A i \in 1 .. Len(s) - 1 : cn.c.next[s[i]] = s[i + 1] /\ cn.c.prev[s[i + 1]] = s[i]
                 /\ cn.c.prev[tl_head(l)] = NoNode /\ cn.c.next[tl_tail(l)] = NoNode
                 /\ cn.c.count[l] = Len(cn.order[l])
         /\ \A t \in fakethreads :
              Loose(t) => cn.c.next[t_listnode(t)] = NoNode /\ cn.c.prev[t_listnode(t)] = NoNode
    /\ cn.kind = "array" =>
         /\ cn.c.num = Len(cn.val) /\ cn.c.num <= cn.c.max /\ Len(cn.c.v) = cn.c.max
         /\ \A i \in 1 .. Len(cn.val) : cn.val[i] # Junk => cn.c.v[i] = cn.val[i]
    /\ cn.kind = "bitmap" =>
         \A i \in 0 .. DIVROUNDUP(cn.c.nbits, BITS_PER_WORD) * BITS_PER_WORD - 1 :
            bitmap_isset(cn.c, i) <=> i >= cn.c.nbits \/ i \in cn.set
=============================================================================
