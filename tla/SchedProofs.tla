----------------------------- MODULE SchedProofs -----------------------------
(***************************************************************************)
(* The scheduler's safety properties: the steps of migration keep the      *)
(* inductive invariant of SchedSteps too, so every step does, and the      *)
(* properties follow from it.                                              *)
(***************************************************************************)
EXTENDS SchedSteps

----------------------------------------------------------------------------
(* Migration *)

\* Both parts of a list without repetition are without repetition, and
\* together they have its elements once.
LEMMA CutParts ==
    ASSUME NEW S, NEW s \in Seq(S), IsInjective(s), NEW j \in 0 .. Len(s)
    PROVE  LET a == SubSeq(s, 1, j)
               b == SubSeq(s, j + 1, Len(s))
           IN  /\ a \in Seq(S) /\ b \in Seq(S)
               /\ Len(a) = j /\ Len(b) = Len(s) - j
               /\ IsInjective(a) /\ IsInjective(b)
               /\ Range(a) \cap Range(b) = {} /\ Range(a) \cup Range(b) = Range(s)
<1> DEFINE a == SubSeq(s, 1, j)
           b == SubSeq(s, j + 1, Len(s))
<1>1. a \in Seq(S) /\ b \in Seq(S) /\ Len(a) = j /\ Len(b) = Len(s) - j /\ s = a \o b
  <2> USE CutList
  <2>1. a \in Seq(S) /\ b \in Seq(S)
    BY Zenon
  <2>2. Len(a) = j /\ Len(b) = Len(s) - j
    OBVIOUS
  <2>3. s = a \o b
    BY Zenon
  <2> QED
    BY <2>1, <2>2, <2>3, Zenon
<1> HIDE DEF a, b
<1>2. IsInjective(a \o b) /\ Range(a \o b) = Range(s)
  BY <1>1, Zenon
<1>3. /\ IsInjective(a) /\ IsInjective(b)
      /\ Range(a) \cap Range(b) = {} /\ Range(a) \cup Range(b) = Range(s)
  BY <1>1, <1>2, ConcatList, Zenon
<1> QED
  BY <1>1, <1>3, Zenon DEF a, b

\* The while loop of thread_consider_migration gives away or keeps each of the
\* victims once, never gives away the current thread, and leaves enough of them
\* for what it still has to send.
LEMMA MigSplitParts ==
    ASSUME NEW c, c_curthread[c] \in Threads, NEW vs \in Seq(Threads), IsInjective(vs),
           NEW room \in Nat, NEW send \in Nat, send <= Len(vs)
    PROVE  LET s == MigSplit(c, vs, room, send)
           IN  /\ s.given \in Seq(Threads) /\ s.left \in Seq(Threads) /\ s.send \in Nat
               /\ IsInjective(s.given) /\ IsInjective(s.left)
               /\ Range(s.given) \cap Range(s.left) = {}
               /\ Range(s.given) \cup Range(s.left) = Range(vs)
               /\ c_curthread[c] \notin Range(s.given)
               /\ s.send <= Len(s.left)
<1> DEFINE cur == c_curthread[c]
           before == IF cur \in Range(vs)
                     THEN (CHOOSE i \in DOMAIN vs : vs[i] = cur) - 1
                     ELSE Len(vs)
           others == SubSeq(vs, 1, before) \o SubSeq(vs, before + 2, Len(vs))
           skips == before < send /\ before < room
           limit == IF skips THEN send - 1 ELSE send
           k == IF room < limit THEN room ELSE limit
           given == SubSeq(others, 1, k)
           left == IF skips THEN SubSeq(others, k + 1, Len(others)) \o <<cur>>
                            ELSE SubSeq(vs, k + 1, Len(vs))
<1>1. MigSplit(c, vs, room, send) = [given |-> given, left |-> left, send |-> limit - k]
  BY Zenon DEF MigSplit
<1> HIDE DEF given, left, limit, k
<1> SUFFICES /\ given \in Seq(Threads) /\ left \in Seq(Threads) /\ limit - k \in Nat
             /\ IsInjective(given) /\ IsInjective(left)
             /\ Range(given) \cap Range(left) = {}
             /\ Range(given) \cup Range(left) = Range(vs)
             /\ cur \notin Range(given)
             /\ limit - k <= Len(left)
  BY <1>1
<1> USE DEF given, left, limit, k
<1>2. Len(vs) \in Nat /\ DOMAIN vs = 1 .. Len(vs)
  OBVIOUS
<1>3. ASSUME NEW s \in Seq(Threads), IsInjective(s), NEW j \in 0 .. Len(s)
      PROVE  LET a == SubSeq(s, 1, j)
                 b == SubSeq(s, j + 1, Len(s))
             IN  /\ a \in Seq(Threads) /\ b \in Seq(Threads)
                 /\ Len(a) = j /\ Len(b) = Len(s) - j
                 /\ IsInjective(a) /\ IsInjective(b)
                 /\ Range(a) \cap Range(b) = {} /\ Range(a) \cup Range(b) = Range(s)
  BY <1>3, CutParts, Zenon
<1>4. CASE cur \notin Range(vs)
  <2>1. before = Len(vs) /\ ~skips /\ limit = send /\ k \in 0 .. Len(vs) /\ k <= send
    BY <1>2, <1>4
  <2>2. others = vs
    <3>1. SubSeq(vs, 1, Len(vs)) = vs
      BY SubSeqFull, Zenon
    <3>2. SubSeq(vs, Len(vs) + 2, Len(vs)) = <<>>
      BY <1>2, SubSeqEmpty
    <3>3. vs \o <<>> = vs
      OBVIOUS
    <3> QED
      BY <2>1, <3>1, <3>2, <3>3, Zenon
  <2>3. given = SubSeq(vs, 1, k) /\ left = SubSeq(vs, k + 1, Len(vs))
    BY <2>1, <2>2, Zenon
  <2> HIDE DEF given, left, limit, k, before, others, skips
  <2> QED
    BY <1>2, <1>3, <1>4, <2>1, <2>3
<1>5. CASE cur \in Range(vs)
  <2> DEFINE i0 == CHOOSE i \in DOMAIN vs : vs[i] = cur
             a == SubSeq(vs, 1, before)
             b == SubSeq(vs, before + 2, Len(vs))
             r == SubSeq(vs, before + 1, Len(vs))
  <2>1. i0 \in 1 .. Len(vs) /\ vs[i0] = cur
    BY <1>2, <1>5, Zenon DEF Range
  <2>2. before = i0 - 1
    BY <1>5, Zenon
  <2> HIDE DEF i0, before
  <2>3. before \in 0 .. Len(vs) /\ before \in Nat /\ before + 1 \in 1 .. Len(vs) /\ vs[before + 1] = cur
    BY <1>2, <2>1, <2>2
  <2>4. /\ a \in Seq(Threads) /\ r \in Seq(Threads)
        /\ Len(a) = before /\ Len(r) = Len(vs) - before
        /\ IsInjective(a) /\ IsInjective(r)
        /\ Range(a) \cap Range(r) = {} /\ Range(a) \cup Range(r) = Range(vs)
    BY <1>3, <2>3, Zenon
  <2>5. b = Tail(r) /\ Head(r) = cur /\ r # <<>>
    <3>1. r[1] = cur
      BY <1>2, <2>3, SubSeqProperties
    <3>2. b = Tail(r)
      <4>1. b = SubSeq(vs, before + 2, Len(vs)) /\ Len(r) >= 1
        BY <1>2, <2>3, <2>4
      <4>2. /\ Len(b) = Len(vs) - before - 1 /\ b \in Seq(Threads)
            /\ \A i \in 1 .. Len(vs) - before - 1 : b[i] = vs[before + 1 + i]
        <5>1. before + 2 \in Int /\ Len(vs) \in Int /\ \A i \in before + 2 .. Len(vs) : vs[i] \in Threads
          BY <1>2, <2>3
        <5> DEFINE m == before + 2
        <5>2. m \in Int /\ Len(vs) \in Int /\ (\A i \in m .. Len(vs) : vs[i] \in Threads) /\ m = before + 2
          BY <5>1, Zenon
        <5> HIDE DEF m
        <5>3. /\ SubSeq(vs, m, Len(vs)) \in Seq(Threads)
              /\ Len(SubSeq(vs, m, Len(vs))) = IF m <= Len(vs) THEN Len(vs) - m + 1 ELSE 0
              /\ \A i \in 1 .. Len(vs) - m + 1 : SubSeq(vs, m, Len(vs))[i] = vs[m + i - 1]
          BY <5>2, SubSeqProperties
        <5>4. b = SubSeq(vs, m, Len(vs))
          BY <5>2, Zenon
        <5>5. Len(vs) - m + 1 = Len(vs) - before - 1 /\ (m <= Len(vs) \/ Len(vs) - before - 1 = 0)
          <6>1. Len(vs) \in Nat /\ before \in Nat /\ before + 1 <= Len(vs) /\ m = before + 2
            BY <1>2, <2>3, <5>2
          <6> QED BY <6>1
        <5>6. \A i \in 1 .. Len(vs) - before - 1 : m + i - 1 = before + 1 + i
          BY <1>2, <2>3, <5>2
        <5> HIDE DEF b
        <5> QED
          BY <5>3, <5>4, <5>5, <5>6, Zenon
      <4>3. \A i \in 1 .. Len(vs) - before : r[i] = vs[before + i]
        BY <1>2, <2>3, SubSeqProperties
      <4>4. /\ Tail(r) \in Seq(Threads) /\ Len(Tail(r)) = Len(vs) - before - 1
            /\ \A i \in 1 .. Len(vs) - before - 1 : Tail(r)[i] = r[i + 1]
        <5> HIDE DEF b, r
        <5>1. r # <<>> /\ Len(r) - 1 = Len(vs) - before - 1
          BY <1>2, <2>3, <2>4, <4>1
        <5> QED BY <2>4, <5>1, TailList
      <4> HIDE DEF b, r
      <4>5. \A i \in 1 .. Len(vs) - before - 1 : Tail(r)[i] = b[i]
        BY <1>2, <2>3, <4>2, <4>3, <4>4
      <4> QED
        BY <4>2, <4>4, <4>5, SeqEqual, Zenon
    <3> HIDE DEF b, r
    <3> QED
      BY <1>2, <2>3, <2>4, <3>1, <3>2
  <2> HIDE DEF a, b, r
  <2>6. /\ b \in Seq(Threads) /\ Len(b) = Len(vs) - before - 1
        /\ IsInjective(b) /\ Range(b) = Range(r) \ {cur} /\ cur \in Range(r)
    <3>1. /\ Tail(r) \in Seq(Threads) /\ IsInjective(Tail(r))
          /\ Range(Tail(r)) = Range(r) \ {Head(r)} /\ Head(r) \in Range(r)
      BY <2>4, <2>5, TailList, Zenon
    <3>2. Len(Tail(r)) = Len(r) - 1
      BY <2>4, <2>5
    <3> QED
      BY <1>2, <2>3, <2>4, <2>5, <3>1, <3>2, Zenon
  <2>7. others = a \o b
    BY Zenon DEF a, b
  <2>8. /\ others \in Seq(Threads) /\ Len(others) = Len(vs) - 1
        /\ IsInjective(others) /\ Range(others) = Range(vs) \ {cur}
    <3> HIDE DEF others
    <3>a. a \in Seq(Threads) /\ b \in Seq(Threads)
      BY <2>4, <2>6, Zenon
    <3>1. a \o b \in Seq(Threads) /\ Len(a \o b) = Len(a) + Len(b)
      BY <3>a, ConcatProperties, Zenon
    <3>2. Range(a \o b) = Range(a) \cup Range(b)
      BY <2>4, <2>6, ConcatList, ZenonT(30)
    <3>3. Range(a) \cap Range(b) = {}
      BY <2>4, <2>6, Zenon
    <3>4. IsInjective(a \o b)
      BY <2>4, <2>6, <3>3, ConcatList, Zenon
    <3> QED
      BY <1>2, <2>3, <2>4, <2>6, <2>7, <3>1, <3>2, <3>4
  <2>9. CASE skips
    <3>1. limit = send - 1 /\ send >= 1 /\ k \in 0 .. Len(vs) - 1 /\ k <= limit /\ limit \in Nat
      BY <1>2, <2>3, <2>9
    <3> DEFINE rest == SubSeq(others, k + 1, Len(others))
    <3>2. left = rest \o <<cur>>
      BY <2>9, Zenon
    <3> HIDE DEF others, limit, k, skips, left
    <3>3. /\ given \in Seq(Threads) /\ rest \in Seq(Threads)
          /\ Len(given) = k /\ Len(rest) = Len(others) - k
          /\ IsInjective(given) /\ IsInjective(rest)
          /\ Range(given) \cap Range(rest) = {} /\ Range(given) \cup Range(rest) = Range(others)
      BY <1>3, <2>8, <3>1, Zenon
    <3> HIDE DEF given, rest
    <3>4. <<cur>> \in Seq(Threads) /\ Len(<<cur>>) = 1 /\ IsInjective(<<cur>>) /\ Range(<<cur>>) = {cur}
      BY DEF IsInjective, Range
    <3>5. cur \notin Range(given) /\ cur \notin Range(rest)
      BY <2>8, <3>3, Zenon
    <3>6. /\ left \in Seq(Threads) /\ Len(left) = Len(rest) + 1
          /\ Range(left) = Range(rest) \cup {cur} /\ IsInjective(left)
      <4> DEFINE one == <<cur>>
      <4>1. one \in Seq(Threads) /\ Len(one) = 1 /\ IsInjective(one) /\ Range(one) = {cur}
        BY <3>4, Zenon
      <4>2. left = rest \o one
        BY <3>2, Zenon
      <4> HIDE DEF one
      <4>3. /\ rest \o one \in Seq(Threads) /\ Len(rest \o one) = Len(rest) + Len(one)
            /\ Range(rest \o one) = Range(rest) \cup Range(one)
        BY <3>3, <4>1, ConcatList, Zenon
      <4>4. IsInjective(rest \o one)
        <5>1. Range(rest) \cap Range(one) = {}
          BY <3>5, <4>1, Zenon
        <5> QED BY <3>3, <4>1, <5>1, ConcatList
      <4> QED
        BY <4>1, <4>2, <4>3, <4>4, Zenon
    <3>7. limit - k \in Nat /\ limit - k <= Len(left)
      BY <1>2, <2>8, <3>1, <3>3, <3>6
    <3> QED
      BY <1>5, <2>8, <3>3, <3>5, <3>6, <3>7, Zenon
  <2>10. CASE ~skips
    <3>1. limit = send /\ k \in 0 .. Len(vs) /\ k <= before /\ k <= send /\ k \in Nat
      BY <1>2, <2>3, <2>10
    <3>2. left = SubSeq(vs, k + 1, Len(vs))
      BY <2>10, Zenon
    <3> HIDE DEF limit, k, skips, left
    <3>3. given = SubSeq(vs, 1, k)
      <4>1. \A i \in 1 .. k : a[i] = vs[i]
        <5>1. \A i \in 1 .. before : a[i] = vs[i]
          BY <1>2, <2>3, SubSeqProperties DEF a
        <5> QED BY <2>3, <3>1, <5>1
      <4>2. \A i \in 1 .. k : others[i] = a[i]
        <5> HIDE DEF others
        <5>1. \A i \in 1 .. Len(a) : (a \o b)[i] = a[i]
          BY <2>4, <2>6, ConcatProperties
        <5> QED BY <2>3, <2>4, <2>7, <3>1, <5>1
      <4> HIDE DEF others
      <4>3. \A i \in 1 .. k : others[i] \in Threads /\ vs[i] \in Threads
        BY <1>2, <2>3, <2>8, <3>1
      <4>4. /\ given \in Seq(Threads) /\ Len(given) = k
            /\ \A i \in 1 .. k : given[i] = others[i]
        BY <3>1, <4>3, SubSeqProperties
      <4>5. /\ SubSeq(vs, 1, k) \in Seq(Threads) /\ Len(SubSeq(vs, 1, k)) = k
            /\ \A i \in 1 .. k : SubSeq(vs, 1, k)[i] = vs[i]
        BY <3>1, <4>3, SubSeqProperties
      <4> HIDE DEF given
      <4>6. \A i \in 1 .. k : given[i] = SubSeq(vs, 1, k)[i]
        BY <4>1, <4>2, <4>4, <4>5, ZenonT(30)
      <4> QED
        BY <4>4, <4>5, <4>6, SeqEqual, Zenon
    <3>4. /\ given \in Seq(Threads) /\ left \in Seq(Threads)
          /\ Len(given) = k /\ Len(left) = Len(vs) - k
          /\ IsInjective(given) /\ IsInjective(left)
          /\ Range(given) \cap Range(left) = {} /\ Range(given) \cup Range(left) = Range(vs)
      BY <1>3, <3>1, <3>2, <3>3, Zenon
    <3>5. cur \in Range(left)
      <4>1. \A i \in 1 .. Len(vs) - k : left[i] = vs[k + i]
        BY <1>2, <3>1, <3>2, SubSeqProperties
      <4>2. before + 1 - k \in 1 .. Len(vs) - k /\ left[before + 1 - k] = cur
        BY <1>2, <2>3, <3>1, <4>1
      <4> HIDE DEF given
      <4> QED
        BY <3>4, <4>2 DEF Range
    <3> HIDE DEF given
    <3>6. limit - k \in Nat /\ limit - k <= Len(left)
      BY <1>2, <3>1, <3>4
    <3> QED
      BY <3>4, <3>5, <3>6, Zenon
  <2> QED
    BY <2>9, <2>10, Zenon
<1> QED
  BY <1>4, <1>5, Zenon

\* The locals of thread_consider_migration.
MigRecord == [i : Nat, my : Nat, total : Nat, send : Nat]

\* DIVROUNDUP is a number.
LEMMA ShareIsNat ==
    ASSUME NEW m \in MigRecord PROVE one_share(m) \in Nat
<1>1. m.total \in Nat /\ NCPU \in Nat /\ NCPU > 0
  BY CPUAssumption, Zenon DEF MigRecord
<1> QED
  BY <1>1 DEF one_share

\* One turn of the loop that counts.
LEMMA MigCountStep ==
    ASSUME IInv, NEW c \in CPUs, MigCount(c)
    PROVE  IInv'
<1> DEFINE m == mig[c]
           n == Len(c_runqueue[m.i])
           counted == Counted(c, m, n)
<1>1. /\ pc \in [CPUs -> Places] /\ ret \in [CPUs -> {"run", "yield", "unidle"}]
      /\ mig \in [CPUs -> MigRecord] /\ c_runqueue \in [CPUs -> Seq(Threads)]
  BY Zenon DEF IInv, TypeOK, MigRecord
<1>2. /\ pc[c] = "count" /\ m \in MigRecord /\ m.i \in CPUs
      /\ m.my <= IF m.i > c THEN Len(c_runqueue[c]) ELSE 0
      /\ c \in Nat /\ m.i \in Nat /\ NCPU \in Nat /\ c <= NCPU
  BY <1>1, CPUAssumption DEF MigCount, IInv, CountsHold, CPUs
<1>3. n \in Nat /\ Len(c_runqueue[c]) \in Nat
  BY <1>1, <1>2
<1>4. /\ UNCHANGED <<t_state, t_cpu, c_curthread, c_runqueue, c_isidle, c_zombies, ipi,
                     wc_threads, target, victims>>
      /\ \/ /\ m.i < NCPU
            /\ mig' = [mig EXCEPT ![c] = [counted EXCEPT !.i = @ + 1]]
            /\ UNCHANGED <<pc, ret>>
         \/ /\ mig' = [mig EXCEPT ![c] = NoMig]
            /\ pc' = [pc EXCEPT ![c] = ret[c]]
            /\ ret' = [ret EXCEPT ![c] = "run"]
         \/ /\ m.i = NCPU /\ ~(counted.my < one_share(counted))
            /\ mig' = [mig EXCEPT ![c] = [counted EXCEPT !.i = 1,
                                                         !.send = counted.my - one_share(counted)]]
            /\ pc' = [pc EXCEPT ![c] = "take"]
            /\ UNCHANGED ret
  BY Zenon DEF MigCount, Finish, Return, BelowShare, threadVars, cpuVars
<1>5. /\ counted \in MigRecord /\ counted.i = m.i
      /\ counted.my <= IF m.i + 1 > c THEN Len(c_runqueue[c]) ELSE 0
  <2>1. counted = [m EXCEPT !.total = @ + n, !.my = IF m.i = c THEN n ELSE @]
    BY Zenon DEF Counted
  <2> HIDE DEF m, n, counted
  <2>2. counted \in MigRecord /\ counted.i = m.i /\ counted.my = IF m.i = c THEN n ELSE m.my
    <3>1. m.total + n \in Nat /\ m.my \in Nat
      BY <1>2, <1>3 DEF MigRecord
    <3>2. CASE m.i = c
      <4>1. counted = [m EXCEPT !.total = m.total + n, !.my = n]
        BY <2>1, <3>2, Zenon
      <4> QED BY <1>2, <1>3, <3>1, <3>2, <4>1, Zenon DEF MigRecord
    <3>3. CASE m.i # c
      <4>1. counted = [m EXCEPT !.total = m.total + n, !.my = m.my]
        BY <2>1, <3>3, Zenon
      <4> QED BY <1>2, <1>3, <3>1, <3>3, <4>1, ZenonT(30) DEF MigRecord
    <3> QED BY <3>2, <3>3
  <2>3. m.i = c => n = Len(c_runqueue[c])
    BY Zenon DEF n
  <2>4. m.my \in Nat
    BY <1>2, Zenon DEF MigRecord
  <2> QED
    BY <1>2, <1>3, <2>2, <2>3, <2>4
<1> HIDE DEF counted, m, n
<1>6. [counted EXCEPT !.i = @ + 1] \in MigRecord /\ NoMig \in MigRecord
  BY <1>5 DEF MigRecord, NoMig
<1>7. ASSUME ~(counted.my < one_share(counted))
      PROVE  LET s == [counted EXCEPT !.i = 1, !.send = counted.my - one_share(counted)]
             IN  s \in MigRecord /\ s.send <= counted.my /\ s.i = 1
  <2>1. one_share(counted) \in Nat /\ counted.my \in Nat
    BY <1>5, ShareIsNat, Zenon DEF MigRecord
  <2>2. counted.my - one_share(counted) \in Nat /\ counted.my - one_share(counted) <= counted.my
    BY <1>7, <2>1
  <2> QED
    BY <1>5, <2>2, Zenon DEF MigRecord
<1>8. mig' \in [CPUs -> MigRecord]
  BY <1>1, <1>4, <1>6, <1>7, Zenon
<1>9. TypeOK'
  <2>1. pc' \in [CPUs -> Places] /\ ret' \in [CPUs -> {"run", "yield", "unidle"}]
    BY <1>1, <1>4, ZenonT(30) DEF Places
  <2> QED
    BY <1>4, <1>8, <2>1, Zenon DEF IInv, TypeOK, MigRecord
<1>10. IdleFlags'
  BY <1>1, <1>2, <1>4 DEF IInv, IdleFlags, InHandler
<1>11. Targets' /\ VictimsHeld'
  BY <1>1, <1>2, <1>4, Zenon DEF IInv, Targets, VictimsHeld
<1>12. WcExclusive' /\ IdleNotified'
  BY <1>1, <1>2, <1>4, ZenonT(30) DEF IInv, WcExclusive, HoldsWc, IdleNotified
<1>13. Quiet
  <2>1. \A d \in CPUs : OnCpu(d)' <=> OnCpu(d)
    BY <1>1, <1>2, <1>4, Zenon DEF OnCpu
  <2> QED
    BY <1>4, <1>9, <2>1, Zenon DEF Quiet, TypeOK
<1>14. CountsHold'
  <2>1. \A d \in CPUs : d # c => mig'[d] = mig[d] /\ pc'[d] = pc[d]
    BY <1>1, <1>4, Zenon
  <2>2. pc'[c] = "count" => /\ mig'[c].i \in CPUs
                            /\ mig'[c].my <= IF mig'[c].i > c THEN Len(c_runqueue[c]) ELSE 0
    <3>1. ASSUME pc'[c] = "count"
          PROVE  mig'[c] = [counted EXCEPT !.i = @ + 1] /\ m.i < NCPU
      BY <1>1, <1>2, <1>4, <3>1, Zenon
    <3>2. ASSUME pc'[c] = "count"
          PROVE  mig'[c].i = m.i + 1 /\ mig'[c].my = counted.my /\ m.i + 1 \in CPUs
      BY <1>2, <1>5, <3>1, <3>2 DEF CPUs, MigRecord
    <3> QED
      BY <1>5, <3>2, Zenon
  <2>3. pc'[c] = "take" => mig'[c].send <= Len(c_runqueue[c]) /\ mig'[c].i >= 1
    <3>1. SUFFICES ASSUME pc'[c] = "take"
                   PROVE  mig'[c].send <= Len(c_runqueue[c]) /\ mig'[c].i >= 1
      BY Zenon
    <3>2. /\ m.i = NCPU /\ ~(counted.my < one_share(counted))
          /\ mig'[c] = [counted EXCEPT !.i = 1, !.send = counted.my - one_share(counted)]
      BY <1>1, <1>2, <1>4, <3>1, Zenon
    <3>3. mig'[c] \in MigRecord /\ mig'[c].send <= counted.my /\ mig'[c].i = 1
      BY <1>7, <3>2, Zenon
    <3>4. counted.my <= Len(c_runqueue[c])
      BY <1>2, <1>5, <3>2
    <3>5. mig'[c].send \in Nat /\ counted.my \in Nat
      BY <1>5, <3>3, Zenon DEF MigRecord
    <3> QED
      BY <1>3, <3>3, <3>4, <3>5
  <2>4. pc'[c] # "give"
    BY <1>1, <1>2, <1>4, Zenon
  <2>5. UNCHANGED <<c_runqueue, victims>>
    BY <1>4, Zenon
  <2> QED
    BY <2>1, <2>2, <2>3, <2>4, <2>5, Zenon DEF IInv, CountsHold
<1> QED
  BY <1>9, <1>10, <1>11, <1>12, <1>13, <1>14, QuietKeepsPlaces, Zenon DEF IInv

\* The surplus moves from the run queue to the victims.
LEMMA MigTakeStep ==
    ASSUME IInv, NEW c \in CPUs, MigTake(c)
    PROVE  IInv'
<1>1. /\ pc \in [CPUs -> Places] /\ mig \in [CPUs -> MigRecord]
      /\ c_runqueue \in [CPUs -> Seq(Threads)] /\ victims \in [CPUs -> Seq(Threads)]
  BY Zenon DEF IInv, TypeOK, MigRecord
<1>2. Len(c_runqueue[c]) \in Nat /\ mig[c].send \in Nat /\ mig[c].send <= Len(c_runqueue[c])
  BY <1>1 DEF MigTake, IInv, CountsHold, MigRecord
<1>3. PICK keep \in 0 .. Len(c_runqueue[c]) : keep = Len(c_runqueue[c]) - mig[c].send
  BY <1>2
<1> DEFINE rq == SubSeq(c_runqueue[c], 1, keep)
           vs == SubSeq(c_runqueue[c], keep + 1, Len(c_runqueue[c]))
<1>4. /\ pc[c] = "take"
      /\ victims' = [victims EXCEPT ![c] = vs]
      /\ c_runqueue' = [c_runqueue EXCEPT ![c] = rq]
      /\ pc' = [pc EXCEPT ![c] = "give"]
      /\ UNCHANGED <<t_state, t_cpu, c_curthread, c_isidle, c_zombies, ipi, wc_threads, ret, target, mig>>
  BY <1>3, Zenon DEF MigTake, threadVars
<1>5. /\ rq \in Seq(Threads) /\ vs \in Seq(Threads) /\ Len(vs) = mig[c].send
      /\ c_runqueue[c] = rq \o vs
  <2>a. c_runqueue[c] \in Seq(Threads)
    BY <1>1, Zenon
  <2>1. /\ rq \in Seq(Threads) /\ vs \in Seq(Threads) /\ Len(vs) = Len(c_runqueue[c]) - keep
        /\ c_runqueue[c] = rq \o vs
    BY <2>a, CutList, Zenon
  <2> HIDE DEF rq, vs
  <2> QED
    BY <1>2, <1>3, <2>1
<1> HIDE DEF rq, vs
<1>6. /\ IsInjective(rq) /\ IsInjective(vs) /\ Range(rq) \cap Range(vs) = {}
      /\ Range(c_runqueue[c]) = Range(rq) \cup Range(vs)
  <2>1. IsInjective(rq \o vs)
    BY <1>5, Zenon DEF IInv, Within, WithinCpu
  <2> QED
    BY <1>5, <2>1, ConcatList
<1>7. victims[c] = <<>> /\ Range(victims[c]) = {}
  <2>1. victims[c] = <<>>
    BY <1>4, Zenon DEF IInv, VictimsHeld
  <2> QED
    BY <2>1 DEF Range
<1>8. /\ c_runqueue'[c] = rq /\ victims'[c] = vs
      /\ \A d \in CPUs : d # c => c_runqueue'[d] = c_runqueue[d] /\ victims'[d] = victims[d]
  BY <1>1, <1>4, Zenon
<1>9. /\ \A d \in CPUs : Listed(d)' = Listed(d)
      /\ \A d \in CPUs : OnCpu(d)' <=> OnCpu(d)
  <2>1. Listed(c)' = Listed(c)
    BY <1>4, <1>6, <1>7, <1>8, Zenon DEF Listed
  <2>2. \A d \in CPUs : d # c => Listed(d)' = Listed(d)
    BY <1>4, <1>8, Zenon DEF Listed
  <2>3. \A d \in CPUs : OnCpu(d)' <=> OnCpu(d)
    BY <1>1, <1>4, Zenon DEF OnCpu
  <2> QED
    BY <2>1, <2>2, <2>3, Zenon
<1>10. TypeOK'
  BY <1>4, <1>5, Zenon DEF IInv, TypeOK, Places
<1>11. IdleFlags'
  BY <1>1, <1>4, Zenon DEF IInv, IdleFlags, InHandler
<1>12. Targets' /\ VictimsHeld' /\ WcExclusive' /\ IdleNotified'
  BY <1>1, <1>4, Zenon DEF IInv, Targets, VictimsHeld, WcExclusive, HoldsWc, IdleNotified
<1>13. HomeCpu'
  BY <1>4, <1>9, Zenon DEF IInv, HomeCpu
<1>14. Within'
  <2>1. ASSUME NEW d \in CPUs, d # c PROVE WithinCpu(d)'
    BY <1>4, <1>8, <1>9, <2>1, Zenon DEF IInv, Within, WithinCpu
  <2>2. WithinCpu(c)'
    <3>1. WithinCpu(c)
      BY Zenon DEF IInv, Within
    <3> QED
      BY <1>4, <1>6, <1>8, <1>9, <3>1, Zenon DEF WithinCpu
  <2> QED
    BY <2>1, <2>2, Zenon DEF Within
<1>15. OnePlace' /\ Accounted'
  <2>1. \A d \in CPUs, u \in Threads : At(d, u)' <=> At(d, u)
    BY <1>4, <1>9, Zenon DEF At
  <2> QED
    BY <1>4, <2>1, SamePlaces, Zenon DEF IInv
<1>16. CountsHold'
  <2>1. \A d \in CPUs : d # c => pc'[d] = pc[d]
    BY <1>1, <1>4, Zenon
  <2>2. pc'[c] = "give" /\ mig[c].send <= Len(victims'[c])
    BY <1>1, <1>2, <1>4, <1>5, <1>8
  <2>3. mig[c].i >= 1 /\ UNCHANGED mig
    BY <1>4, Zenon DEF IInv, CountsHold
  <2> QED
    BY <1>8, <2>1, <2>2, <2>3, Zenon DEF IInv, CountsHold
<1> QED
  BY <1>10, <1>11, <1>12, <1>13, <1>14, <1>15, <1>16, Zenon DEF IInv

\* What is left of the victims goes back.
LEMMA MigPutBackStep ==
    ASSUME IInv, NEW c \in CPUs, MigPutBack(c)
    PROVE  IInv'
<1> DEFINE rq == c_runqueue[c] \o victims[c]
<1>1. /\ pc \in [CPUs -> Places] /\ mig \in [CPUs -> MigRecord]
      /\ ret \in [CPUs -> {"run", "yield", "unidle"}]
      /\ c_runqueue \in [CPUs -> Seq(Threads)] /\ victims \in [CPUs -> Seq(Threads)]
  BY Zenon DEF IInv, TypeOK, MigRecord
<1>2. /\ pc[c] = "putback"
      /\ c_runqueue' = [c_runqueue EXCEPT ![c] = rq]
      /\ victims' = [victims EXCEPT ![c] = <<>>]
      /\ pc' = [pc EXCEPT ![c] = ret[c]] /\ ret' = [ret EXCEPT ![c] = "run"]
      /\ mig' = [mig EXCEPT ![c] = NoMig]
      /\ UNCHANGED <<t_state, t_cpu, c_curthread, c_isidle, c_zombies, ipi, wc_threads, target>>
  BY Zenon DEF MigPutBack, Finish, Return, threadVars
<1>3. /\ rq \in Seq(Threads) /\ IsInjective(rq)
      /\ Range(rq) = Range(c_runqueue[c]) \cup Range(victims[c])
  <2>1. /\ IsInjective(c_runqueue[c]) /\ IsInjective(victims[c])
        /\ Range(c_runqueue[c]) \cap Range(victims[c]) = {}
    BY Zenon DEF IInv, Within, WithinCpu
  <2>2. c_runqueue[c] \in Seq(Threads) /\ victims[c] \in Seq(Threads)
    BY <1>1, Zenon
  <2> QED
    BY <2>1, <2>2, ConcatList
<1> HIDE DEF rq
<1>4. Range(<<>>) = {} /\ IsInjective(<<>>) /\ <<>> \in Seq(Threads)
  BY DEF Range, IsInjective
<1>5. /\ c_runqueue'[c] = rq /\ victims'[c] = <<>>
      /\ \A d \in CPUs : d # c => c_runqueue'[d] = c_runqueue[d] /\ victims'[d] = victims[d]
  BY <1>1, <1>2, Zenon
<1>6. /\ \A d \in CPUs : Listed(d)' = Listed(d)
      /\ \A d \in CPUs : OnCpu(d)' <=> OnCpu(d)
  <2>1. Listed(c)' = Listed(c)
    BY <1>2, <1>3, <1>4, <1>5, Zenon DEF Listed
  <2>2. \A d \in CPUs : d # c => Listed(d)' = Listed(d)
    BY <1>2, <1>5, Zenon DEF Listed
  <2>3. \A d \in CPUs : OnCpu(d)' <=> OnCpu(d)
    BY <1>1, <1>2, Zenon DEF OnCpu
  <2> QED
    BY <2>1, <2>2, <2>3, Zenon
<1>7. TypeOK'
  <2>1. mig' \in [CPUs -> MigRecord]
    BY <1>1, <1>2, Zenon DEF MigRecord, NoMig
  <2>2. pc' \in [CPUs -> Places] /\ ret' \in [CPUs -> {"run", "yield", "unidle"}]
    BY <1>1, <1>2, Zenon DEF Places
  <2> QED
    BY <1>2, <1>3, <1>4, <2>1, <2>2, Zenon DEF IInv, TypeOK, MigRecord
<1>8. IdleFlags'
  BY <1>1, <1>2, Zenon DEF IInv, IdleFlags, InHandler
<1>9. Targets' /\ VictimsHeld'
  BY <1>1, <1>2, Zenon DEF IInv, Targets, VictimsHeld
<1>10. WcExclusive' /\ IdleNotified'
  BY <1>1, <1>2, Zenon DEF IInv, WcExclusive, HoldsWc, IdleNotified
<1>11. HomeCpu'
  BY <1>2, <1>6, Zenon DEF IInv, HomeCpu
<1>12. Within'
  <2>1. ASSUME NEW d \in CPUs, d # c PROVE WithinCpu(d)'
    BY <1>2, <1>5, <1>6, <2>1, Zenon DEF IInv, Within, WithinCpu
  <2>2. WithinCpu(c)'
    <3>1. WithinCpu(c)
      BY Zenon DEF IInv, Within
    <3> QED
      BY <1>2, <1>3, <1>4, <1>5, <1>6, <3>1, Zenon DEF WithinCpu
  <2> QED
    BY <2>1, <2>2, Zenon DEF Within
<1>13. OnePlace' /\ Accounted'
  <2>1. \A d \in CPUs, u \in Threads : At(d, u)' <=> At(d, u)
    BY <1>2, <1>6, Zenon DEF At
  <2> QED
    BY <1>2, <2>1, SamePlaces, Zenon DEF IInv
<1>14. CountsHold'
  <2>1. \A d \in CPUs : d # c => pc'[d] = pc[d] /\ mig'[d] = mig[d]
    BY <1>1, <1>2, Zenon
  <2>2. pc'[c] \notin {"count", "take", "give"}
    BY <1>1, <1>2, Zenon
  <2> QED
    BY <1>5, <2>1, <2>2, Zenon DEF IInv, CountsHold
<1> QED
  BY <1>7, <1>8, <1>9, <1>10, <1>11, <1>12, <1>13, <1>14, Zenon DEF IInv

\* One cpu of the loop over the others gets what it has room for.
LEMMA GiveStep ==
    ASSUME IInv, NEW c \in CPUs, NEW d \in CPUs, d # c, pc[c] = "give",
           NEW given \in Seq(Threads), NEW left \in Seq(Threads), NEW send \in Nat,
           IsInjective(given), IsInjective(left), Range(given) \cap Range(left) = {},
           Range(given) \cup Range(left) = Range(victims[c]),
           c_curthread[c] \notin Range(given), send <= Len(left),
           t_cpu' = [t \in Threads |-> IF t \in Range(given) THEN d ELSE t_cpu[t]],
           c_runqueue' = [c_runqueue EXCEPT ![d] = @ \o given],
           ipi' = [ipi EXCEPT ![d] = @ \/ (c_isidle[d] /\ given # <<>>)],
           victims' = [victims EXCEPT ![c] = left],
           mig' = [mig EXCEPT ![c].i = d + 1, ![c].send = send],
           UNCHANGED <<t_state, c_curthread, c_isidle, c_zombies, wc_threads, pc, ret, target>>
    PROVE  IInv'
<1> DEFINE G == Range(given)
           rq == c_runqueue[d] \o given
<1>1. /\ pc \in [CPUs -> Places] /\ mig \in [CPUs -> MigRecord] /\ c_isidle \in [CPUs -> BOOLEAN]
      /\ c_runqueue \in [CPUs -> Seq(Threads)] /\ victims \in [CPUs -> Seq(Threads)]
      /\ t_cpu \in [Threads -> CPUs \cup {NULL}] /\ c_curthread \in [CPUs -> Threads]
      /\ ipi \in [CPUs -> BOOLEAN] /\ t_state \in [Threads -> ThreadStates]
  BY Zenon DEF IInv, TypeOK, MigRecord
<1>2. G \subseteq Range(victims[c]) /\ G \subseteq Listed(c) /\ G \subseteq Threads
  BY ListedThreads, Zenon DEF Listed, IInv
<1> HIDE DEF G
<1>3. \A g \in G : At(c, g) /\ t_cpu[g] = c /\ ~At(d, g) /\ g \notin Listed(d)
  BY <1>2, Zenon DEF IInv, At, HomeCpu, OnePlace
<1>4. /\ rq \in Seq(Threads) /\ IsInjective(rq) /\ Range(rq) = Range(c_runqueue[d]) \cup G
      /\ Len(rq) >= Len(c_runqueue[d]) /\ Len(c_runqueue[d]) \in Nat /\ Len(rq) \in Nat
  <2>1. c_runqueue[d] \in Seq(Threads) /\ IsInjective(c_runqueue[d])
    BY <1>1, Zenon DEF IInv, Within, WithinCpu
  <2>2. Range(c_runqueue[d]) \cap Range(given) = {}
    BY <1>3, Zenon DEF Listed, G
  <2>3. rq \in Seq(Threads) /\ Len(rq) = Len(c_runqueue[d]) + Len(given)
    BY <2>1, ConcatProperties
  <2>4. Range(rq) = Range(c_runqueue[d]) \cup Range(given) /\ IsInjective(rq)
    BY <2>1, <2>2, ConcatList
  <2> HIDE DEF rq
  <2>5. Len(c_runqueue[d]) \in Nat /\ Len(given) \in Nat
    BY <2>1
  <2> QED
    BY <2>3, <2>4, <2>5 DEF G
<1>5. /\ c_runqueue'[d] = rq /\ victims'[d] = victims[d]
      /\ c_runqueue'[c] = c_runqueue[c] /\ victims'[c] = left
      /\ \A e \in CPUs : e # c /\ e # d => c_runqueue'[e] = c_runqueue[e] /\ victims'[e] = victims[e]
  BY <1>1, Zenon
<1>6. rq = <<>> => given = <<>> /\ c_runqueue[d] = <<>>
  <2>1. c_runqueue[d] \in Seq(Threads)
    BY <1>1, Zenon
  <2> QED
    BY <2>1, ConcatProperties
<1> HIDE DEF rq
<1>7. /\ Listed(c)' = Listed(c) \ G
      /\ Listed(d)' = Listed(d) \cup G
      /\ \A e \in CPUs : e # c /\ e # d => Listed(e)' = Listed(e)
      /\ \A e \in CPUs : OnCpu(e)' <=> OnCpu(e)
  <2>1. Listed(c)' = Listed(c) \ G
    <3>1. G \cap Range(c_runqueue[c]) = {} /\ G \cap Range(c_zombies[c]) = {}
      BY <1>2, Zenon DEF IInv, Within, WithinCpu
    <3>2. Range(left) = Range(victims[c]) \ G
      BY Zenon DEF G
    <3> QED
      BY <1>5, <3>1, <3>2, Zenon DEF Listed
  <2>2. Listed(d)' = Listed(d) \cup G
    BY <1>4, <1>5, Zenon DEF Listed
  <2>3. \A e \in CPUs : e # c /\ e # d => Listed(e)' = Listed(e)
    BY <1>5, Zenon DEF Listed
  <2>4. \A e \in CPUs : OnCpu(e)' <=> OnCpu(e)
    BY Zenon DEF OnCpu
  <2> QED
    BY <2>1, <2>2, <2>3, <2>4, Zenon
<1>8. TypeOK'
  <2>1. mig' \in [CPUs -> MigRecord]
    <3>1. d + 1 \in Nat /\ mig[c] \in MigRecord
      BY <1>1 DEF CPUs
    <3>2. [mig[c] EXCEPT !.i = d + 1, !.send = send] \in MigRecord
      BY <3>1, Zenon DEF MigRecord
    <3>3. mig' = [mig EXCEPT ![c] = [mig[c] EXCEPT !.i = d + 1, !.send = send]]
      BY <1>1, Zenon
    <3> QED
      BY <1>1, <3>2, <3>3, Zenon
  <2>2. t_cpu' \in [Threads -> CPUs \cup {NULL}]
    BY <1>1, Zenon
  <2>3. c_runqueue' \in [CPUs -> Seq(Threads)] /\ victims' \in [CPUs -> Seq(Threads)]
    BY <1>1, <1>4, Zenon DEF rq
  <2> QED
    BY <1>1, <2>1, <2>2, <2>3, Zenon DEF IInv, TypeOK, MigRecord
<1>9. IdleFlags' /\ Targets' /\ WcExclusive'
  BY Zenon DEF IInv, IdleFlags, Targets, WcExclusive, HoldsWc
<1>10. VictimsHeld'
  BY <1>5, Zenon DEF IInv, VictimsHeld
<1>11. IdleNotified'
  <2>1. \A e \in CPUs : pc[e] = "idle" => c_isidle[e]
    BY Zenon DEF IInv, IdleFlags
  <2>2. \A e \in CPUs : e # d => c_runqueue'[e] = c_runqueue[e] /\ ipi'[e] = ipi[e]
    BY <1>1, <1>5, Zenon
  <2>3. ipi'[d] = (ipi[d] \/ (c_isidle[d] /\ given # <<>>))
    BY <1>1, Zenon
  <2>4. given = <<>> => rq = c_runqueue[d]
    <3>1. c_runqueue[d] \in Seq(Threads)
      BY <1>1, Zenon
    <3> QED BY <3>1 DEF rq
  <2> QED
    BY <1>5, <1>6, <2>1, <2>2, <2>3, <2>4, ZenonT(30) DEF IInv, IdleNotified
<1>12. HomeCpu'
  <2>1. \A e \in CPUs : c_curthread[e] \notin G
    BY <1>3, Zenon DEF IInv, HomeCpu, G
  <2>2. \A t \in Threads : t_cpu'[t] = IF t \in G THEN d ELSE t_cpu[t]
    BY Zenon DEF G
  <2>3. ASSUME NEW e \in CPUs, NEW t \in Listed(e)' PROVE t_cpu'[t] = e
    <3>1. t \in Threads
      <4>1. t \in Listed(e) \cup G
        BY <1>7, <2>3, Zenon
      <4> QED
        BY <1>2, <4>1, ListedThreads, Zenon DEF IInv
    <3>2. CASE e = d
      BY <1>7, <2>2, <3>1, <3>2, Zenon DEF IInv, HomeCpu
    <3>3. CASE e # d
      <4>1. t \in Listed(e) /\ t \notin G
        BY <1>3, <1>7, <3>1, <3>3 DEF IInv, HomeCpu
      <4> QED
        BY <2>2, <3>1, <4>1, Zenon DEF IInv, HomeCpu
    <3> QED
      BY <3>2, <3>3, Zenon
  <2> QED
    BY <1>1, <2>1, <2>2, <2>3, Zenon DEF IInv, HomeCpu
<1>13. Within'
  <2>1. ASSUME NEW e \in CPUs, e # c, e # d PROVE WithinCpu(e)'
    BY <1>5, <1>7, <2>1, ZenonT(30) DEF IInv, Within, WithinCpu
  <2>2. WithinCpu(c)'
    <3>1. WithinCpu(c) /\ Range(left) \subseteq Range(victims[c])
      BY Zenon DEF IInv, Within
    <3> QED
      BY <1>5, <1>7, <3>1, Zenon DEF WithinCpu
  <2>3. WithinCpu(d)'
    <3>1. WithinCpu(d)
      BY Zenon DEF IInv, Within
    <3>2. \A g \in G : g \notin Range(victims[d]) /\ g \notin Range(c_zombies[d])
      BY <1>3, Zenon DEF Listed
    <3>3. \A g \in G : g # target[d] /\ (OnCpu(d) => g # c_curthread[d])
      BY <1>3, Zenon DEF At
    <3> QED
      BY <1>4, <1>5, <1>7, <3>1, <3>2, <3>3, Zenon DEF WithinCpu
  <2> QED
    BY <2>1, <2>2, <2>3, Zenon DEF Within
<1>14. OnePlace' /\ Accounted'
  <2>1. \A u \in Threads : At(c, u)' <=> At(c, u) /\ u \notin G
    <3>1. \A g \in G : g # target[c] /\ (OnCpu(c) => g # c_curthread[c])
      BY <1>2, Zenon DEF IInv, Within, WithinCpu
    <3> QED
      BY <1>7, <3>1, Zenon DEF At
  <2>2. \A u \in Threads : At(d, u)' <=> At(d, u) \/ u \in G
    BY <1>7, Zenon DEF At
  <2>3. \A e \in CPUs, u \in Threads : e # c /\ e # d => (At(e, u)' <=> At(e, u))
    BY <1>7, Zenon DEF At
  <2>4. \A e \in CPUs, u \in Threads :
           At(e, u)' <=> IF u \in G THEN e = d ELSE At(e, u)
    BY <1>2, <1>3, <2>1, <2>2, <2>3 DEF IInv, OnePlace
  <2>5. \A g \in G : g \notin Range(wc_threads) /\ t_state[g] # "free"
    BY <1>2, <1>3, Zenon DEF IInv, OnePlace, Accounted
  <2> QED
    BY <1>2, <2>4, <2>5, Zenon DEF IInv, OnePlace, Accounted
<1>15. CountsHold'
  <2>1. \A e \in CPUs : Len(c_runqueue[e]) \in Nat /\ Len(c_runqueue'[e]) \in Nat
                        /\ Len(c_runqueue[e]) <= Len(c_runqueue'[e])
    BY <1>1, <1>4, <1>5
  <2>2. \A e \in CPUs : e # c => mig'[e] = mig[e] /\ victims'[e] = victims[e]
    BY <1>1, <1>5, Zenon
  <2>3. mig'[c].send = send /\ mig'[c].i = d + 1 /\ d + 1 >= 1
    BY <1>1 DEF MigRecord, CPUs
  <2>4. \A e \in CPUs : mig[e].my \in Nat /\ mig[e].send \in Nat
    BY <1>1, Zenon DEF MigRecord
  <2> DEFINE Counted1(e, p, m, l, v) ==
        /\ p = "count" => m.i \in CPUs /\ m.my <= IF m.i > e THEN l ELSE 0
        /\ p = "take" => m.send <= l
        /\ p = "give" => m.send <= v
        /\ p \in {"take", "give"} => m.i >= 1
  <2> DEFINE Holds(e) ==
        Counted1(e, pc'[e], mig'[e], Len(c_runqueue'[e]), Len(victims'[e]))
  <2>5. ASSUME NEW e \in CPUs, e # c PROVE Holds(e)
    <3>1. mig'[e] = mig[e] /\ victims'[e] = victims[e] /\ pc'[e] = pc[e]
      BY <2>2, <2>5, Zenon
    <3>2. Counted1(e, pc[e], mig[e], Len(c_runqueue[e]), Len(victims[e]))
      BY Zenon DEF IInv, CountsHold
    <3> DEFINE l1 == Len(c_runqueue[e])
               l2 == Len(c_runqueue'[e])
    <3>3. l1 \in Nat /\ l2 \in Nat /\ l1 <= l2 /\ mig[e].my \in Nat /\ mig[e].send \in Nat
      BY <2>1, <2>4, Zenon
    <3>4. Counted1(e, pc[e], mig[e], l2, Len(victims[e]))
      <4>1. Counted1(e, pc[e], mig[e], l1, Len(victims[e]))
        BY <3>2, Zenon
      <4> HIDE DEF l1, l2
      <4> QED
        BY <3>3, <4>1
    <3> HIDE DEF Counted1
    <3> QED
      BY <3>1, <3>4, Zenon
  <2>6. Holds(c)
    BY <1>5, <2>3, Zenon
  <2> HIDE DEF Holds, Counted1
  <2>7. \A e \in CPUs : Holds(e)
    BY <2>5, <2>6, Zenon
  <2> QED
    BY <2>7, Zenon DEF CountsHold, Holds, Counted1
<1> QED
  BY <1>8, <1>9, <1>10, <1>11, <1>12, <1>13, <1>14, <1>15, Zenon DEF IInv


\* One turn of the loop that gives.
LEMMA MigGiveStep ==
    ASSUME IInv, NEW c \in CPUs, MigGive(c)
    PROVE  IInv'
<1> DEFINE m == mig[c]
           room == IF one_share(m) > Len(c_runqueue[m.i])
                   THEN one_share(m) - Len(c_runqueue[m.i]) ELSE 0
           split == MigSplit(c, victims[c], room, m.send)
<1>1. /\ pc \in [CPUs -> Places] /\ mig \in [CPUs -> MigRecord]
      /\ c_runqueue \in [CPUs -> Seq(Threads)] /\ victims \in [CPUs -> Seq(Threads)]
      /\ c_curthread \in [CPUs -> Threads]
  BY Zenon DEF IInv, TypeOK, MigRecord
<1>2. /\ pc[c] = "give" /\ m \in MigRecord /\ m.i \in Nat /\ m.i >= 1
      /\ m.send \in Nat /\ m.send <= Len(victims[c])
  BY <1>1, Zenon DEF MigGive, IInv, CountsHold, MigRecord
<1>3. ASSUME m.i <= NCPU, m.i # c,
             t_cpu' = [t \in Threads |-> IF t \in Range(split.given) THEN m.i ELSE t_cpu[t]],
             c_runqueue' = [c_runqueue EXCEPT ![m.i] = @ \o split.given],
             ipi' = [ipi EXCEPT ![m.i] = @ \/ (c_isidle[m.i] /\ split.given # <<>>)],
             victims' = [victims EXCEPT ![c] = split.left],
             mig' = [mig EXCEPT ![c].i = m.i + 1, ![c].send = split.send],
             UNCHANGED <<t_state, c_curthread, c_isidle, c_zombies, wc_threads, pc, ret, target>>
      PROVE  IInv'
  <2>1. m.i \in CPUs /\ Len(c_runqueue[m.i]) \in Nat /\ one_share(m) \in Nat
    <3>1. m.i \in CPUs
      <4>1. m.i \in Nat /\ m.i >= 1 /\ m.i <= NCPU
        BY <1>2, <1>3, Zenon
      <4> HIDE DEF m
      <4> QED
        BY <4>1, CPUAssumption DEF CPUs
    <3> QED
      BY <1>1, <1>2, <3>1, ShareIsNat
  <2>2. room \in Nat
    BY <2>1
  <2>3. victims[c] \in Seq(Threads) /\ IsInjective(victims[c]) /\ c_curthread[c] \in Threads
    BY <1>1, Zenon DEF IInv, Within, WithinCpu
  <2> HIDE DEF room
  <2>4. /\ split.given \in Seq(Threads) /\ split.left \in Seq(Threads) /\ split.send \in Nat
        /\ IsInjective(split.given) /\ IsInjective(split.left)
        /\ Range(split.given) \cap Range(split.left) = {}
        /\ Range(split.given) \cup Range(split.left) = Range(victims[c])
        /\ c_curthread[c] \notin Range(split.given)
        /\ split.send <= Len(split.left)
    BY <1>2, <2>2, <2>3, MigSplitParts, Zenon
  <2> HIDE DEF split, m
  <2>5. PICK d \in CPUs, given \in Seq(Threads), left \in Seq(Threads), send \in Nat :
          d = m.i /\ given = split.given /\ left = split.left /\ send = split.send
    BY <2>1, <2>4, Zenon
  <2> QED
    BY <1>2, <1>3, <2>4, <2>5, GiveStep, Zenon
<1>4. ASSUME \/ mig' = [mig EXCEPT ![c].i = @ + 1] /\ UNCHANGED pc
             \/ pc' = [pc EXCEPT ![c] = "putback"] /\ UNCHANGED mig,
             UNCHANGED <<t_state, t_cpu, c_curthread, c_runqueue, c_isidle, c_zombies, ipi,
                         wc_threads, ret, target, victims>>
      PROVE  IInv'
  <2>1. mig' \in [CPUs -> MigRecord] /\ pc' \in [CPUs -> Places]
    <3>1. [m EXCEPT !.i = @ + 1] \in MigRecord
      BY <1>2 DEF MigRecord
    <3>2. [mig EXCEPT ![c].i = @ + 1] = [mig EXCEPT ![c] = [m EXCEPT !.i = @ + 1]]
      BY <1>1, Zenon
    <3> QED
      BY <1>1, <1>4, <3>1, <3>2, Zenon DEF Places
  <2>2. TypeOK'
    BY <1>4, <2>1, Zenon DEF IInv, TypeOK, MigRecord
  <2>3. IdleFlags'
    BY <1>1, <1>2, <1>4, Zenon DEF IInv, IdleFlags, InHandler
  <2>4. Targets' /\ VictimsHeld' /\ WcExclusive' /\ IdleNotified'
    BY <1>1, <1>2, <1>4, ZenonT(30) DEF IInv, Targets, VictimsHeld, WcExclusive, HoldsWc, IdleNotified
  <2>5. Quiet
    <3>1. \A d \in CPUs : OnCpu(d)' <=> OnCpu(d)
      BY <1>1, <1>2, <1>4, Zenon DEF OnCpu
    <3> QED
      BY <1>4, <2>2, <3>1, Zenon DEF Quiet, TypeOK
  <2>6. CountsHold'
    <3>1. \A d \in CPUs : d # c => mig'[d] = mig[d] /\ pc'[d] = pc[d]
      BY <1>1, <1>4, Zenon
    <3>2. pc'[c] \in {"give", "putback"} /\ (pc'[c] = "give" => mig'[c].send = m.send /\ mig'[c].i >= 1)
      <4>1. CASE UNCHANGED mig
        BY <1>1, <1>2, <1>4, <4>1, Zenon
      <4>2. CASE mig' = [mig EXCEPT ![c].i = @ + 1] /\ UNCHANGED pc
        <5>1. mig'[c].i = m.i + 1 /\ mig'[c].send = m.send
          BY <1>1, <1>2, <4>2, Zenon DEF MigRecord
        <5> QED
          BY <1>2, <4>2, <5>1
      <4> QED
        BY <1>4, <4>1, <4>2, Zenon
    <3> QED
      BY <1>2, <1>4, <3>1, <3>2, Zenon DEF IInv, CountsHold
  <2> QED
    BY <2>2, <2>3, <2>4, <2>5, <2>6, QuietKeepsPlaces, Zenon DEF IInv
<1> QED
  <2> HIDE DEF m, room, split
  <2>1. MigGive(c) =>
          \/ /\ m.i <= NCPU /\ m.i # c
             /\ t_cpu' = [t \in Threads |-> IF t \in Range(split.given) THEN m.i ELSE t_cpu[t]]
             /\ c_runqueue' = [c_runqueue EXCEPT ![m.i] = @ \o split.given]
             /\ ipi' = [ipi EXCEPT ![m.i] = @ \/ (c_isidle[m.i] /\ split.given # <<>>)]
             /\ victims' = [victims EXCEPT ![c] = split.left]
             /\ mig' = [mig EXCEPT ![c].i = m.i + 1, ![c].send = split.send]
             /\ UNCHANGED <<t_state, c_curthread, c_isidle, c_zombies, wc_threads, pc, ret, target>>
          \/ /\ \/ mig' = [mig EXCEPT ![c].i = @ + 1] /\ UNCHANGED pc
                \/ pc' = [pc EXCEPT ![c] = "putback"] /\ UNCHANGED mig
             /\ UNCHANGED <<t_state, t_cpu, c_curthread, c_runqueue, c_isidle, c_zombies, ipi,
                            wc_threads, ret, target, victims>>
    BY Zenon DEF MigGive, m, room, split
  <2> QED
    BY <1>3, <1>4, <2>1, Zenon

----------------------------------------------------------------------------
(* Theorems *)

\* Every step keeps the invariant.
LEMMA NextIInv == IInv /\ [Next]_vars => IInv'
<1> SUFFICES ASSUME IInv, [Next]_vars PROVE IInv'
  BY Zenon
<1>1. CASE UNCHANGED vars
  <2>1. UNCHANGED <<t_state, t_cpu, c_curthread, c_runqueue, c_isidle, c_zombies, ipi,
                    wc_threads, pc, ret, target, mig, victims>>
    BY <1>1, Zenon DEF vars, threadVars, cpuVars, migVars
  <2>2. TypeOK'
    BY <2>1, Zenon DEF IInv, TypeOK
  <2>3. IdleFlags' /\ Targets' /\ VictimsHeld' /\ WcExclusive'
    BY <2>1, Zenon DEF IInv, IdleFlags, Targets, VictimsHeld, WcExclusive, HoldsWc
  <2>4. Quiet
    BY <2>1, Zenon DEF Quiet, OnCpu, IInv, TypeOK
  <2>5. IdleNotified' /\ CountsHold'
    BY <2>1, Zenon DEF IInv, IdleNotified, CountsHold
  <2> QED
    BY <2>2, <2>3, <2>4, <2>5, QuietKeepsPlaces, Zenon DEF IInv
<1>2. CASE Next
  <2>1. PICK c \in CPUs :
            \/ \E t \in Threads : thread_fork(c, t)
            \/ thread_exit(c) \/ wchan_sleep(c) \/ thread_yield(c)
            \/ thread_switch(c)
            \/ IpiInterrupt(c) \/ wchan_wakeone(c) \/ thread_make_runnable(c)
            \/ hardclock(c) \/ thread_consider_migration(c)
    BY <1>2, Zenon DEF Next
  <2>2. CASE \E t \in Threads : thread_fork(c, t)
    BY <2>2, ForkStep, Zenon
  <2>3. CASE thread_exit(c) \/ wchan_sleep(c) \/ thread_yield(c)
    BY <2>3, EnterSwitchStep, Zenon
  <2>4. CASE thread_switch(c)
    BY <2>4, SwitchReadyStep, SwitchSleepStep, SwitchSleepStateStep, SwitchZombieStep,
       PickStep, UnidleStep, SwitchTailStep, Zenon DEF thread_switch
  <2>5. CASE IpiInterrupt(c)
    BY <2>5, IpiInterruptStep, Zenon
  <2>6. CASE wchan_wakeone(c)
    BY <2>6, WakeoneStep, Zenon
  <2>7. CASE thread_make_runnable(c)
    BY <2>7, MakeRunnableStep, Zenon
  <2>8. CASE hardclock(c)
    BY <2>8, HardclockStep, Zenon
  <2>9. CASE thread_consider_migration(c)
    BY <2>9, MigCountStep, MigTakeStep, MigGiveStep, MigPutBackStep, Zenon DEF thread_consider_migration
  <2> QED
    BY <2>1, <2>2, <2>3, <2>4, <2>5, <2>6, <2>7, <2>8, <2>9, Zenon
<1> QED
  BY <1>1, <1>2, Zenon

\* The inductive invariant holds in every behaviour of the scheduler.
THEOREM SpecIInv == Spec => []IInv
  BY InitIInv, NextIInv, PTL DEF Spec

\* What ListsOf strings together is apart exactly when its parts are.
LEMMA ListsOfParts ==
    ASSUME IInv, NEW c \in CPUs
    PROVE  /\ IsInjective(ListsOf(c))
           /\ \A t \in Threads : t \in Range(ListsOf(c)) <=> At(c, t)
           /\ Range(ListsOf(c)) \subseteq Threads
<1> DEFINE tg == IF target[c] = NULL THEN <<>> ELSE <<target[c]>>
           run == IF OnCpu(c) THEN <<c_curthread[c]>> ELSE <<>>
           q == c_runqueue[c]
           v == victims[c]
           z == c_zombies[c]
<1>1. /\ q \in Seq(Threads) /\ v \in Seq(Threads) /\ z \in Seq(Threads)
      /\ target[c] \in Threads \cup {NULL} /\ c_curthread[c] \in Threads
  BY Zenon DEF IInv, TypeOK
<1>2. Range(<<>>) = {} /\ IsInjective(<<>>) /\ <<>> \in Seq(Threads)
  BY DEF Range, IsInjective
<1>3. ASSUME NEW t \in Threads PROVE <<t>> \in Seq(Threads) /\ Range(<<t>>) = {t} /\ IsInjective(<<t>>)
  BY DEF Range, IsInjective
<1>4. /\ tg \in Seq(Threads) /\ IsInjective(tg)
      /\ Range(tg) = IF target[c] = NULL THEN {} ELSE {target[c]}
  BY <1>1, <1>2, <1>3, Zenon
<1>5. /\ run \in Seq(Threads) /\ IsInjective(run)
      /\ Range(run) = IF OnCpu(c) THEN {c_curthread[c]} ELSE {}
  BY <1>1, <1>2, <1>3, Zenon
<1>6. ListsOf(c) = (((q \o v) \o z) \o tg) \o run
  BY Zenon DEF ListsOf
<1>7. /\ IsInjective(q) /\ IsInjective(v) /\ IsInjective(z)
      /\ Range(q) \cap Range(v) = {}
      /\ Range(z) \cap (Range(q) \cup Range(v)) = {}
      /\ target[c] \notin Listed(c)
      /\ OnCpu(c) => c_curthread[c] \notin Listed(c) \cup {target[c]}
      /\ Listed(c) = Range(q) \cup Range(v) \cup Range(z)
  BY Zenon DEF IInv, Within, WithinCpu, Listed
<1> HIDE DEF tg, run, q, v, z
<1>8. q \o v \in Seq(Threads) /\ IsInjective(q \o v) /\ Range(q \o v) = Range(q) \cup Range(v)
  BY <1>1, <1>7, ConcatList, Zenon
<1> DEFINE qv == q \o v
<1> HIDE DEF qv
<1>9. qv \o z \in Seq(Threads) /\ IsInjective(qv \o z) /\ Range(qv \o z) = Listed(c)
  <2>1. qv \in Seq(Threads) /\ IsInjective(qv) /\ Range(qv) = Range(q) \cup Range(v)
    BY <1>8, Zenon DEF qv
  <2>2. Range(qv) \cap Range(z) = {}
    BY <1>7, <2>1, Zenon
  <2>3. qv \o z \in Seq(Threads) /\ IsInjective(qv \o z) /\ Range(qv \o z) = Range(qv) \cup Range(z)
    BY <1>1, <1>7, <2>1, <2>2, ConcatList, Zenon
  <2> QED
    BY <1>7, <2>1, <2>3, Zenon
<1> DEFINE l == qv \o z
<1>10. l \in Seq(Threads) /\ IsInjective(l) /\ Range(l) = Listed(c)
  BY <1>9, Zenon
<1>11. ListsOf(c) = (l \o tg) \o run
  BY <1>6, Zenon DEF qv
<1> HIDE DEF l
<1> DEFINE lt == l \o tg
<1>12. /\ lt \in Seq(Threads) /\ IsInjective(lt)
       /\ Range(lt) = Listed(c) \cup (IF target[c] = NULL THEN {} ELSE {target[c]})
  <2>1. Range(l) \cap Range(tg) = {}
    BY <1>4, <1>7, <1>10, Zenon
  <2>2. lt \in Seq(Threads) /\ IsInjective(lt) /\ Range(lt) = Range(l) \cup Range(tg)
    BY <1>4, <1>10, <2>1, ConcatList
  <2> QED
    BY <1>4, <1>10, <2>2, Zenon
<1> HIDE DEF lt
<1>13. /\ lt \o run \in Seq(Threads) /\ IsInjective(lt \o run)
       /\ Range(lt \o run) = Range(lt) \cup Range(run)
  <2>1. Range(lt) \cap Range(run) = {}
    BY <1>5, <1>7, <1>12, Zenon
  <2> QED
    BY <1>5, <1>12, <2>1, ConcatList
<1>14. ListsOf(c) = lt \o run
  BY <1>11, Zenon DEF lt
<1>15. \A t \in Threads : t \in Range(ListsOf(c)) <=> At(c, t)
  BY <1>5, <1>12, <1>13, <1>14, BootAssumption, Zenon DEF At
<1>16. Range(ListsOf(c)) \subseteq Threads
  BY <1>13, <1>14 DEF Range
<1> QED
  BY <1>13, <1>14, <1>15, <1>16, Zenon

\* On any number of cpus, every thread that exists is on exactly one list, in
\* the hands of one wakeup or running on one cpu: thread_switch, wchan_wakeone,
\* thread_consider_migration and exorcise never lose a thread or queue it twice.
THEOREM ThreadsInOnePlace == Spec => []InOnePlace
<1>1. IInv => InOnePlace
  <2> SUFFICES ASSUME IInv PROVE InOnePlace
    BY Zenon
  <2>1. Range(wc_threads) \subseteq Threads
    BY DEF IInv, TypeOK, Range
  <2>2. \A c \in CPUs : /\ IsInjective(ListsOf(c))
                        /\ \A t \in Threads : t \in Range(ListsOf(c)) <=> At(c, t)
                        /\ Range(ListsOf(c)) \subseteq Threads
    BY ListsOfParts, Zenon
  <2> QED
    BY <2>1, <2>2, Zenon DEF InOnePlace, IInv, OnePlace, Accounted
<1> QED
  BY <1>1, SpecIInv, PTL

\* A cpu that idles while a thread is on its run queue has an interprocessor
\* interrupt pending: thread_make_runnable and thread_consider_migration read
\* c_isidle under the runqueue lock.
THEOREM IdleCpusNotified == Spec => []IdleNotified
<1>1. IInv => IdleNotified
  BY Zenon DEF IInv
<1> QED
  BY <1>1, SpecIInv, PTL

\* The counts thread_consider_migration works with after it has let go of the
\* locks never exceed what threadlist_remtail and threadlist_remhead find.
THEOREM MigrationFindsThreads == Spec => []MigrationNeverShort
<1>1. IInv => MigrationNeverShort
  BY Zenon DEF IInv, CountsHold, MigrationNeverShort
<1> QED
  BY <1>1, SpecIInv, PTL

\* No two cpus are on one stack, and no cpu is on a stack that exorcise has
\* freed, although an idle cpu stays on the stack of a thread that may be woken
\* and counted for migration meanwhile.
THEOREM StacksSafe == Spec => []StackSafe
<1>1. IInv => StackSafe
  <2> SUFFICES ASSUME IInv PROVE StackSafe
    BY Zenon
  <2>1. NoSharedStack
    BY Zenon DEF IInv, HomeCpu, NoSharedStack
  <2>2. ASSUME NEW c \in CPUs, pc[c] = "tail" PROVE c_curthread[c] \notin Range(c_zombies[c])
    <3>1. OnCpu(c)
      BY <2>2, Zenon DEF IInv, IdleFlags, InHandler, OnCpu
    <3> QED
      BY <3>1, Zenon DEF IInv, Within, WithinCpu, Listed
  <2>3. NoFreedStack
    BY <2>2, Zenon DEF NoFreedStack, IInv, HomeCpu
  <2> QED
    BY <2>1, <2>3, Zenon DEF StackSafe
<1> QED
  BY <1>1, SpecIInv, PTL

\* The assertion of thread_switch that curthread->t_cpu is this cpu.
THEOREM CpusOfThreads == Spec => []CpuOfThread
<1>1. IInv => CpuOfThread
  BY Zenon DEF IInv, HomeCpu, CpuOfThread, Listed
<1> QED
  BY <1>1, SpecIInv, PTL
=============================================================================
