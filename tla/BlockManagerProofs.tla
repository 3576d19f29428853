------------------------- MODULE BlockManagerProofs -------------------------
(***************************************************************************)
(* Proofs about the KV block manager, for every pool size, block size, set  *)
(* of requests and prompt lengths.                                          *)
(***************************************************************************)
EXTENDS BlockManager, KVBlocksProofs, SequenceTheorems, TLAPS

-----------------------------------------------------------------------------
(* What popping n blocks off the free queue returns and leaves behind       *)
(* (get_one_free_block called n times).                                     *)
LEMMA TakeProperties ==
    ASSUME NEW S, NEW s \in Seq(S), NEW n \in 0 .. Len(s)
    PROVE  /\ Taken(s, n) \in Seq(S)
           /\ Len(Taken(s, n)) = n
           /\ \A i \in 1 .. n : Taken(s, n)[i] = s[i]
           /\ Remaining(s, n) \in Seq(S)
           /\ Len(Remaining(s, n)) = Len(s) - n
           /\ \A i \in 1 .. Len(s) - n : Remaining(s, n)[i] = s[n + i]
<1>0. Len(s) \in Nat /\ \A i \in 1 .. Len(s) : s[i] \in S
  BY LenProperties, ElementOfSeq, Zenon
<1>1. /\ Taken(s, n) \in Seq(S)
      /\ Len(Taken(s, n)) = n
      /\ \A i \in 1 .. n : Taken(s, n)[i] = s[i]
  <2>1. \A i \in 1 .. n : s[i] \in S
    BY <1>0
  <2> QED BY <1>0, <2>1, SubSeqProperties DEF Taken
<1>2. /\ Remaining(s, n) \in Seq(S)
      /\ Len(Remaining(s, n)) = Len(s) - n
      /\ \A i \in 1 .. Len(s) - n : Remaining(s, n)[i] = s[n + i]
  <2>1. \A i \in n + 1 .. Len(s) : s[i] \in S
    BY <1>0
  <2>2. /\ SubSeq(s, n + 1, Len(s)) \in Seq(S)
        /\ Len(SubSeq(s, n + 1, Len(s))) =
             IF n + 1 <= Len(s) THEN Len(s) - (n + 1) + 1 ELSE 0
        /\ \A i \in 1 .. Len(s) - (n + 1) + 1 :
             SubSeq(s, n + 1, Len(s))[i] = s[n + 1 + i - 1]
    BY <1>0, <2>1, SubSeqProperties
  <2> QED BY <1>0, <2>2 DEF Remaining
<1> QED BY <1>1, <1>2, Zenon

(* Blocks taken from the queue and added at the end of a block list: the     *)
(* list keeps its blocks and gains the first n of the queue.                 *)
LEMMA AppendTakenProperties ==
    ASSUME NEW S, NEW old \in Seq(S), NEW s \in Seq(S), NEW n \in 0 .. Len(s)
    PROVE  /\ old \o Taken(s, n) \in Seq(S)
           /\ Len(old \o Taken(s, n)) = Len(old) + n
           /\ \A i \in 1 .. Len(old) : (old \o Taken(s, n))[i] = old[i]
           /\ \A i \in 1 .. n : (old \o Taken(s, n))[Len(old) + i] = s[i]
<1> DEFINE new == Taken(s, n)
           all == old \o new
<1>1. Len(old) \in Nat /\ Len(s) \in Nat /\ n \in Nat
  BY LenProperties
<1>2. new \in Seq(S) /\ Len(new) = n /\ \A i \in 1 .. n : new[i] = s[i]
  BY TakeProperties, Zenon
<1> HIDE DEF new
<1>3. /\ all \in Seq(S)
      /\ Len(all) = Len(old) + Len(new)
      /\ \A i \in 1 .. Len(old) + Len(new) :
            all[i] = IF i <= Len(old) THEN old[i] ELSE new[i - Len(old)]
  BY <1>2, ConcatProperties, Zenon
<1> HIDE DEF all
<1>4. \A i \in 1 .. Len(old) : all[i] = old[i]
  BY <1>1, <1>2, <1>3
<1>5. \A i \in 1 .. n : all[Len(old) + i] = s[i]
  BY <1>1, <1>2, <1>3, SMTT(30)
<1> QED BY <1>2, <1>3, <1>4, <1>5, Zenon DEF all, new

-----------------------------------------------------------------------------
\* n blocks moved from the head of the queue to the end of q's block list.
Moved(queue, tables, queue2, tables2, q, n) ==
    /\ Len(queue2) = Len(queue) - n
    /\ \A i \in 1 .. Len(queue) - n : queue2[i] = queue[n + i]
    /\ Len(tables2[q]) = Len(tables[q]) + n
    /\ \A i \in 1 .. Len(tables[q]) : tables2[q][i] = tables[q][i]
    /\ \A i \in 1 .. n : tables2[q][Len(tables[q]) + i] = queue[i]
    /\ \A p \in Req \ {q} : tables2[p] = tables[p]

(* Moving n blocks from the head of the queue to the end of one block list  *)
(* keeps every block in exactly one place (allocate, append_tokens).        *)
LEMMA MoveKeepsPartition ==
    ASSUME NEW queue \in Seq(Block), NEW tables \in [Req -> Seq(Block)],
           NEW queue2 \in Seq(Block), NEW tables2 \in [Req -> Seq(Block)],
           Exclusive(queue, tables), Complete(queue, tables),
           NEW q \in Req, NEW n \in 0 .. Len(queue),
           Moved(queue, tables, queue2, tables2, q, n)
    PROVE  Exclusive(queue2, tables2) /\ Complete(queue2, tables2)
<1> USE DEF Moved
<1> DEFINE m == Len(tables[q])
<1>0. /\ Len(queue) \in Nat /\ m \in Nat /\ n \in Nat
      /\ \A p \in Req : Len(tables[p]) \in Nat
  BY LenProperties
<1>1. /\ \A i, j \in 1 .. Len(queue) : queue[i] = queue[j] => i = j
      /\ \A p \in Req : \A i, j \in 1 .. Len(tables[p]) :
            tables[p][i] = tables[p][j] => i = j
      /\ \A p \in Req : \A i \in 1 .. Len(queue), j \in 1 .. Len(tables[p]) :
            queue[i] # tables[p][j]
      /\ \A p, r \in Req : p # r =>
            \A i \in 1 .. Len(tables[p]), j \in 1 .. Len(tables[r]) :
                tables[p][i] # tables[r][j]
  BY Zenon DEF Exclusive, IsInjectiveSeq
<1>a. \A i, j \in 1 .. Len(queue) : queue[i] = queue[j] => i = j
  BY <1>1, Zenon
<1>b. \A p \in Req : \A i \in 1 .. Len(queue), j \in 1 .. Len(tables[p]) :
         queue[i] # tables[p][j]
  BY <1>1, Zenon
<1>2. \A k \in 1 .. m + n :
         \/ k \in 1 .. m /\ tables2[q][k] = tables[q][k]
         \/ k - m \in 1 .. n /\ k = m + (k - m) /\ tables2[q][k] = queue[k - m]
  <2> TAKE k \in 1 .. m + n
  <2>1. CASE k <= m BY <1>0, <2>1
  <2>2. CASE k > m
    <3>1. k - m \in 1 .. n /\ k = m + (k - m) BY <1>0, <2>2
    <3> QED BY <3>1, Zenon
  <2> QED BY <1>0, <2>1, <2>2
<1> HIDE DEF m
<1>3. \A i \in 1 .. Len(queue2) : n + i \in 1 .. Len(queue) /\ queue2[i] = queue[n + i]
  BY <1>0
<1>4. Exclusive(queue2, tables2)
  <2>1. ASSUME NEW i \in 1 .. Len(queue2), NEW j \in 1 .. Len(queue2),
               queue2[i] = queue2[j]
        PROVE  i = j
    <3>0. /\ n + i \in 1 .. Len(queue) /\ n + j \in 1 .. Len(queue)
          /\ queue[n + i] = queue[n + j]
      BY <1>3, <2>1, Zenon
    <3>1. n + i = n + j BY <1>1, <3>0, Zenon
    <3> QED BY <1>0, <3>1
  <2>2. ASSUME NEW p \in Req, NEW i \in 1 .. Len(tables2[p]),
               NEW j \in 1 .. Len(tables2[p]), tables2[p][i] = tables2[p][j]
        PROVE  i = j
    <3>1. CASE p # q BY <1>1, <2>2, <3>1, Zenon
    <3>2. CASE p = q
      <4>0. i \in 1 .. m + n /\ j \in 1 .. m + n BY <3>2, Zenon DEF m
      <4>1. 1 .. n \subseteq 1 .. Len(queue) BY <1>0
      <4>2. CASE i - m \in 1 .. n /\ j - m \in 1 .. n
                 /\ queue[i - m] = queue[j - m]
        <5>1. i - m = j - m BY <1>1, <4>1, <4>2, Zenon
        <5> QED BY <1>0, <4>0, <5>1
      <4>3. CASE i \in 1 .. m /\ tables2[q][i] = tables[q][i]
        <5>1. CASE j \in 1 .. m /\ tables2[q][j] = tables[q][j]
          BY <1>1, <2>2, <3>2, <4>3, <5>1 DEF m
        <5>2. CASE j - m \in 1 .. n /\ tables2[q][j] = queue[j - m]
          BY <1>1, <2>2, <3>2, <4>1, <4>3, <5>2 DEF m
        <5> QED BY <1>2, <4>0, <5>1, <5>2, Zenon
      <4>4. CASE j \in 1 .. m /\ tables2[q][j] = tables[q][j]
        <5>1. CASE i \in 1 .. m /\ tables2[q][i] = tables[q][i]
          BY <1>1, <2>2, <3>2, <4>4, <5>1 DEF m
        <5>2. CASE i - m \in 1 .. n /\ tables2[q][i] = queue[i - m]
          BY <1>1, <2>2, <3>2, <4>1, <4>4, <5>2 DEF m
        <5> QED BY <1>2, <4>0, <5>1, <5>2, Zenon
      <4> QED BY <1>2, <2>2, <3>2, <4>0, <4>2, <4>3, <4>4, Zenon
    <3> QED BY <3>1, <3>2, Zenon
  <2>3. ASSUME NEW p \in Req,
               NEW i \in 1 .. Len(queue2), NEW j \in 1 .. Len(tables2[p])
        PROVE  queue2[i] # tables2[p][j]
    <3>1. CASE p # q
      <4>1. tables2[p] = tables[p] BY <3>1, Zenon
      <4>2. n + i \in 1 .. Len(queue) /\ queue2[i] = queue[n + i] BY <1>3, Zenon
      <4>3. j \in 1 .. Len(tables[p]) BY <4>1, Zenon
      <4>4. queue[n + i] # tables[p][j] BY <1>b, <4>2, <4>3, Zenon
      <4> QED BY <4>1, <4>2, <4>4, Zenon
    <3>2. CASE p = q
      <4>0. j \in 1 .. m + n BY <3>2, Zenon DEF m
      <4>1. CASE j \in 1 .. m /\ tables2[q][j] = tables[q][j]
        <5>1. n + i \in 1 .. Len(queue) /\ queue2[i] = queue[n + i] BY <1>3, Zenon
        <5>2. j \in 1 .. Len(tables[q]) BY <4>1, Zenon DEF m
        <5>3. queue[n + i] # tables[q][j] BY <1>b, <5>1, <5>2, Zenon
        <5> QED BY <3>2, <4>1, <5>1, <5>3, Zenon
      <4>2. CASE j - m \in 1 .. n /\ tables2[q][j] = queue[j - m]
        <5>1. j - m \in 1 .. Len(queue) /\ j - m # n + i BY <1>0, <4>2
        <5>2. n + i \in 1 .. Len(queue) /\ queue2[i] = queue[n + i] BY <1>3, Zenon
        <5>3. queue[j - m] # queue[n + i] BY <1>a, <5>1, <5>2, Zenon
        <5> QED BY <3>2, <4>2, <5>2, <5>3, Zenon
      <4> QED BY <1>2, <4>0, <4>1, <4>2, Zenon
    <3> QED BY <3>1, <3>2, Zenon
  <2>4. ASSUME NEW p \in Req, p # q,
               NEW i \in 1 .. Len(tables2[q]), NEW j \in 1 .. Len(tables2[p])
        PROVE  tables2[q][i] # tables2[p][j]
    <3>0. i \in 1 .. m + n /\ 1 .. n \subseteq 1 .. Len(queue) BY <1>0 DEF m
    <3>1. tables2[p] = tables[p] BY <2>4, Zenon
    <3>2. CASE i \in 1 .. m /\ tables2[q][i] = tables[q][i]
      BY <1>1, <2>4, <3>1, <3>2 DEF m
    <3>3. CASE i - m \in 1 .. n /\ tables2[q][i] = queue[i - m]
      BY <1>1, <2>4, <3>0, <3>1, <3>3
    <3> QED BY <1>2, <3>0, <3>2, <3>3, Zenon
  <2>5. ASSUME NEW p \in Req, NEW r \in Req, p # r,
               NEW i \in 1 .. Len(tables2[p]), NEW j \in 1 .. Len(tables2[r])
        PROVE  tables2[p][i] # tables2[r][j]
    <3>1. CASE p = q BY <2>4, <2>5, <3>1, Zenon
    <3>2. CASE r = q BY <2>4, <2>5, <3>2, Zenon
    <3>3. CASE p # q /\ r # q BY <1>1, <2>5, <3>3
    <3> QED BY <3>1, <3>2, <3>3, Zenon
  <2> QED BY <2>1, <2>2, <2>3, <2>5, Zenon DEF Exclusive, IsInjectiveSeq
<1>5. Complete(queue2, tables2)
  <2> SUFFICES ASSUME NEW b \in Block
               PROVE  \/ \E i \in 1 .. Len(queue2) : queue2[i] = b
                      \/ \E p \in Req : \E i \in 1 .. Len(tables2[p]) : tables2[p][i] = b
    BY Zenon DEF Complete
  <2>1. CASE \E i \in 1 .. Len(queue) : queue[i] = b
    <3> PICK i \in 1 .. Len(queue) : queue[i] = b BY <2>1, Zenon
    <3>1. CASE i <= n
      <4>1. m + i \in 1 .. Len(tables2[q]) /\ tables2[q][m + i] = b
        BY <1>0, <3>1 DEF m
      <4> QED BY <4>1, Zenon
    <3>2. CASE i > n
      <4>1. i - n \in 1 .. Len(queue2) /\ i = n + (i - n)
        BY <1>0, <3>2
      <4>2. queue2[i - n] = b BY <1>3, <4>1, Zenon
      <4> QED BY <4>1, <4>2, Zenon
    <3> QED BY <1>0, <3>1, <3>2
  <2>2. CASE \E p \in Req : \E i \in 1 .. Len(tables[p]) : tables[p][i] = b
    <3> PICK p \in Req : \E i \in 1 .. Len(tables[p]) : tables[p][i] = b BY <2>2, Zenon
    <3> PICK i \in 1 .. Len(tables[p]) : tables[p][i] = b BY Zenon
    <3>1. CASE p = q
      <4>1. i \in 1 .. Len(tables2[q]) BY <1>0, <3>1 DEF m
      <4> QED BY <3>1, <4>1, Zenon
    <3>2. CASE p # q BY <3>2, Zenon
    <3> QED BY <3>1, <3>2, Zenon
  <2> QED BY <2>1, <2>2, Zenon DEF Complete
<1> QED BY <1>4, <1>5, Zenon

\* The assignments of allocate and append_tokens, and what they establish.
IsMove(queue, tables, queue2, tables2, q, n) ==
    /\ queue2 = Remaining(queue, n)
    /\ tables2 = [tables EXCEPT ![q] = @ \o Taken(queue, n)]

MoveResult(queue, tables, queue2, tables2, q, n) ==
    /\ queue2 \in Seq(Block)
    /\ tables2 \in [Req -> Seq(Block)]
    /\ Len(tables2[q]) = Len(tables[q]) + n
    /\ \A i \in 1 .. Len(tables[q]) : tables2[q][i] = tables[q][i]
    /\ \A p \in Req \ {q} : tables2[p] = tables[p]
    /\ Exclusive(queue2, tables2)
    /\ Complete(queue2, tables2)

(* The same for the expressions of the actions.                             *)
LEMMA MoveProperties ==
    ASSUME NEW queue \in Seq(Block), NEW tables \in [Req -> Seq(Block)],
           Exclusive(queue, tables), Complete(queue, tables),
           NEW q \in Req, NEW n \in 0 .. Len(queue), NEW queue2, NEW tables2
    PROVE  IsMove(queue, tables, queue2, tables2, q, n)
           => MoveResult(queue, tables, queue2, tables2, q, n)
<1>0. ASSUME queue2 = Remaining(queue, n),
             tables2 = [tables EXCEPT ![q] = @ \o Taken(queue, n)]
      PROVE  MoveResult(queue, tables, queue2, tables2, q, n)
  <2>1. /\ queue2 \in Seq(Block)
        /\ Len(queue2) = Len(queue) - n
        /\ \A i \in 1 .. Len(queue) - n : queue2[i] = queue[n + i]
    BY <1>0, TakeProperties, Zenon
  <2>2. tables[q] \in Seq(Block)
    BY Zenon
  <2>3. /\ tables[q] \o Taken(queue, n) \in Seq(Block)
        /\ Len(tables[q] \o Taken(queue, n)) = Len(tables[q]) + n
        /\ \A i \in 1 .. Len(tables[q]) :
              (tables[q] \o Taken(queue, n))[i] = tables[q][i]
        /\ \A i \in 1 .. n :
              (tables[q] \o Taken(queue, n))[Len(tables[q]) + i] = queue[i]
    BY <2>2, AppendTakenProperties, SMTT(30)
  <2>4. /\ tables2[q] = tables[q] \o Taken(queue, n)
        /\ \A p \in Req \ {q} : tables2[p] = tables[p]
    BY <1>0, Zenon
  <2>5. tables2 \in [Req -> Seq(Block)]
    BY <1>0, <2>3, <2>4, Zenon
  <2>6. /\ Len(tables2[q]) = Len(tables[q]) + n
        /\ \A i \in 1 .. Len(tables[q]) : tables2[q][i] = tables[q][i]
        /\ \A i \in 1 .. n : tables2[q][Len(tables[q]) + i] = queue[i]
    BY <2>3, <2>4, Zenon
  <2>7. Exclusive(queue2, tables2) /\ Complete(queue2, tables2)
    <3>1. Moved(queue, tables, queue2, tables2, q, n)
      BY <2>1, <2>4, <2>6, Zenon DEF Moved
    <3> QED BY <2>1, <2>5, <3>1, MoveKeepsPartition, Zenon
  <2> QED BY <2>1, <2>4, <2>5, <2>6, <2>7, Zenon DEF MoveResult
<1> QED BY <1>0, Zenon DEF IsMove

-----------------------------------------------------------------------------
\* q's block list appended to the queue.
Returned(queue, tables, queue2, tables2, q) ==
    /\ Len(queue2) = Len(queue) + Len(tables[q])
    /\ \A i \in 1 .. Len(queue) : queue2[i] = queue[i]
    /\ \A i \in 1 .. Len(tables[q]) : queue2[Len(queue) + i] = tables[q][i]
    /\ Len(tables2[q]) = 0
    /\ \A p \in Req \ {q} : tables2[p] = tables[p]

(* Returning a whole block list to the queue keeps every block in exactly    *)
(* one place (release).                                                      *)
LEMMA ReturnKeepsPartition ==
    ASSUME NEW queue \in Seq(Block), NEW tables \in [Req -> Seq(Block)],
           NEW queue2 \in Seq(Block), NEW tables2 \in [Req -> Seq(Block)],
           Exclusive(queue, tables), Complete(queue, tables),
           NEW q \in Req,
           Returned(queue, tables, queue2, tables2, q)
    PROVE  Exclusive(queue2, tables2) /\ Complete(queue2, tables2)
<1> USE DEF Returned
<1> DEFINE m == Len(queue)
           n == Len(tables[q])
<1>0. m \in Nat /\ n \in Nat
  BY LenProperties, Zenon
<1>1. \A i, j \in 1 .. m : queue[i] = queue[j] => i = j
  BY Zenon DEF Exclusive, IsInjectiveSeq
<1>6. \A p \in Req : \A i, j \in 1 .. Len(tables[p]) :
         tables[p][i] = tables[p][j] => i = j
  BY Zenon DEF Exclusive, IsInjectiveSeq
<1>7. \A p \in Req : \A i \in 1 .. m, j \in 1 .. Len(tables[p]) :
         queue[i] # tables[p][j]
  BY Zenon DEF Exclusive
<1>8. \A p, r \in Req : p # r =>
         \A i \in 1 .. Len(tables[p]), j \in 1 .. Len(tables[r]) :
             tables[p][i] # tables[r][j]
  BY Zenon DEF Exclusive
<1>2. \A k \in 1 .. Len(queue2) :
         \/ k \in 1 .. m /\ queue2[k] = queue[k]
         \/ k - m \in 1 .. n /\ queue2[k] = tables[q][k - m]
  <2> TAKE k \in 1 .. Len(queue2)
  <2>1. CASE k <= m BY <1>0, <2>1
  <2>2. CASE k > m
    <3>1. k - m \in 1 .. n /\ k = m + (k - m) BY <1>0, <2>2
    <3> QED BY <3>1, Zenon
  <2> QED BY <1>0, <2>1, <2>2
<1> HIDE DEF m, n
<1>3. \A p \in Req : \A i \in 1 .. Len(tables2[p]) :
         p # q /\ tables2[p] = tables[p]
  OBVIOUS
<1>4. Exclusive(queue2, tables2)
  <2>1. ASSUME NEW i \in 1 .. Len(queue2), NEW j \in 1 .. Len(queue2),
               queue2[i] = queue2[j]
        PROVE  i = j
    <3>1. CASE i \in 1 .. m /\ queue2[i] = queue[i]
      <4>1. CASE j \in 1 .. m /\ queue2[j] = queue[j]
        BY <1>1, <2>1, <3>1, <4>1, Zenon
      <4>2. CASE j - m \in 1 .. n /\ queue2[j] = tables[q][j - m]
        <5>1. queue[i] # tables[q][j - m] BY <1>7, <3>1, <4>2, Zenon DEF n
        <5> QED BY <2>1, <3>1, <4>2, <5>1, Zenon
      <4> QED BY <1>2, <4>1, <4>2, Zenon
    <3>2. CASE i - m \in 1 .. n /\ queue2[i] = tables[q][i - m]
      <4>1. CASE j \in 1 .. m /\ queue2[j] = queue[j]
        <5>1. queue[j] # tables[q][i - m] BY <1>7, <3>2, <4>1, Zenon DEF n
        <5> QED BY <2>1, <3>2, <4>1, <5>1, Zenon
      <4>2. CASE j - m \in 1 .. n /\ queue2[j] = tables[q][j - m]
        <5>1. i - m = j - m BY <1>6, <2>1, <3>2, <4>2, ZenonT(30) DEF n
        <5> QED BY <1>0, <5>1
      <4> QED BY <1>2, <4>1, <4>2, Zenon
    <3> QED BY <1>2, <3>1, <3>2, Zenon
  <2>2. ASSUME NEW p \in Req, NEW i \in 1 .. Len(tables2[p]),
               NEW j \in 1 .. Len(tables2[p]), tables2[p][i] = tables2[p][j]
        PROVE  i = j
    BY <1>3, <1>6, <2>2
  <2>3. ASSUME NEW p \in Req,
               NEW i \in 1 .. Len(queue2), NEW j \in 1 .. Len(tables2[p])
        PROVE  queue2[i] # tables2[p][j]
    <3>1. p # q /\ tables2[p] = tables[p] BY <1>3, Zenon
    <3>2. CASE i \in 1 .. m /\ queue2[i] = queue[i]
      BY <1>7, <3>1, <3>2
    <3>3. CASE i - m \in 1 .. n /\ queue2[i] = tables[q][i - m]
      BY <1>8, <3>1, <3>3, SMTT(30) DEF n
    <3> QED BY <1>2, <3>2, <3>3, Zenon
  <2>4. ASSUME NEW p \in Req, NEW r \in Req, p # r,
               NEW i \in 1 .. Len(tables2[p]), NEW j \in 1 .. Len(tables2[r])
        PROVE  tables2[p][i] # tables2[r][j]
    <3>1. tables2[p] = tables[p] /\ tables2[r] = tables[r] BY <1>3, Zenon
    <3> QED BY <1>8, <2>4, <3>1
  <2> QED BY <2>1, <2>2, <2>3, <2>4, Zenon DEF Exclusive, IsInjectiveSeq
<1>5. Complete(queue2, tables2)
  <2> SUFFICES ASSUME NEW b \in Block
               PROVE  \/ \E i \in 1 .. Len(queue2) : queue2[i] = b
                      \/ \E p \in Req : \E i \in 1 .. Len(tables2[p]) : tables2[p][i] = b
    BY Zenon DEF Complete
  <2>1. CASE \E i \in 1 .. m : queue[i] = b
    <3> PICK i \in 1 .. m : queue[i] = b BY <2>1, Zenon
    <3>1. i \in 1 .. Len(queue2) BY <1>0 DEF m, n
    <3> QED BY <3>1, Zenon DEF m
  <2>2. CASE \E p \in Req : \E i \in 1 .. Len(tables[p]) : tables[p][i] = b
    <3> PICK p \in Req : \E i \in 1 .. Len(tables[p]) : tables[p][i] = b BY <2>2, Zenon
    <3> PICK i \in 1 .. Len(tables[p]) : tables[p][i] = b BY Zenon
    <3>1. CASE p = q
      <4>1. m + i \in 1 .. Len(queue2) BY <1>0, <3>1 DEF m, n
      <4> QED BY <3>1, <4>1, Zenon DEF m
    <3>2. CASE p # q BY <3>2, Zenon
    <3> QED BY <3>1, <3>2, Zenon
  <2> QED BY <2>1, <2>2, Zenon DEF Complete, m
<1> QED BY <1>4, <1>5, Zenon

\* The assignments of release, and what they establish.
IsReturn(queue, tables, queue2, tables2, q) ==
    /\ queue2 = queue \o tables[q]
    /\ tables2 = [tables EXCEPT ![q] = <<>>]

ReturnResult(queue, tables, queue2, tables2, q) ==
    /\ queue2 \in Seq(Block)
    /\ tables2 \in [Req -> Seq(Block)]
    /\ tables2[q] = <<>>
    /\ \A p \in Req \ {q} : tables2[p] = tables[p]
    /\ Exclusive(queue2, tables2)
    /\ Complete(queue2, tables2)

(* The same for the expressions of ReleaseSeq.                              *)
LEMMA ReturnProperties ==
    ASSUME NEW queue \in Seq(Block), NEW tables \in [Req -> Seq(Block)],
           Exclusive(queue, tables), Complete(queue, tables),
           NEW q \in Req, NEW queue2, NEW tables2
    PROVE  IsReturn(queue, tables, queue2, tables2, q)
           => ReturnResult(queue, tables, queue2, tables2, q)
<1>0. ASSUME queue2 = queue \o tables[q],
             tables2 = [tables EXCEPT ![q] = <<>>]
      PROVE  ReturnResult(queue, tables, queue2, tables2, q)
  <2>1. /\ tables2 \in [Req -> Seq(Block)]
        /\ tables2[q] = <<>>
        /\ Len(tables2[q]) = 0
        /\ \A p \in Req \ {q} : tables2[p] = tables[p]
    BY <1>0
  <2>2. /\ tables[q] \in Seq(Block)
        /\ Len(queue) \in Nat /\ Len(tables[q]) \in Nat
    BY LenProperties, Zenon
  <2>3. /\ queue \o tables[q] \in Seq(Block)
        /\ Len(queue \o tables[q]) = Len(queue) + Len(tables[q])
        /\ \A i \in 1 .. Len(queue) + Len(tables[q]) : (queue \o tables[q])[i] =
              IF i <= Len(queue) THEN queue[i] ELSE tables[q][i - Len(queue)]
    BY <2>2, ConcatProperties, Zenon
  <2>4. queue2 \in Seq(Block) /\ Len(queue2) = Len(queue) + Len(tables[q])
    BY <1>0, <2>3, Zenon
  <2>5. \A i \in 1 .. Len(queue) + Len(tables[q]) : queue2[i] =
              IF i <= Len(queue) THEN queue[i] ELSE tables[q][i - Len(queue)]
    BY <1>0, <2>3, Zenon
  <2>6. /\ \A i \in 1 .. Len(queue) : queue2[i] = queue[i]
        /\ \A i \in 1 .. Len(tables[q]) : queue2[Len(queue) + i] = tables[q][i]
    <3>1. \A i \in 1 .. Len(queue) :
             i \in 1 .. Len(queue) + Len(tables[q]) /\ i <= Len(queue)
      BY <2>2
    <3>2. ASSUME NEW i \in 1 .. Len(tables[q])
          PROVE  queue2[Len(queue) + i] = tables[q][i]
      <4>1. /\ Len(queue) + i \in 1 .. Len(queue) + Len(tables[q])
            /\ ~(Len(queue) + i <= Len(queue))
            /\ (Len(queue) + i) - Len(queue) = i
        BY <2>2
      <4>2. queue2[Len(queue) + i] = tables[q][(Len(queue) + i) - Len(queue)]
        BY <2>5, <4>1, Zenon
      <4> QED BY <4>1, <4>2, Zenon
    <3> QED BY <2>5, <3>1, <3>2, Zenon
  <2>7. Returned(queue, tables, queue2, tables2, q)
    BY <2>1, <2>4, <2>6, Zenon DEF Returned
  <2>8. Exclusive(queue2, tables2) /\ Complete(queue2, tables2)
    BY <2>1, <2>4, <2>7, ReturnKeepsPartition, Zenon
  <2> QED BY <2>1, <2>4, <2>8, Zenon DEF ReturnResult
<1> QED BY <1>0, Zenon DEF IsReturn

-----------------------------------------------------------------------------
\* The inductive invariant.  KVCoverage needs that a request without a key in
\* block_tables_ holds no blocks: allocate creates its list from nothing.
IInv ==
    /\ TypeOK
    /\ BlocksPartitioned
    /\ KVCoverage
    /\ \A q \in Req : q \notin table_keys => block_tables[q] = <<>>

(* The pool starts whole.                                                    *)
LEMMA InitIInv == Init => IInv
<1> SUFFICES ASSUME Init PROVE IInv BY Zenon
<1> USE DEF Init
<1>0. NumBlocks \in Nat BY NumBlocksAssumption, Zenon
<1>1. /\ free_blocks \in Seq(Block)
      /\ Len(free_blocks) = NumBlocks
      /\ \A i \in 1 .. NumBlocks : free_blocks[i] = i - 1
  BY <1>0 DEF Block
<1>2. TypeOK
  <2>1. <<>> \in Seq(Block) OBVIOUS
  <2>2. /\ block_tables \in [Req -> Seq(Block)]
        /\ decode_seq_lens \in [Req -> Nat]
    BY <2>1, Zenon
  <2> QED BY <1>1, <2>2, Zenon DEF TypeOK
<1>3. \A q \in Req : Len(block_tables[q]) = 0
  BY Zenon
<1>4. Exclusive(free_blocks, block_tables)
  <2>1. IsInjectiveSeq(free_blocks) BY <1>0, <1>1 DEF IsInjectiveSeq
  <2>2. \A q \in Req : 1 .. Len(block_tables[q]) = {} BY <1>3
  <2> QED BY <2>1, <2>2, Zenon DEF Exclusive, IsInjectiveSeq
<1>5. Complete(free_blocks, block_tables)
  <2> SUFFICES ASSUME NEW b \in Block
               PROVE  \E i \in 1 .. Len(free_blocks) : free_blocks[i] = b
    BY Zenon DEF Complete
  <2>1. b + 1 \in 1 .. NumBlocks /\ (b + 1) - 1 = b BY <1>0 DEF Block
  <2> QED BY <1>1, <2>1, Zenon
<1> QED BY <1>2, <1>4, <1>5, Zenon DEF IInv, BlocksPartitioned, KVCoverage

(* What a step that moves n blocks to q preserves, whatever the action.     *)
LEMMA MoveStep ==
    ASSUME IInv, NEW q \in Req, NEW n \in 0 .. Len(free_blocks)
    PROVE  IsMove(free_blocks, block_tables, free_blocks', block_tables', q, n)
           => /\ MoveResult(free_blocks, block_tables, free_blocks', block_tables', q, n)
              /\ BlocksPartitioned'
<1>1. /\ free_blocks \in Seq(Block)
      /\ block_tables \in [Req -> Seq(Block)]
      /\ Exclusive(free_blocks, block_tables)
      /\ Complete(free_blocks, block_tables)
  BY Zenon DEF IInv, TypeOK, BlocksPartitioned
<1>2. BlocksPartitioned' <=> /\ Exclusive(free_blocks', block_tables')
                            /\ Complete(free_blocks', block_tables')
  BY Zenon DEF BlocksPartitioned, Exclusive, Complete, IsInjectiveSeq
<1>3. IsMove(free_blocks, block_tables, free_blocks', block_tables', q, n)
      => MoveResult(free_blocks, block_tables, free_blocks', block_tables', q, n)
  BY <1>1, MoveProperties, Zenon
<1> QED BY <1>2, <1>3, Zenon DEF MoveResult

(* Installing the loaded KV of a request takes free blocks into its table.   *)
LEMMA InstallIInv ==
    ASSUME IInv, NEW q \in Req, NEW n \in PrefillLens, Install(q, n)
    PROVE  IInv'
<1>1. /\ ~failed /\ failed' = failed
      /\ q \notin table_keys
      /\ table_keys' = table_keys \cup {q}
      /\ len_keys' = len_keys /\ decode_seq_lens' = decode_seq_lens
      /\ Len(free_blocks) >= BlocksFor(n)
      /\ free_blocks' = Remaining(free_blocks, BlocksFor(n))
      /\ block_tables' = [block_tables EXCEPT
                            ![q] = @ \o Taken(free_blocks, BlocksFor(n))]
  BY Zenon DEF Install
<1>2. BlocksFor(n) \in 0 .. Len(free_blocks)
  <2>1. Len(free_blocks) \in Nat BY LenProperties, Zenon DEF IInv, TypeOK
  <2>2. BlocksFor(n) \in Nat BY LensAssumption, BlocksForSuccessor, Zenon
  <2> QED BY <1>1, <2>1, <2>2
<1>3. /\ free_blocks' \in Seq(Block)
      /\ block_tables' \in [Req -> Seq(Block)]
      /\ \A p \in Req \ {q} : block_tables'[p] = block_tables[p]
      /\ BlocksPartitioned'
  BY <1>1, <1>2, MoveStep, Zenon DEF IsMove, MoveResult
<1>4. TypeOK'
  BY <1>1, <1>3, Zenon DEF IInv, TypeOK
<1>5. KVCoverage'
  BY <1>1, <1>3, Zenon DEF IInv, TypeOK, KVCoverage
<1>6. \A p \in Req : p \notin table_keys' => block_tables'[p] = <<>>
  BY <1>1, <1>3, Zenon DEF IInv
<1> QED BY <1>3, <1>4, <1>5, <1>6, Zenon DEF IInv

(* A step that appends one token to a sequence and the blocks it needs      *)
(* keeps the invariant: the common part of FirstStep and DecodeStep.        *)
LEMMA TokenStepIInv ==
    ASSUME IInv, ~failed, failed' = failed,
           NEW q \in Req, NEW n \in 0 .. Len(free_blocks), NEW len \in Nat,
           IsMove(free_blocks, block_tables, free_blocks', block_tables', q, n),
           Len(block_tables[q]) + n = BlocksFor(len + 1),
           table_keys' = table_keys \cup {q},
           len_keys' = len_keys \cup {q},
           decode_seq_lens' = [decode_seq_lens EXCEPT ![q] = len + 1]
    PROVE  IInv'
<1>1. /\ free_blocks' \in Seq(Block)
      /\ block_tables' \in [Req -> Seq(Block)]
      /\ Len(block_tables'[q]) = Len(block_tables[q]) + n
      /\ \A p \in Req \ {q} : block_tables'[p] = block_tables[p]
      /\ BlocksPartitioned'
  BY MoveStep, Zenon DEF MoveResult
<1>2. TypeOK'
  <2>1. len + 1 \in Nat OBVIOUS
  <2>2. decode_seq_lens' \in [Req -> Nat] BY <2>1, Zenon DEF IInv, TypeOK
  <2>3. table_keys' \subseteq Req /\ len_keys' \subseteq Req /\ failed' \in BOOLEAN
    BY Zenon DEF IInv, TypeOK
  <2> QED BY <1>1, <2>2, <2>3, Zenon DEF TypeOK, Block
<1>3. KVCoverage'
  <2> SUFFICES ASSUME NEW p \in len_keys'
               PROVE  /\ p \in table_keys'
                      /\ decode_seq_lens'[p] > 0
                      /\ Len(block_tables'[p]) = BlocksFor(decode_seq_lens'[p])
    BY Zenon DEF KVCoverage, BlocksFor
  <2>1. CASE p = q
    BY <1>1, <2>1 DEF IInv, TypeOK
  <2>2. CASE p # q
    <3>1. p \in len_keys /\ p \in Req BY <2>2, Zenon DEF IInv, TypeOK
    <3>2. decode_seq_lens'[p] = decode_seq_lens[p] BY <2>2, <3>1, Zenon DEF IInv, TypeOK
    <3> QED BY <1>1, <2>2, <3>1, <3>2, Zenon DEF IInv, KVCoverage
  <2> QED BY <2>1, <2>2, Zenon
<1>4. \A p \in Req : p \notin table_keys' => block_tables'[p] = <<>>
  BY <1>1, Zenon DEF IInv
<1> QED BY <1>1, <1>2, <1>3, <1>4, Zenon DEF IInv

(* A step that ends in a failed assertion, having moved n blocks.           *)
LEMMA FailStepIInv ==
    ASSUME IInv, Fail,
           NEW q \in Req, NEW n \in 0 .. Len(free_blocks),
           IsMove(free_blocks, block_tables, free_blocks', block_tables', q, n),
           table_keys' = table_keys \cup {q},
           len_keys' \subseteq Req,
           decode_seq_lens' \in [Req -> Nat]
    PROVE  IInv'
<1>1. /\ free_blocks' \in Seq(Block)
      /\ block_tables' \in [Req -> Seq(Block)]
      /\ \A p \in Req \ {q} : block_tables'[p] = block_tables[p]
      /\ BlocksPartitioned'
  BY MoveStep, Zenon DEF MoveResult
<1>2. TypeOK'
  BY <1>1, Zenon DEF IInv, TypeOK, Fail
<1>3. KVCoverage'
  BY Zenon DEF KVCoverage, Fail
<1>4. \A p \in Req : p \notin table_keys' => block_tables'[p] = <<>>
  BY <1>1, Zenon DEF IInv
<1> QED BY <1>1, <1>2, <1>3, <1>4, Zenon DEF IInv

(* A failed assertion before any block moved.                               *)
LEMMA StopStepIInv ==
    ASSUME IInv, Fail, UNCHANGED <<free_blocks, table_keys, block_tables>>,
           len_keys' \subseteq Req, decode_seq_lens' \in [Req -> Nat]
    PROVE  IInv'
<1>1. TypeOK' BY Zenon DEF IInv, TypeOK, Fail, Block
<1>2. BlocksPartitioned'
  BY DEF IInv, BlocksPartitioned, Exclusive, Complete, IsInjectiveSeq
<1>3. KVCoverage' BY Zenon DEF KVCoverage, Fail
<1>4. \A p \in Req : p \notin table_keys' => block_tables'[p] = <<>>
  BY Zenon DEF IInv
<1> QED BY <1>1, <1>2, <1>3, <1>4, Zenon DEF IInv

(* Releasing a request puts its blocks back.                                 *)
LEMMA ReleaseSeqIInv ==
    ASSUME IInv, NEW q \in Req, ReleaseSeq(q)
    PROVE  IInv'
<1>1. /\ ~failed /\ failed' = failed
      /\ table_keys' = table_keys \ {q}
      /\ len_keys' = len_keys \ {q}
      /\ decode_seq_lens' = [decode_seq_lens EXCEPT ![q] = 0]
      /\ IsReturn(free_blocks, block_tables, free_blocks', block_tables', q)
  BY Zenon DEF ReleaseSeq, IsReturn
<1>2. ReturnResult(free_blocks, block_tables, free_blocks', block_tables', q)
  BY <1>1, ReturnProperties, Zenon DEF IInv, TypeOK, BlocksPartitioned
<1>3. /\ free_blocks' \in Seq(Block)
      /\ block_tables' \in [Req -> Seq(Block)]
      /\ block_tables'[q] = <<>>
      /\ \A p \in Req \ {q} : block_tables'[p] = block_tables[p]
  BY <1>2, Zenon DEF ReturnResult
<1>4. BlocksPartitioned'
  BY <1>2, Zenon DEF ReturnResult, BlocksPartitioned, Exclusive, Complete, IsInjectiveSeq
<1>5. TypeOK'
  BY <1>1, <1>3, Zenon DEF IInv, TypeOK
<1>6. KVCoverage'
  <2> SUFFICES ASSUME NEW p \in len_keys'
               PROVE  /\ p \in table_keys'
                      /\ decode_seq_lens'[p] > 0
                      /\ Len(block_tables'[p]) = BlocksFor(decode_seq_lens'[p])
    BY Zenon DEF KVCoverage, BlocksFor
  <2>1. p \in len_keys /\ p # q /\ p \in Req BY <1>1, Zenon DEF IInv, TypeOK
  <2>2. decode_seq_lens'[p] = decode_seq_lens[p] BY <1>1, <2>1, Zenon DEF IInv, TypeOK
  <2> QED BY <1>1, <1>3, <2>1, <2>2, Zenon DEF IInv, KVCoverage
<1>7. \A p \in Req : p \notin table_keys' => block_tables'[p] = <<>>
  BY <1>1, <1>3, Zenon DEF IInv
<1> QED BY <1>4, <1>5, <1>6, <1>7, Zenon DEF IInv

(* The first step of a request: its prompt if it has no blocks yet, and one  *)
(* token.                                                                    *)
LEMMA FirstStepIInv ==
    ASSUME IInv, NEW q \in Req, NEW len \in PrefillLens, FirstStep(q, len)
    PROVE  IInv'
<1> DEFINE blocks == IF q \in table_keys THEN 0 ELSE BlocksFor(len)
           add    == IF NeedsBlock(len) THEN 1 ELSE 0
<1>1. /\ len \in Nat /\ Len(free_blocks) \in Nat /\ blocks \in Nat
      /\ Len(block_tables[q]) \in Nat
  BY LensAssumption, BlocksForSuccessor, LenProperties, Zenon DEF IInv, TypeOK
<1>2. /\ ~failed
      /\ q \notin len_keys
      /\ q \in table_keys => len = BlockSize * Len(block_tables[q])
      /\ len_keys' = len_keys \cup {q}
  BY Zenon DEF FirstStep
<1>3. len_keys' \subseteq Req /\ [decode_seq_lens EXCEPT ![q] = len] \in [Req -> Nat]
  BY <1>1, <1>2, Zenon DEF IInv, TypeOK
<1>4. CASE /\ Fail
           /\ decode_seq_lens' = [decode_seq_lens EXCEPT ![q] = len]
           /\ UNCHANGED <<free_blocks, table_keys, block_tables>>
  BY <1>3, <1>4, StopStepIInv, Zenon
<1>5. CASE /\ Len(free_blocks) >= blocks
           /\ Fail
           /\ IsMove(free_blocks, block_tables, free_blocks', block_tables', q, blocks)
           /\ table_keys' = table_keys \cup {q}
           /\ decode_seq_lens' = [decode_seq_lens EXCEPT ![q] = len]
  <2>1. blocks \in 0 .. Len(free_blocks) BY <1>1, <1>5
  <2> HIDE DEF blocks
  <2> QED BY <1>3, <1>5, <2>1, FailStepIInv, Zenon
<1>6. CASE /\ Len(free_blocks) >= blocks
           /\ NeedsBlock(len) => AppendAssert(Len(free_blocks) - blocks)
           /\ IsMove(free_blocks, block_tables, free_blocks', block_tables', q, blocks + add)
           /\ table_keys' = table_keys \cup {q}
           /\ decode_seq_lens' = [decode_seq_lens EXCEPT ![q] = len + 1]
           /\ failed' = failed
  <2>1. Len(block_tables[q]) + blocks = BlocksFor(len)
    <3>1. CASE q \in table_keys BY <1>1, <1>2, <3>1, BlocksForMultiple
    <3>2. CASE q \notin table_keys
      <4>1. Len(block_tables[q]) = 0 BY <3>2 DEF IInv
      <4> QED BY <1>1, <3>2, <4>1
    <3> QED BY <3>1, <3>2, Zenon
  <2>2. BlocksFor(len) + add = BlocksFor(len + 1) /\ BlocksFor(len) \in Nat
    BY <1>1, BlocksForSuccessor, Zenon
  <2>3. blocks + add \in 0 .. Len(free_blocks)
    BY <1>1, <1>6 DEF AppendAssert
  <2> HIDE DEF blocks
  <2>4. Len(block_tables[q]) + (blocks + add) = BlocksFor(len + 1)
    <3>1. add \in Nat BY Zenon
    <3> HIDE DEF add
    <3>2. Len(block_tables[q]) + (blocks + add) = (Len(block_tables[q]) + blocks) + add
      <4>1. \A x, y, z \in Nat : x + (y + z) = (x + y) + z OBVIOUS
      <4> QED BY <1>1, <3>1, <4>1, Zenon
    <3> QED BY <2>1, <2>2, <3>2, Zenon
  <2> HIDE DEF add
  <2>5. PICK n \in 0 .. Len(free_blocks) : n = blocks + add BY <2>3, Zenon
  <2> QED BY <1>1, <1>2, <1>6, <2>4, <2>5, TokenStepIInv, Zenon
<1> QED BY <1>4, <1>5, <1>6, Zenon DEF FirstStep, IsMove

(* A decoding step appends at most one block.                                *)
LEMMA DecodeStepIInv ==
    ASSUME IInv, NEW q \in Req, DecodeStep(q)
    PROVE  IInv'
<1> DEFINE len == decode_seq_lens[q]
           add == IF NeedsBlock(len) THEN 1 ELSE 0
<1>1. /\ len \in Nat /\ Len(free_blocks) \in Nat
      /\ len_keys \subseteq Req /\ decode_seq_lens \in [Req -> Nat]
  BY LenProperties, Zenon DEF IInv, TypeOK
<1>2. /\ ~failed /\ q \in len_keys
      /\ table_keys' = table_keys /\ len_keys' = len_keys
  BY Zenon DEF DecodeStep
<1>3. q \in table_keys /\ Len(block_tables[q]) = BlocksFor(len)
  BY <1>2, Zenon DEF IInv, KVCoverage
<1>4. CASE Fail /\ UNCHANGED <<free_blocks, block_tables, decode_seq_lens>>
  BY <1>1, <1>2, <1>4, StopStepIInv, Zenon
<1>5. CASE /\ NeedsBlock(len) => AppendAssert(Len(free_blocks))
           /\ IsMove(free_blocks, block_tables, free_blocks', block_tables', q, add)
           /\ decode_seq_lens' = [decode_seq_lens EXCEPT ![q] = len + 1]
           /\ failed' = failed
  <2>1. BlocksFor(len) + add = BlocksFor(len + 1) BY <1>1, BlocksForSuccessor, Zenon
  <2>2. add \in 0 .. Len(free_blocks) BY <1>1, <1>5 DEF AppendAssert
  <2>3. table_keys' = table_keys \cup {q} /\ len_keys' = len_keys \cup {q}
    BY <1>2, <1>3, Zenon
  <2> HIDE DEF add
  <2> QED BY <1>1, <1>2, <1>3, <1>5, <2>1, <2>2, <2>3, TokenStepIInv, Zenon
<1> QED BY <1>4, <1>5, Zenon DEF DecodeStep, IsMove

(* Every step of the block manager.                                          *)
LEMMA NextIInv == IInv /\ [Next]_vars => IInv'
<1> SUFFICES ASSUME IInv, [Next]_vars PROVE IInv' BY Zenon
<1>1. ASSUME NEW q \in Req, NEW n \in PrefillLens, Install(q, n) PROVE IInv'
  BY <1>1, InstallIInv, Zenon
<1>2. ASSUME NEW q \in Req, NEW len \in PrefillLens, FirstStep(q, len) PROVE IInv'
  BY <1>2, FirstStepIInv, Zenon
<1>3. ASSUME NEW q \in Req, DecodeStep(q) PROVE IInv'
  BY <1>3, DecodeStepIInv, Zenon
<1>4. ASSUME NEW q \in Req, ReleaseSeq(q) PROVE IInv'
  BY <1>4, ReleaseSeqIInv, Zenon
<1>5. CASE UNCHANGED vars
  BY <1>5 DEF vars, IInv, TypeOK, BlocksPartitioned, Exclusive, Complete,
              IsInjectiveSeq, KVCoverage
<1> QED BY <1>1, <1>2, <1>3, <1>4, <1>5, Zenon DEF Next

(* The inductive invariant holds in every reachable state.                   *)
LEMMA SpecIInv == Spec => []IInv
BY InitIInv, NextIInv, PTL DEF Spec

-----------------------------------------------------------------------------
(* The variables keep their types in every reachable state, for every pool  *)
(* size, block size and set of requests.                                    *)
THEOREM TypeCorrect == Spec => []TypeOK
BY SpecIInv, PTL DEF IInv

(* No interleaving of allocate, append_tokens and release leaks a block or  *)
(* gives it to two sequences.                                               *)
THEOREM PartitionAlways == Spec => []BlocksPartitioned
BY SpecIInv, PTL DEF IInv

(* Every cached sequence holds exactly ceil(len / BlockSize) blocks.        *)
THEOREM CoverageAlways == Spec => []KVCoverage
BY SpecIInv, PTL DEF IInv

(* The slot_mapping of prepare_block_table is injective on the tokens in    *)
(* the cache: blocks are exclusive and every position lies inside the list. *)
LEMMA IInvNoSlotShared == IInv => NoSlotShared
<1> SUFFICES ASSUME IInv, ~failed,
                    NEW q \in len_keys, NEW p \in len_keys,
                    NEW i \in 0 .. decode_seq_lens[q] - 1,
                    NEW j \in 0 .. decode_seq_lens[p] - 1,
                    Slot(block_tables[q], i) = Slot(block_tables[p], j)
             PROVE  q = p /\ i = j
  BY Zenon DEF NoSlotShared
<1>1. ASSUME NEW r \in len_keys, NEW k \in 0 .. decode_seq_lens[r] - 1
      PROVE  /\ r \in Req /\ k \in Nat
             /\ (k \div BlockSize) + 1 \in 1 .. Len(block_tables[r])
             /\ block_tables[r][(k \div BlockSize) + 1] \in Nat
             /\ k % BlockSize \in 0 .. BlockSize - 1
  <2>1. r \in Req /\ decode_seq_lens[r] \in Nat /\ decode_seq_lens[r] > 0
    BY Zenon DEF IInv, TypeOK, KVCoverage
  <2> DEFINE last == decode_seq_lens[r] - 1
  <2>2. k \in Nat /\ last \in Nat /\ k <= last BY <2>1
  <2>3. k \div BlockSize <= last \div BlockSize /\ k \div BlockSize \in Nat
        /\ last \div BlockSize \in Nat
    BY <2>2, DivMonotone, DivMod, Zenon
  <2>4. Len(block_tables[r]) = (last \div BlockSize) + 1
    BY <2>1, Zenon DEF IInv, KVCoverage, BlocksFor
  <2>5. (k \div BlockSize) + 1 \in 1 .. Len(block_tables[r])
    BY <2>3, <2>4
  <2>6. block_tables[r] \in Seq(Block) BY <2>1, Zenon DEF IInv, TypeOK
  <2>7. block_tables[r][(k \div BlockSize) + 1] \in Block
    BY <2>5, <2>6, ElementOfSeq, Zenon
  <2>8. Block \subseteq Nat BY NumBlocksAssumption DEF Block
  <2> QED BY <2>1, <2>2, <2>5, <2>7, <2>8, DivMod, Zenon
<1> DEFINE x == (i \div BlockSize) + 1
           y == (j \div BlockSize) + 1
<1>2. block_tables[q][x] * BlockSize + (i % BlockSize)
         = block_tables[p][y] * BlockSize + (j % BlockSize)
  BY Zenon DEF Slot
<1>3. /\ q \in Req /\ i \in Nat /\ x \in 1 .. Len(block_tables[q])
      /\ block_tables[q][x] \in Nat /\ i % BlockSize \in 0 .. BlockSize - 1
  BY <1>1, Zenon
<1>4. /\ p \in Req /\ j \in Nat /\ y \in 1 .. Len(block_tables[p])
      /\ block_tables[p][y] \in Nat /\ j % BlockSize \in 0 .. BlockSize - 1
  BY <1>1, Zenon
<1>5. block_tables[q][x] = block_tables[p][y] /\ i % BlockSize = j % BlockSize
  <2> HIDE DEF x, y
  <2> QED BY <1>2, <1>3, <1>4, DivModUnique, SMTT(30)
<1>6. q = p /\ x = y
  <2> HIDE DEF x, y
  <2>1. q = p BY <1>3, <1>4, <1>5 DEF IInv, BlocksPartitioned, Exclusive
  <2> QED BY <1>3, <1>4, <1>5, <2>1, Zenon DEF IInv, BlocksPartitioned, Exclusive, IsInjectiveSeq
<1>7. i \div BlockSize = j \div BlockSize
  <2>1. PICK a \in Nat : a = i \div BlockSize BY <1>3, DivMod, Zenon
  <2>2. PICK b \in Nat : b = j \div BlockSize BY <1>4, DivMod, Zenon
  <2>3. a + 1 = b + 1 BY <1>6, <2>1, <2>2, Zenon
  <2>4. a = b
    <3> HIDE DEF x, y
    <3> QED BY <2>3
  <2> QED BY <2>1, <2>2, <2>4, Zenon
<1>8. i = j
  BY <1>3, <1>4, <1>5, <1>7, DivMod, Zenon
<1> QED BY <1>6, <1>8, Zenon

(* No two cached tokens share a physical KV slot.                           *)
THEOREM SlotsExclusive == Spec => []NoSlotShared
BY SpecIInv, IInvNoSlotShared, PTL

-----------------------------------------------------------------------------
\* The body of KVStable for one request.
Grows(q) ==
    /\ Len(block_tables[q]) <= Len(block_tables'[q])
    /\ \A i \in 1 .. Len(block_tables[q]) :
          block_tables'[q][i] = block_tables[q][i]

(* A move only adds at the end of one list.                                 *)
LEMMA MoveGrows ==
    ASSUME IInv, NEW r \in Req, NEW n \in 0 .. Len(free_blocks),
           IsMove(free_blocks, block_tables, free_blocks', block_tables', r, n),
           NEW q \in Req
    PROVE  Grows(q)
<1>1. MoveResult(free_blocks, block_tables, free_blocks', block_tables', r, n)
  BY MoveStep, Zenon
<1>2. Len(block_tables[q]) \in Nat /\ n \in Nat
  BY LenProperties DEF IInv, TypeOK
<1>3. CASE q = r
  <2>1. Len(block_tables'[q]) = Len(block_tables[q]) + n BY <1>1, <1>3, Zenon DEF MoveResult
  <2>2. \A i \in 1 .. Len(block_tables[q]) : block_tables'[q][i] = block_tables[q][i]
    BY <1>1, <1>3, Zenon DEF MoveResult
  <2>3. Len(block_tables[q]) <= Len(block_tables'[q]) BY <1>2, <2>1
  <2> QED BY <2>2, <2>3, Zenon DEF Grows
<1>4. CASE q # r
  <2>1. block_tables'[q] = block_tables[q] BY <1>1, <1>4, Zenon DEF MoveResult
  <2> QED BY <1>2, <2>1 DEF Grows
<1> QED BY <1>3, <1>4, Zenon

(* A table that did not change keeps its blocks.                             *)
LEMMA SameGrows ==
    ASSUME IInv, NEW q \in Req, block_tables'[q] = block_tables[q]
    PROVE  Grows(q)
<1>1. Len(block_tables[q]) \in Nat BY LenProperties, Zenon DEF IInv, TypeOK
<1> QED BY <1>1 DEF Grows

(* No step moves a block in the table of a request that stays.               *)
LEMMA NextStable ==
    ASSUME IInv, Next, NEW q \in len_keys, q \in len_keys'
    PROVE  Grows(q)
<1>0. q \in Req /\ Len(free_blocks) \in Nat
  BY LenProperties, Zenon DEF IInv, TypeOK
<1>1. ASSUME NEW r \in Req, NEW n \in PrefillLens, Install(r, n) PROVE Grows(q)
  <2>1. BlocksFor(n) \in Nat BY LensAssumption, BlocksForSuccessor, Zenon
  <2>2. BlocksFor(n) \in 0 .. Len(free_blocks) BY <1>0, <1>1, <2>1 DEF Install
  <2>3. IsMove(free_blocks, block_tables, free_blocks', block_tables', r, BlocksFor(n))
    BY <1>1, Zenon DEF Install, IsMove
  <2> QED BY <1>0, <2>2, <2>3, MoveGrows, Zenon
<1>2. ASSUME NEW r \in Req, NEW len \in PrefillLens, FirstStep(r, len) PROVE Grows(q)
  <2>1. q # r BY <1>2, Zenon DEF FirstStep
  <2>2. block_tables'[q] = block_tables[q]
    BY <1>0, <1>2, <2>1, Zenon DEF FirstStep, IInv, TypeOK
  <2> QED BY <1>0, <2>2, SameGrows, Zenon
<1>3. ASSUME NEW r \in Req, DecodeStep(r) PROVE Grows(q)
  <2> DEFINE add == IF NeedsBlock(decode_seq_lens[r]) THEN 1 ELSE 0
  <2>1. CASE block_tables' = block_tables BY <1>0, <2>1, SameGrows, Zenon
  <2>2. CASE /\ NeedsBlock(decode_seq_lens[r]) => AppendAssert(Len(free_blocks))
             /\ IsMove(free_blocks, block_tables, free_blocks', block_tables', r, add)
    <3>1. add \in 0 .. Len(free_blocks) BY <1>0, <2>2 DEF AppendAssert
    <3> HIDE DEF add
    <3> QED BY <1>0, <2>2, <3>1, MoveGrows, Zenon
  <2> QED BY <1>3, <2>1, <2>2, Zenon DEF DecodeStep, IsMove
<1>4. ASSUME NEW r \in Req, ReleaseSeq(r) PROVE Grows(q)
  <2>1. q # r BY <1>4, Zenon DEF ReleaseSeq
  <2>2. block_tables'[q] = block_tables[q]
    BY <1>0, <1>4, <2>1, Zenon DEF ReleaseSeq, IInv, TypeOK
  <2> QED BY <1>0, <2>2, SameGrows, Zenon
<1> QED BY <1>1, <1>2, <1>3, <1>4, Zenon DEF Next

(* A cached token keeps its physical slot as long as its sequence is cached: *)
(* append_tokens only ever adds at the end of the block list.                *)
THEOREM SlotsStable == Spec => KVStable
<1>1. IInv /\ [Next]_vars =>
        [\A q \in len_keys \cap len_keys' :
            /\ Len(block_tables[q]) <= Len(block_tables'[q])
            /\ \A i \in 1 .. Len(block_tables[q]) :
                  block_tables'[q][i] = block_tables[q][i]]_vars
  BY NextStable, Zenon DEF Grows
<1> QED BY <1>1, SpecIInv, PTL DEF Spec, KVStable

=============================================================================
