--------------------------- MODULE KVLoaderProofs ---------------------------
(***************************************************************************)
(* A request is admitted only with its own prompt KV, for any number of     *)
(* requests and loader threads.                                             *)
(*                                                                          *)
(* The argument: a KVLoadDone record that is not drained yet stands for its *)
(* worker thread waiting for released, and no two such records have the     *)
(* same worker.  So the staging buffer still holds what the fetch left in   *)
(* it when _drain_kv_loads copies it.                                       *)
(***************************************************************************)
EXTENDS KVLoader, KVBlocksProofs, SequenceTheorems, TLAPS

WorkerState == [pc : {"get", "fetch", "wait", "dead"}, req : Req \cup {NoReq}, attempt : Int]

\* The worker of record d waits, and its buffer holds what d says.
Backed(d) ==
    /\ worker[d.worker].pc = "wait"
    /\ d.ok /\ Pages(d.req) > 0 => staging[d.worker] = [owner |-> d.req, whole |-> TRUE]

AllBacked(s) == \A i \in 1 .. Len(s) : Backed(s[i])
Apart(s, t) == \A i \in 1 .. Len(s), j \in 1 .. Len(t) : s[i].worker # t[j].worker
Single(s) == \A i, j \in 1 .. Len(s) : i # j => s[i].worker # s[j].worker

Types ==
    /\ jobs \in Seq(Req)
    /\ worker \in [Worker -> WorkerState]
    /\ \A w \in Worker : worker[w].pc = "fetch" => worker[w].req \in Req
    /\ staging \in [Worker -> Staged]
    /\ done \in Seq(DoneRecord) /\ polled \in Seq(DoneRecord)
    /\ kv \in [Req -> Staged] /\ admitted \subseteq Req

LoadIInv ==
    /\ Types
    /\ AllBacked(done) /\ AllBacked(polled)
    /\ Single(done) /\ Single(polled) /\ Apart(done, polled)
    /\ AdmittedWithOwnKV

\* Where a request waits.
Has(s, q) == \E i \in 1 .. Len(s) : s[i] = q
HasReq(s, q) == \E i \in 1 .. Len(s) : s[i].req = q
AtWork(w, q) == worker[w].req = q /\ worker[w].pc \in {"fetch", "dead"}
AtWorker(q) == \E w \in Worker : AtWork(w, q)

\* It is there once.
Distinct(s) == \A i, j \in 1 .. Len(s) : i # j => s[i] # s[j]
DistinctReq(s) == \A i, j \in 1 .. Len(s) : i # j => s[i].req # s[j].req
DistinctWork == \A v, w \in Worker : \A q \in Req : AtWork(v, q) /\ AtWork(w, q) => v = w

Somewhere(q) ==
    q \in fresh \/ Has(jobs, q) \/ AtWorker(q) \/ HasReq(done, q) \/ HasReq(polled, q)
    \/ q \in admitted \/ q \in rejected

\* And nowhere else.
NotTwice(q) ==
    /\ q \in fresh => ~Has(jobs, q) /\ ~AtWorker(q) /\ ~HasReq(done, q) /\ ~HasReq(polled, q)
                      /\ q \notin admitted /\ q \notin rejected
    /\ Has(jobs, q) => ~AtWorker(q) /\ ~HasReq(done, q) /\ ~HasReq(polled, q)
                       /\ q \notin admitted /\ q \notin rejected
    /\ AtWorker(q) => ~HasReq(done, q) /\ ~HasReq(polled, q) /\ q \notin admitted /\ q \notin rejected
    /\ HasReq(done, q) => ~HasReq(polled, q) /\ q \notin admitted /\ q \notin rejected
    /\ HasReq(polled, q) => q \notin admitted /\ q \notin rejected
    /\ q \in admitted => q \notin rejected

PlaceIInv ==
    /\ Distinct(jobs) /\ DistinctReq(done) /\ DistinctReq(polled) /\ DistinctWork
    /\ \A q \in Req : Somewhere(q) /\ NotTwice(q)

-----------------------------------------------------------------------------
(* At first there is no record.                                              *)
LEMMA LoadInit == Init => LoadIInv
<1> SUFFICES ASSUME Init PROVE LoadIInv
  BY Zenon
<1>1. Nothing \in Staged /\ Idle \in WorkerState /\ Idle.pc = "get"
  BY DEF Nothing, Staged, Idle, WorkerState
<1>2. Types
  BY <1>1 DEF Init, Types
<1>3. AllBacked(done) /\ AllBacked(polled) /\ Single(done) /\ Single(polled) /\ Apart(done, polled)
  BY DEF Init, AllBacked, Single, Apart
<1> QED
  BY <1>2, <1>3, Zenon DEF Init, LoadIInv, AdmittedWithOwnKV

(* Steps that change neither the records nor what stands behind them.        *)
LEMMA RecordsFrame ==
    ASSUME LoadIInv, Types', UNCHANGED <<done, polled, kv, admitted>>,
           \A w \in Worker : worker[w].pc = "wait" =>
               worker'[w] = worker[w] /\ staging'[w] = staging[w]
    PROVE  LoadIInv'
<1>1. ASSUME NEW s \in Seq(DoneRecord), AllBacked(s) PROVE \A i \in 1 .. Len(s) : Backed(s[i])'
  <2> SUFFICES ASSUME NEW i \in 1 .. Len(s) PROVE Backed(s[i])'
    BY Zenon
  <2>1. Backed(s[i]) /\ s[i] \in DoneRecord
    BY <1>1 DEF AllBacked
  <2>2. s[i].worker \in Worker
    BY <2>1, Zenon DEF DoneRecord
  <2> QED
    BY <2>1, <2>2, Zenon DEF Backed
<1>2. AllBacked(done)' /\ AllBacked(polled)'
  BY <1>1, Zenon DEF LoadIInv, Types, AllBacked
<1> QED
  BY <1>2 DEF LoadIInv, Single, Apart, AdmittedWithOwnKV

(* A worker that reports had no record, so it has one now.                   *)
LEMMA ReportKeeps ==
    ASSUME LoadIInv, NEW w \in Worker, NEW q \in Req, NEW ok \in BOOLEAN,
           Report(w, q, ok), worker[w].pc # "wait",
           jobs' \in Seq(Req), UNCHANGED <<polled, kv, admitted>>,
           staging' \in [Worker -> Staged],
           \A v \in Worker \ {w} : staging'[v] = staging[v],
           ok /\ Pages(q) > 0 => staging'[w] = [owner |-> q, whole |-> TRUE]
    PROVE  LoadIInv'
<1> DEFINE r == [req |-> q, worker |-> w, ok |-> ok]
<1>1. done' = Append(done, r)
      /\ worker' = [worker EXCEPT ![w] = [pc |-> "wait", req |-> q, attempt |-> 0]]
  BY Zenon DEF Report
<1>2. r \in DoneRecord /\ r.worker = w /\ r.req = q /\ r.ok = ok
  BY Zenon DEF DoneRecord
<1>t. done \in Seq(DoneRecord) /\ polled \in Seq(DoneRecord) /\ worker \in [Worker -> WorkerState]
  BY Zenon DEF LoadIInv, Types
<1>3. /\ worker' \in [Worker -> WorkerState] /\ worker'[w].pc = "wait"
      /\ \A v \in Worker \ {w} : worker'[v] = worker[v]
  <2>1. [pc |-> "wait", req |-> q, attempt |-> 0] \in WorkerState
    BY DEF WorkerState
  <2> QED
    BY <2>1, <1>1, <1>t, Zenon
<1> HIDE DEF r
<1>4. /\ done' \in Seq(DoneRecord) /\ Len(done) \in Nat /\ Len(done') = Len(done) + 1
      /\ \A i \in 1 .. Len(done) : done'[i] = done[i]
      /\ done'[Len(done) + 1] = r
  BY <1>1, <1>2, <1>t, AppendProperties
<1>5. Types'
  BY <1>3, <1>4, Zenon DEF LoadIInv, Types
<1>6. ASSUME NEW d \in DoneRecord, Backed(d) PROVE d.worker # w /\ Backed(d)'
  <2>1. d.worker \in Worker /\ d.worker # w
    BY <1>6, Zenon DEF DoneRecord, Backed
  <2> QED
    BY <1>6, <2>1, <1>3, Zenon DEF Backed
<1>7. Backed(r)'
  BY <1>2, <1>3, Zenon DEF Backed
<1>8. /\ \A i \in 1 .. Len(done) : done[i] \in DoneRecord /\ Backed(done[i])
      /\ \A i \in 1 .. Len(polled) : polled[i] \in DoneRecord /\ Backed(polled[i])
  BY <1>t DEF LoadIInv, AllBacked
<1>9. AllBacked(polled)'
  BY <1>6, <1>8, Zenon DEF AllBacked
<1>10. ASSUME NEW i \in 1 .. Len(done')
       PROVE  i \in 1 .. Len(done) \/ (i = Len(done) + 1 /\ i \notin 1 .. Len(done))
  BY <1>4
<1>11. AllBacked(done)'
  BY <1>4, <1>6, <1>7, <1>8, <1>10, Zenon DEF AllBacked
<1>12. Single(done)'
  BY <1>2, <1>4, <1>6, <1>8, <1>10 DEF Single, LoadIInv
<1>13. Apart(done, polled)'
  BY <1>2, <1>4, <1>6, <1>8, <1>10 DEF Apart, LoadIInv
<1> QED
  BY <1>5, <1>9, <1>11, <1>12, <1>13 DEF LoadIInv, Single, AdmittedWithOwnKV

(* poll moves records from one queue to the other.                           *)
LEMMA PollKeeps ==
    ASSUME LoadIInv, Poll
    PROVE  LoadIInv'
<1> DEFINE n == IF Len(done) < MaxItems THEN Len(done) ELSE MaxItems
<1>1. /\ polled' = SubSeq(done, 1, n) /\ done' = SubSeq(done, n + 1, Len(done))
      /\ UNCHANGED <<jobs, worker, staging, kv, admitted>>
  BY Zenon DEF Poll
<1>t. done \in Seq(DoneRecord) /\ Len(done) \in Nat
  BY DEF LoadIInv, Types
<1>2. n \in 0 .. Len(done)
  BY <1>t, LoaderAssumption
<1> HIDE DEF n
<1>3. /\ polled' \in Seq(DoneRecord) /\ Len(polled') = n
      /\ \A i \in 1 .. n : polled'[i] = done[i]
  BY <1>1, <1>2, <1>t
<1>4. /\ done' \in Seq(DoneRecord) /\ Len(done') = Len(done) - n
      /\ \A i \in 1 .. Len(done) - n : done'[i] = done[n + i]
  BY <1>1, <1>2, <1>t
<1>5. Types'
  BY <1>1, <1>3, <1>4, Zenon DEF LoadIInv, Types
<1>6. ASSUME NEW i \in 1 .. Len(polled')
      PROVE  i \in 1 .. Len(done) /\ polled'[i] = done[i] /\ i <= n
  BY <1>2, <1>3, <1>t
<1>7. ASSUME NEW i \in 1 .. Len(done')
      PROVE  n + i \in 1 .. Len(done) /\ done'[i] = done[n + i] /\ n + i > n
  BY <1>2, <1>4, <1>t
<1>8. \A d : Backed(d)' = Backed(d)
  BY <1>1, Zenon DEF Backed
<1>9. AllBacked(polled)'
  BY <1>6, <1>8, Zenon DEF AllBacked, LoadIInv
<1>10. AllBacked(done)'
  BY <1>7, <1>8, Zenon DEF AllBacked, LoadIInv
<1>11. Single(polled)'
  BY <1>6, Zenon DEF Single, LoadIInv
<1>12. Single(done)'
  <2> SUFFICES ASSUME NEW i \in 1 .. Len(done'), NEW j \in 1 .. Len(done'), i # j
               PROVE  done'[i].worker # done'[j].worker
    BY Zenon DEF Single
  <2>1. n + i # n + j
    BY <1>2, <1>4, <1>t
  <2> QED
    BY <2>1, <1>7, Zenon DEF Single, LoadIInv
<1>13. Apart(done, polled)'
  <2> SUFFICES ASSUME NEW i \in 1 .. Len(done'), NEW j \in 1 .. Len(polled')
               PROVE  done'[i].worker # polled'[j].worker
    BY Zenon DEF Apart
  <2>1. n + i # j
    BY <1>2, <1>3, <1>4, <1>t
  <2> QED
    BY <2>1, <1>6, <1>7 DEF Single, LoadIInv
<1> QED
  BY <1>1, <1>5, <1>9, <1>10, <1>11, <1>12, <1>13, Zenon DEF LoadIInv, AdmittedWithOwnKV

Outcome == {"none", "not fetched", "no room", "copy raised", "wrong length", "admitted"}

(* The outcomes of a drained record: allocate has taken blocks exactly for an *)
(* admission and for the two rejections that come after it.                  *)
LEMMA DrainResult ==
    ASSUME DrainOne
    PROVE  \E copied \in BOOLEAN, result \in Outcome :
              LET d == Head(polled)
              IN  /\ polled # <<>> /\ polled' = Tail(polled) /\ Install(d, copied) /\ Released(d)
                  /\ outcome' = [outcome EXCEPT ![d.req] = result]
                  /\ UNCHANGED <<fresh, jobs, staging, done, finished>>
                  /\ Takes(d) => result \in {"copy raised", "wrong length", "admitted"}
                  /\ ~Takes(d) => result \notin {"copy raised", "wrong length", "admitted"}
                  /\ \/ /\ result = "admitted" /\ copied
                        /\ admitted' = admitted \cup {d.req} /\ rejected' = rejected
                     \/ /\ result # "admitted"
                        /\ admitted' = admitted /\ rejected' = rejected \cup {d.req}
<1>1. PICK copied \in BOOLEAN : Drain(copied)
  BY Zenon DEF DrainOne
<1> DEFINE d == Head(polled)
           q == d.req
           result == CASE ~d.ok                             -> "not fetched"
                       [] d.ok /\ ~Takes(d)                 -> "no room"
                       [] Takes(d) /\ ~copied               -> "copy raised"
                       [] Takes(d) /\ copied /\ ~Aligned(q) -> "wrong length"
                       [] OTHER                             -> "admitted"
<1>2. /\ polled # <<>> /\ polled' = Tail(polled) /\ Install(d, copied) /\ Released(d)
      /\ outcome' = [outcome EXCEPT ![q] = result]
      /\ admitted' = (IF result = "admitted" THEN admitted \cup {q} ELSE admitted)
      /\ rejected' = (IF result = "admitted" THEN rejected ELSE rejected \cup {q})
      /\ UNCHANGED <<fresh, jobs, staging, done, finished>>
  BY <1>1, Zenon DEF Drain
<1>3. Takes(d) => d.ok
  BY Zenon DEF Takes
<1> DEFINE tk == Takes(d)
           okd == d.ok
           al == Aligned(q)
<1>4. /\ tk => result \in {"copy raised", "wrong length", "admitted"}
      /\ ~tk => result \in {"not fetched", "no room"}
      /\ result = "admitted" => copied
      /\ result \in Outcome
  <2> SUFFICES ASSUME tk => okd
               PROVE  /\ tk => result \in {"copy raised", "wrong length", "admitted"}
                      /\ ~tk => result \in {"not fetched", "no room"}
                      /\ result = "admitted" => copied
                      /\ result \in Outcome
    BY <1>3, Zenon
  <2>1. result = CASE ~okd -> "not fetched" [] okd /\ ~tk -> "no room" [] tk /\ ~copied -> "copy raised"
                   [] tk /\ copied /\ ~al -> "wrong length" [] OTHER -> "admitted"
    OBVIOUS
  <2> HIDE DEF tk, okd, al, result
  <2>2. CASE ~okd
    <3>1. result = "not fetched"
      BY <2>1, <2>2, Zenon
    <3> QED
      BY <3>1, <2>2, Zenon DEF Outcome
  <2>3. CASE okd /\ ~tk
    <3>1. result = "no room"
      BY <2>1, <2>3, Zenon
    <3> QED
      BY <3>1, <2>3, Zenon DEF Outcome
  <2>4. CASE tk /\ ~copied
    <3>1. result = "copy raised"
      BY <2>1, <2>4, Zenon
    <3> QED
      BY <3>1, <2>4, Zenon DEF Outcome
  <2>5. CASE tk /\ copied
    <3>1. result = "wrong length" \/ result = "admitted"
      BY <2>1, <2>5, Zenon
    <3> QED
      BY <3>1, <2>5, Zenon DEF Outcome
  <2> QED
    BY <2>2, <2>3, <2>4, <2>5, Zenon
<1> HIDE DEF result
<1>5. "not fetched" # "admitted" /\ "no room" # "admitted" /\ {"not fetched", "no room"} \cap {"copy raised", "wrong length", "admitted"} = {}
  OBVIOUS
<1> QED
  BY <1>2, <1>4, <1>5, Zenon

(* One record is drained: its worker is released, the others still wait; a   *)
(* request whose pages were copied got its own.                              *)
LEMMA DrainKeeps ==
    ASSUME LoadIInv, PlaceIInv, DrainOne
    PROVE  LoadIInv'
<1> DEFINE d == Head(polled)
           q == d.req
<1>t. /\ polled \in Seq(DoneRecord) /\ done \in Seq(DoneRecord)
      /\ worker \in [Worker -> WorkerState] /\ staging \in [Worker -> Staged] /\ kv \in [Req -> Staged]
  BY Zenon DEF LoadIInv, Types
<1>0. PICK copied \in BOOLEAN, result \in Outcome :
          /\ polled # <<>> /\ polled' = Tail(polled) /\ Install(d, copied) /\ Released(d)
          /\ UNCHANGED <<fresh, jobs, staging, done, finished>>
          /\ ~Takes(d) => result # "admitted"
          /\ \/ result = "admitted" /\ copied /\ admitted' = admitted \cup {q}
             \/ result # "admitted" /\ admitted' = admitted
  BY DrainResult, Zenon
<1>1. /\ polled # <<>> /\ polled' = Tail(polled) /\ Install(d, copied) /\ Released(d)
      /\ admitted' = admitted \/ (admitted' = admitted \cup {q} /\ Takes(d) /\ copied)
      /\ UNCHANGED <<jobs, staging, done>>
  BY <1>0, Zenon
<1>2. /\ Len(polled) \in Nat \ {0} /\ d = polled[1] /\ d \in DoneRecord
      /\ polled' \in Seq(DoneRecord) /\ Len(polled') = Len(polled) - 1
      /\ \A i \in 1 .. Len(polled') : polled'[i] = polled[i + 1]
  BY <1>1, <1>t, EmptySeq, HeadTailProperties
<1>3. q \in Req /\ d.worker \in Worker /\ d.ok \in BOOLEAN
  BY <1>2, Zenon DEF DoneRecord
<1>4. Backed(d)
  BY <1>2 DEF LoadIInv, AllBacked
<1> HIDE DEF d, q
<1>5. /\ worker' \in [Worker -> WorkerState]
      /\ \A w \in Worker \ {d.worker} : worker'[w] = worker[w]
      /\ \A w \in Worker : worker'[w].pc = "fetch" => worker'[w] = worker[w]
  <2>1. Idle \in WorkerState /\ Idle.pc = "get"
    BY DEF Idle, WorkerState
  <2>2. worker' = worker \/ worker' = [worker EXCEPT ![d.worker] = Idle]
    BY <1>1, Zenon DEF Released
  <2>3. CASE worker' = worker
    BY <2>3, <1>t, Zenon
  <2>4. CASE worker' = [worker EXCEPT ![d.worker] = Idle]
    BY <2>1, <2>4, <1>t, <1>3, Zenon
  <2> QED
    BY <2>2, <2>3, <2>4, Zenon
<1>6. /\ kv' \in [Req -> Staged]
      /\ \A r \in Req \ {q} : kv'[r] = kv[r]
      /\ Takes(d) /\ copied /\ Pages(q) > 0 => kv'[q] = [owner |-> q, whole |-> TRUE]
  <2> DEFINE new == IF copied THEN staging[d.worker] ELSE [staging[d.worker] EXCEPT !.whole = FALSE]
  <2>1. kv' = IF Takes(d) /\ Pages(q) > 0 THEN [kv EXCEPT ![q] = new] ELSE kv
    BY <1>1, Zenon DEF Install, q
  <2>2. Takes(d) /\ Pages(q) > 0 => staging[d.worker] = [owner |-> q, whole |-> TRUE]
    BY <1>4, Zenon DEF Backed, Takes, q
  <2>3. staging[d.worker] \in Staged
    BY <1>3, <1>t, Zenon
  <2>4. new \in Staged
    BY <2>3 DEF Staged
  <2>5. copied /\ staging[d.worker] = [owner |-> q, whole |-> TRUE] => new = [owner |-> q, whole |-> TRUE]
    OBVIOUS
  <2> HIDE DEF new
  <2>6. CASE Takes(d) /\ Pages(q) > 0
    <3>1. kv' = [kv EXCEPT ![q] = new]
      BY <2>1, <2>6, Zenon
    <3>2. kv' \in [Req -> Staged] /\ kv'[q] = new /\ \A r \in Req \ {q} : kv'[r] = kv[r]
      BY <3>1, <2>4, <1>3, <1>t, Zenon
    <3> QED
      BY <3>2, <2>2, <2>5, <2>6, Zenon
  <2>7. CASE ~(Takes(d) /\ Pages(q) > 0)
    BY <2>1, <2>7, <1>t, Zenon
  <2> QED
    BY <2>6, <2>7, Zenon
<1>b. q \notin admitted
  <2>1. 1 \in 1 .. Len(polled)
    BY <1>2
  <2>2. HasReq(polled, q)
    BY <2>1, <1>2, Zenon DEF HasReq, q
  <2> QED
    BY <2>2, <1>3, Zenon DEF PlaceIInv, NotTwice
<1>a. admitted' \subseteq Req /\ \A r \in admitted' : r \in admitted \/ r = q
  BY <1>1, <1>3, Zenon DEF LoadIInv, Types
<1>7. Types'
  BY <1>1, <1>2, <1>5, <1>6, <1>a, Zenon DEF LoadIInv, Types
<1>8. ASSUME NEW i \in 1 .. Len(polled')
      PROVE  i + 1 \in 1 .. Len(polled) /\ i + 1 # 1 /\ polled'[i] = polled[i + 1] /\ 1 \in 1 .. Len(polled)
  BY <1>2
<1>9. ASSUME NEW x \in DoneRecord, Backed(x), x.worker # d.worker
      PROVE  /\ worker'[x.worker].pc = "wait"
             /\ x.ok /\ Pages(x.req) > 0 => staging'[x.worker] = [owner |-> x.req, whole |-> TRUE]
  <2>1. x.worker \in Worker
    BY Zenon DEF DoneRecord
  <2> QED
    BY <1>9, <2>1, <1>1, <1>5, Zenon DEF Backed
<1>10. AllBacked(polled)'
  <2> SUFFICES ASSUME NEW i \in 1 .. Len(polled') PROVE Backed(polled[i])'
    BY Zenon DEF AllBacked
  <2>1. polled[i + 1] \in DoneRecord /\ Backed(polled[i + 1]) /\ polled[i + 1].worker # d.worker
    BY <1>2, <1>8, <1>t DEF LoadIInv, AllBacked, Single
  <2> QED
    BY <2>1, <1>8, <1>9, Zenon DEF Backed
<1>11. AllBacked(done)'
  <2> SUFFICES ASSUME NEW i \in 1 .. Len(done) PROVE Backed(done[i])'
    BY <1>1, Zenon DEF AllBacked
  <2>1. done[i] \in DoneRecord /\ Backed(done[i]) /\ done[i].worker # d.worker
    BY <1>2, <1>t DEF LoadIInv, AllBacked, Apart
  <2> QED
    BY <2>1, <1>1, <1>9, Zenon DEF Backed
<1>12. Single(polled)'
  <2> SUFFICES ASSUME NEW i \in 1 .. Len(polled'), NEW j \in 1 .. Len(polled'), i # j
               PROVE  polled'[i].worker # polled'[j].worker
    BY Zenon DEF Single
  <2>1. i + 1 # j + 1
    BY <1>2
  <2> QED
    BY <2>1, <1>8, Zenon DEF LoadIInv, Single
<1>13. Apart(done, polled)'
  BY <1>1, <1>8 DEF LoadIInv, Apart
<1>14. AdmittedWithOwnKV'
  <2> SUFFICES ASSUME NEW r \in admitted', Pages(r) > 0
               PROVE  kv'[r] = [owner |-> r, whole |-> TRUE]
    BY Zenon DEF AdmittedWithOwnKV
  <2>1. CASE r \in admitted /\ r \in Req
    <3>1. kv[r] = [owner |-> r, whole |-> TRUE]
      BY <2>1, Zenon DEF LoadIInv, AdmittedWithOwnKV
    <3> QED
      BY <3>1, <2>1, <1>6, <1>b, Zenon
  <2>2. CASE r = q /\ Takes(d) /\ copied
    BY <2>2, <1>6, Zenon
  <2> QED
    BY <2>1, <2>2, <1>1, <1>a, Zenon
<1> QED
  BY <1>1, <1>7, <1>10, <1>11, <1>12, <1>13, <1>14, Zenon DEF LoadIInv, Single

(* A worker takes a job: it had no record, and has one now at most if there  *)
(* was nothing to fetch.                                                     *)
LEMMA TakeJobKeeps ==
    ASSUME LoadIInv, NEW w \in Worker, TakeJob(w)
    PROVE  LoadIInv'
<1> DEFINE q == Head(jobs)
<1>t. jobs \in Seq(Req) /\ worker \in [Worker -> WorkerState] /\ staging \in [Worker -> Staged]
  BY Zenon DEF LoadIInv, Types
<1>1. /\ worker[w].pc = "get" /\ jobs # <<>> /\ jobs' = Tail(jobs)
      /\ UNCHANGED <<staging, polled, kv, admitted>>
  BY Zenon DEF TakeJob, engineVars
<1>2. q \in Req /\ jobs' \in Seq(Req)
  BY <1>1, <1>t, HeadTailProperties, Zenon
<1> HIDE DEF q
<1>3. CASE Pages(q) = 0 /\ Report(w, q, TRUE)
  <2>1. ~(Pages(q) > 0)
    BY <1>3
  <2> QED
    BY <2>1, <1>1, <1>2, <1>3, <1>t, ReportKeeps, Zenon
<1>4. ASSUME NEW pc \in {"dead", "fetch"},
             worker' = [worker EXCEPT ![w] = [pc |-> pc, req |-> q, attempt |-> 0]],
             UNCHANGED done
      PROVE  LoadIInv'
  <2>1. [pc |-> pc, req |-> q, attempt |-> 0] \in WorkerState
    BY <1>2 DEF WorkerState
  <2>2. /\ worker' \in [Worker -> WorkerState] /\ worker'[w].req = q
        /\ \A v \in Worker \ {w} : worker'[v] = worker[v]
    BY <2>1, <1>4, <1>t, Zenon
  <2>3. Types'
    BY <2>2, <1>1, <1>2, <1>4, Zenon DEF LoadIInv, Types
  <2> QED
    BY <2>2, <2>3, <1>1, <1>4, RecordsFrame, Zenon
<1> QED
  BY <1>3, <1>4, Zenon DEF TakeJob, q

(* A fetch writes into the buffer of a worker without a record.              *)
LEMMA FetchKeeps ==
    ASSUME LoadIInv, NEW w \in Worker, NEW ok \in BOOLEAN, Fetch(w, ok)
    PROVE  LoadIInv'
<1> DEFINE q == worker[w].req
<1>t. jobs \in Seq(Req) /\ worker \in [Worker -> WorkerState] /\ staging \in [Worker -> Staged]
  BY Zenon DEF LoadIInv, Types
<1>1. /\ worker[w].pc = "fetch" /\ q \in Req
      /\ staging' = [staging EXCEPT ![w] = [owner |-> q, whole |-> ok]]
      /\ UNCHANGED <<jobs, polled, kv, admitted>>
  BY Zenon DEF Fetch, engineVars, LoadIInv, Types
<1>2. /\ staging' \in [Worker -> Staged] /\ staging'[w] = [owner |-> q, whole |-> ok]
      /\ \A v \in Worker \ {w} : staging'[v] = staging[v]
  <2>1. [owner |-> q, whole |-> ok] \in Staged
    BY <1>1, Zenon DEF Staged
  <2> QED
    BY <2>1, <1>1, <1>t, Zenon
<1>3. CASE Report(w, q, ok)
  <2> HIDE DEF q
  <2>1. ok /\ Pages(q) > 0 => staging'[w] = [owner |-> q, whole |-> TRUE]
    BY <1>2, Zenon
  <2> QED
    BY <2>1, <1>1, <1>2, <1>3, <1>t, ReportKeeps, Zenon
<1>4. CASE worker' = [worker EXCEPT ![w].attempt = @ + 1] /\ UNCHANGED done
  <2>1. /\ worker' \in [Worker -> WorkerState] /\ worker'[w].req = q
        /\ \A v \in Worker \ {w} : worker'[v] = worker[v]
    <3> DEFINE next == [worker[w] EXCEPT !.attempt = @ + 1]
    <3>1. next \in WorkerState /\ next.req = q
      <4>1. worker[w] \in WorkerState
        BY <1>t, Zenon
      <4> QED
        BY <4>1 DEF WorkerState
    <3>2. worker' = [worker EXCEPT ![w] = next]
      BY <1>4, Zenon
    <3> HIDE DEF next
    <3> QED
      BY <3>1, <3>2, <1>t, Zenon
  <2> HIDE DEF q
  <2>2. Types'
    BY <2>1, <1>1, <1>2, <1>4, Zenon DEF LoadIInv, Types
  <2> QED
    BY <2>1, <2>2, <1>1, <1>2, <1>4, RecordsFrame, Zenon
<1> QED
  BY <1>3, <1>4, Zenon DEF Fetch

(* Every step of the engine or of a worker thread.                           *)
LEMMA LoadNext == LoadIInv /\ PlaceIInv /\ [Next]_vars => LoadIInv'
<1> SUFFICES ASSUME LoadIInv, PlaceIInv, [Next]_vars PROVE LoadIInv'
  BY Zenon
<1>1. ASSUME NEW q \in Req, Submit(q) PROVE LoadIInv'
  <2>1. /\ UNCHANGED <<worker, staging, done, polled, kv, admitted>> /\ jobs' = Append(jobs, q)
    BY <1>1, Zenon DEF Submit, engineVars
  <2>2. jobs' \in Seq(Req)
    BY <2>1, AppendProperties, Zenon DEF LoadIInv, Types
  <2>3. Types'
    BY <2>1, <2>2, Zenon DEF LoadIInv, Types
  <2> QED
    BY <2>1, <2>3, RecordsFrame, Zenon
<1>2. ASSUME NEW w \in Worker, Work(w) PROVE LoadIInv'
  BY <1>2, TakeJobKeeps, FetchKeeps, Zenon DEF Work
<1>3. ASSUME UNCHANGED <<jobs, worker, staging, done, polled, kv, admitted>> PROVE LoadIInv'
  BY <1>3, RecordsFrame, Zenon DEF LoadIInv, Types
<1>4. ASSUME NEW q \in Req, Finish(q) PROVE LoadIInv'
  BY <1>3, <1>4, Zenon DEF Finish
<1>5. CASE UNCHANGED vars
  BY <1>3, <1>5, Zenon DEF vars
<1> QED
  BY <1>1, <1>2, <1>4, <1>5, PollKeeps, DrainKeeps, Zenon DEF Next

-----------------------------------------------------------------------------
(* A request put at the end of _jobs.                                        *)
LEMMA JobAdded ==
    ASSUME NEW s \in Seq(Req), NEW x \in Req, Distinct(s), ~Has(s, x)
    PROVE  /\ Distinct(Append(s, x))
           /\ \A q : Has(Append(s, x), q) <=> (Has(s, q) \/ q = x)
<1> DEFINE t == Append(s, x)
<1>1. Len(s) \in Nat /\ Len(t) = Len(s) + 1 /\ (\A i \in 1 .. Len(s) : t[i] = s[i]) /\ t[Len(s) + 1] = x
  BY AppendProperties
<1> HIDE DEF t
<1>2. \A i \in 1 .. Len(t) : i \in 1 .. Len(s) \/ i = Len(s) + 1
  BY <1>1
<1>3. (\A i \in 1 .. Len(s) : i \in 1 .. Len(t)) /\ Len(s) + 1 \in 1 .. Len(t)
  BY <1>1
<1>4. Distinct(t)
  BY <1>1, <1>2, Zenon DEF Distinct, Has
<1>5. \A q : Has(t, q) <=> (Has(s, q) \/ q = x)
  BY <1>1, <1>2, <1>3, Zenon DEF Has
<1> QED
  BY <1>4, <1>5, Zenon DEF t

(* The first request of _jobs taken.                                         *)
LEMMA JobTaken ==
    ASSUME NEW s \in Seq(Req), s # <<>>, Distinct(s)
    PROVE  /\ Distinct(Tail(s)) /\ Has(s, Head(s))
           /\ \A q : Has(Tail(s), q) <=> (Has(s, q) /\ q # Head(s))
<1> DEFINE t == Tail(s)
<1>1. /\ Len(s) \in Nat \ {0} /\ Head(s) = s[1] /\ Len(t) = Len(s) - 1
      /\ \A i \in 1 .. Len(t) : t[i] = s[i + 1]
  BY EmptySeq, HeadTailProperties
<1> HIDE DEF t
<1>2. 1 \in 1 .. Len(s)
  BY <1>1
<1>3. \A i \in 1 .. Len(t) : i + 1 \in 1 .. Len(s) /\ i + 1 # 1
  BY <1>1
<1>4. \A i, j \in 1 .. Len(t) : i # j => i + 1 # j + 1
  BY <1>1
<1>5. ASSUME NEW i \in 1 .. Len(s), i # 1 PROVE \E k \in 1 .. Len(t) : t[k] = s[i]
  <2>1. i - 1 \in 1 .. Len(t) /\ (i - 1) + 1 = i
    BY <1>1, <1>5
  <2> QED
    BY <2>1, <1>1, Zenon
<1>6. Distinct(t)
  BY <1>1, <1>3, <1>4, ZenonT(30) DEF Distinct
<1>7. ASSUME NEW q PROVE Has(t, q) <=> (Has(s, q) /\ q # Head(s))
  <2>1. ASSUME Has(t, q) PROVE Has(s, q) /\ q # Head(s)
    BY <2>1, <1>1, <1>2, <1>3, ZenonT(30) DEF Has, Distinct
  <2>2. ASSUME Has(s, q), q # Head(s) PROVE Has(t, q)
    BY <2>2, <1>1, <1>5, Zenon DEF Has
  <2> QED
    BY <2>1, <2>2, Zenon
<1> QED
  BY <1>1, <1>2, <1>6, <1>7, Zenon DEF t, Has

(* A record put at the end of _done.                                         *)
LEMMA RecordAdded ==
    ASSUME NEW s \in Seq(DoneRecord), NEW x \in DoneRecord, DistinctReq(s), ~HasReq(s, x.req)
    PROVE  /\ DistinctReq(Append(s, x))
           /\ \A q : HasReq(Append(s, x), q) <=> (HasReq(s, q) \/ q = x.req)
<1> DEFINE t == Append(s, x)
<1>1. Len(s) \in Nat /\ Len(t) = Len(s) + 1 /\ (\A i \in 1 .. Len(s) : t[i] = s[i]) /\ t[Len(s) + 1] = x
  BY AppendProperties
<1> HIDE DEF t
<1>2. \A i \in 1 .. Len(t) : i \in 1 .. Len(s) \/ i = Len(s) + 1
  BY <1>1
<1>3. (\A i \in 1 .. Len(s) : i \in 1 .. Len(t)) /\ Len(s) + 1 \in 1 .. Len(t)
  BY <1>1
<1>4. DistinctReq(t)
  BY <1>1, <1>2, Zenon DEF DistinctReq, HasReq
<1>5. \A q : HasReq(t, q) <=> (HasReq(s, q) \/ q = x.req)
  BY <1>1, <1>2, <1>3, Zenon DEF HasReq
<1> QED
  BY <1>4, <1>5, Zenon DEF t

(* The first n records of a list, and the others.                            *)
LEMMA RecordsSplit ==
    ASSUME NEW s \in Seq(DoneRecord), NEW n \in 0 .. Len(s), DistinctReq(s)
    PROVE  LET first == SubSeq(s, 1, n)
               rest == SubSeq(s, n + 1, Len(s))
           IN  /\ DistinctReq(first) /\ DistinctReq(rest)
               /\ \A q : HasReq(s, q) <=> (HasReq(first, q) \/ HasReq(rest, q))
               /\ \A q : ~(HasReq(first, q) /\ HasReq(rest, q))
<1> DEFINE first == SubSeq(s, 1, n)
           rest == SubSeq(s, n + 1, Len(s))
<1>t. Len(s) \in Nat
  OBVIOUS
<1>1. Len(first) = n /\ \A i \in 1 .. n : first[i] = s[i]
  BY <1>t
<1>2. Len(rest) = Len(s) - n /\ \A i \in 1 .. Len(s) - n : rest[i] = s[n + i]
  BY <1>t
<1> HIDE DEF first, rest
<1>3. \A i \in 1 .. Len(first) : i \in 1 .. Len(s) /\ first[i] = s[i]
  BY <1>1, <1>t
<1>4. \A i \in 1 .. Len(rest) : n + i \in 1 .. Len(s) /\ rest[i] = s[n + i]
  BY <1>2, <1>t
<1>5. \A i, j \in 1 .. Len(rest) : i # j => n + i # n + j
  BY <1>2, <1>t
<1>6. \A i \in 1 .. Len(first), j \in 1 .. Len(rest) : i # n + j
  BY <1>1, <1>2, <1>t
<1>7. ASSUME NEW i \in 1 .. Len(s)
      PROVE  (\E k \in 1 .. Len(first) : first[k] = s[i]) \/ (\E k \in 1 .. Len(rest) : rest[k] = s[i])
  <2>1. CASE i <= n
    <3>1. i \in 1 .. n
      BY <2>1
    <3> QED
      BY <3>1, <1>1, Zenon
  <2>2. CASE i > n
    <3>1. i - n \in 1 .. Len(rest) /\ n + (i - n) = i
      BY <2>2, <1>2, <1>t
    <3> QED
      BY <3>1, <1>4, Zenon
  <2> QED
    BY <2>1, <2>2
<1>8. DistinctReq(first) /\ DistinctReq(rest)
  <2>1. DistinctReq(first)
    BY <1>3, Zenon DEF DistinctReq
  <2>2. ASSUME NEW i \in 1 .. Len(rest), NEW j \in 1 .. Len(rest), i # j
        PROVE  rest[i].req # rest[j].req
    <3>1. s[n + i].req # s[n + j].req
      BY <2>2, <1>4, <1>5, Zenon DEF DistinctReq
    <3> QED
      BY <3>1, <1>4, Zenon
  <2> QED
    BY <2>1, <2>2, Zenon DEF DistinctReq
<1>9. ASSUME NEW q PROVE HasReq(s, q) <=> (HasReq(first, q) \/ HasReq(rest, q))
  BY <1>3, <1>4, <1>7, ZenonT(30) DEF HasReq
<1>10. ASSUME NEW q, NEW i \in 1 .. Len(first), NEW j \in 1 .. Len(rest),
              first[i].req = q, rest[j].req = q
       PROVE  FALSE
  <2>1. s[i].req # s[n + j].req
    BY <1>3, <1>4, <1>6, Zenon DEF DistinctReq
  <2> QED
    BY <2>1, <1>3, <1>4, <1>10, Zenon
<1>11. \A q : ~(HasReq(first, q) /\ HasReq(rest, q))
  BY <1>10, Zenon DEF HasReq
<1> QED
  BY <1>8, <1>9, <1>11, Zenon DEF first, rest

(* The first record of a list taken.                                         *)
LEMMA RecordTaken ==
    ASSUME NEW s \in Seq(DoneRecord), s # <<>>, DistinctReq(s)
    PROVE  /\ DistinctReq(Tail(s)) /\ HasReq(s, Head(s).req) /\ Head(s) \in DoneRecord
           /\ \A q : HasReq(Tail(s), q) <=> (HasReq(s, q) /\ q # Head(s).req)
<1> DEFINE t == Tail(s)
<1>1. /\ Len(s) \in Nat \ {0} /\ Head(s) = s[1] /\ Len(t) = Len(s) - 1
      /\ \A i \in 1 .. Len(t) : t[i] = s[i + 1]
  BY EmptySeq, HeadTailProperties
<1> HIDE DEF t
<1>2. 1 \in 1 .. Len(s)
  BY <1>1
<1>3. \A i \in 1 .. Len(t) : i + 1 \in 1 .. Len(s) /\ i + 1 # 1
  BY <1>1
<1>4. \A i, j \in 1 .. Len(t) : i # j => i + 1 # j + 1
  BY <1>1
<1>5. ASSUME NEW i \in 1 .. Len(s), i # 1 PROVE \E k \in 1 .. Len(t) : t[k] = s[i]
  <2>1. i - 1 \in 1 .. Len(t) /\ (i - 1) + 1 = i
    BY <1>1, <1>5
  <2> QED
    BY <2>1, <1>1, Zenon
<1>6. DistinctReq(t)
  <2> SUFFICES ASSUME NEW i \in 1 .. Len(t), NEW j \in 1 .. Len(t), i # j
               PROVE  t[i].req # t[j].req
    BY Zenon DEF DistinctReq
  <2>1. s[i + 1].req # s[j + 1].req
    BY <1>3, <1>4, Zenon DEF DistinctReq
  <2> QED
    BY <2>1, <1>1, Zenon
<1>7. ASSUME NEW q PROVE HasReq(t, q) <=> (HasReq(s, q) /\ q # Head(s).req)
  <2>1. ASSUME HasReq(t, q) PROVE HasReq(s, q) /\ q # Head(s).req
    BY <2>1, <1>1, <1>2, <1>3, Zenon DEF HasReq, DistinctReq
  <2>2. ASSUME HasReq(s, q), q # Head(s).req PROVE HasReq(t, q)
    BY <2>2, <1>1, <1>5, Zenon DEF HasReq
  <2> QED
    BY <2>1, <2>2, Zenon
<1>8. Head(s) \in DoneRecord /\ HasReq(s, Head(s).req)
  BY <1>1, <1>2, HeadTailProperties, Zenon DEF HasReq
<1> QED
  BY <1>6, <1>7, <1>8, Zenon DEF t

(* A request received is queued for the workers.                             *)
LEMMA SubmitPlaces ==
    ASSUME LoadIInv, PlaceIInv, NEW q \in Req, Submit(q)
    PROVE  PlaceIInv'
<1>1. /\ q \in fresh /\ fresh' = fresh \ {q} /\ jobs' = Append(jobs, q)
      /\ UNCHANGED <<worker, done, polled, admitted, rejected>>
  BY Zenon DEF Submit, engineVars
<1>2. jobs \in Seq(Req) /\ Distinct(jobs) /\ ~Has(jobs, q)
  BY <1>1, Zenon DEF LoadIInv, Types, PlaceIInv, NotTwice
<1>3. Distinct(jobs') /\ \A r : Has(jobs', r) <=> (Has(jobs, r) \/ r = q)
  BY <1>1, <1>2, JobAdded, Zenon
<1>4. DistinctWork' /\ \A r : AtWorker(r)' <=> AtWorker(r)
  BY <1>1, Zenon DEF DistinctWork, AtWorker, AtWork, PlaceIInv
<1>5. ASSUME NEW r \in Req PROVE Somewhere(r)' /\ NotTwice(r)'
  <2>1. Somewhere(r) /\ NotTwice(r) /\ NotTwice(q)
    BY Zenon DEF PlaceIInv
  <2> QED
    BY <2>1, <1>1, <1>3, <1>4 DEF Somewhere, NotTwice
<1> QED
  BY <1>1, <1>3, <1>4, <1>5, Zenon DEF PlaceIInv

(* A worker reports a request that has no record.                            *)
LEMMA ReportPlaces ==
    ASSUME LoadIInv, PlaceIInv, NEW w \in Worker, NEW q \in Req, NEW ok \in BOOLEAN,
           Report(w, q, ok), ~HasReq(done, q)
    PROVE  /\ DistinctReq(done') /\ DistinctWork'
           /\ \A r : HasReq(done', r) <=> (HasReq(done, r) \/ r = q)
           /\ \A r : AtWorker(r)' <=> \E v \in Worker \ {w} : AtWork(v, r)
<1> DEFINE x == [req |-> q, worker |-> w, ok |-> ok]
<1>1. /\ done' = Append(done, x)
      /\ worker' = [worker EXCEPT ![w] = [pc |-> "wait", req |-> q, attempt |-> 0]]
  BY Zenon DEF Report
<1>2. x \in DoneRecord /\ x.req = q
  BY Zenon DEF DoneRecord
<1> HIDE DEF x
<1>3. DistinctReq(done') /\ \A r : HasReq(done', r) <=> (HasReq(done, r) \/ r = q)
  BY <1>1, <1>2, RecordAdded, Zenon DEF LoadIInv, Types, PlaceIInv
<1>4. worker \in [Worker -> WorkerState]
  BY Zenon DEF LoadIInv, Types
<1>5. worker'[w].pc = "wait" /\ \A v \in Worker \ {w} : worker'[v] = worker[v]
  BY <1>1, <1>4, Zenon
<1>6. \A v \in Worker : \A r : AtWork(v, r)' <=> (v # w /\ AtWork(v, r))
  BY <1>5 DEF AtWork
<1>7. DistinctWork'
  BY <1>6, Zenon DEF DistinctWork, PlaceIInv
<1>8. \A r : AtWorker(r)' <=> \E v \in Worker \ {w} : AtWork(v, r)
  BY <1>6, Zenon DEF AtWorker
<1> QED
  BY <1>3, <1>7, <1>8, Zenon

(* A worker takes the oldest job, and has it or has reported it.             *)
LEMMA TakeJobPlaces ==
    ASSUME LoadIInv, PlaceIInv, NEW w \in Worker, TakeJob(w)
    PROVE  PlaceIInv'
<1> DEFINE q == Head(jobs)
<1>1. /\ worker[w].pc = "get" /\ jobs # <<>> /\ jobs' = Tail(jobs)
      /\ UNCHANGED <<fresh, polled, admitted, rejected>>
  BY Zenon DEF TakeJob, engineVars
<1>2. jobs \in Seq(Req) /\ worker \in [Worker -> WorkerState]
  BY Zenon DEF LoadIInv, Types
<1>3. q \in Req /\ Distinct(jobs') /\ Has(jobs, q) /\ \A r : Has(jobs', r) <=> (Has(jobs, r) /\ r # q)
  BY <1>1, <1>2, JobTaken, HeadTailProperties, Zenon DEF PlaceIInv
<1>4. ~AtWorker(q) /\ ~HasReq(done, q) /\ ~HasReq(polled, q) /\ q \notin fresh
  BY <1>3, Zenon DEF PlaceIInv, NotTwice
<1>5. \A r : ~AtWork(w, r)
  BY <1>1 DEF AtWork
<1>6. TakeJob(w) => \/ Report(w, q, TRUE)
                    \/ \E pc \in {"dead", "fetch"} :
                          worker' = [worker EXCEPT ![w] = [pc |-> pc, req |-> q, attempt |-> 0]]
                          /\ UNCHANGED done
  BY Zenon DEF TakeJob
<1> HIDE DEF q
<1>7. CASE Report(w, q, TRUE)
  <2>1. /\ DistinctReq(done') /\ DistinctWork'
        /\ \A r : HasReq(done', r) <=> (HasReq(done, r) \/ r = q)
        /\ \A r : AtWorker(r)' <=> \E v \in Worker \ {w} : AtWork(v, r)
    BY <1>3, <1>4, <1>7, ReportPlaces, Zenon
  <2>2. \A r : AtWorker(r)' <=> AtWorker(r)
    BY <2>1, <1>5, Zenon DEF AtWorker
  <2>3. ASSUME NEW r \in Req PROVE Somewhere(r)' /\ NotTwice(r)'
    <3>1. Somewhere(r) /\ NotTwice(r) /\ NotTwice(q)
      BY <1>3, Zenon DEF PlaceIInv
    <3> QED
      BY <3>1, <2>1, <2>2, <1>1, <1>3 DEF Somewhere, NotTwice
  <2> QED
    BY <2>1, <2>3, <1>1, <1>3, Zenon DEF PlaceIInv
<1>8. ASSUME NEW pc \in {"dead", "fetch"}, UNCHANGED done,
             worker' = [worker EXCEPT ![w] = [pc |-> pc, req |-> q, attempt |-> 0]]
      PROVE  PlaceIInv'
  <2>1. /\ worker'[w].pc \in {"fetch", "dead"} /\ worker'[w].req = q
        /\ \A v \in Worker \ {w} : worker'[v] = worker[v]
    BY <1>2, <1>8, Zenon
  <2>2. \A v \in Worker : \A r : AtWork(v, r)' <=> (AtWork(v, r) \/ (v = w /\ r = q))
    BY <2>1, <1>5 DEF AtWork
  <2>3. DistinctWork'
    <3> SUFFICES ASSUME NEW u \in Worker, NEW v \in Worker, NEW r \in Req,
                        AtWork(u, r)', AtWork(v, r)'
                 PROVE  u = v
      BY Zenon DEF DistinctWork
    <3>1. CASE r = q
      BY <3>1, <2>2, <1>4, Zenon DEF AtWorker
    <3>2. CASE r # q
      BY <3>2, <2>2, Zenon DEF PlaceIInv, DistinctWork
    <3> QED
      BY <3>1, <3>2, Zenon
  <2>4. \A r : AtWorker(r)' <=> (AtWorker(r) \/ r = q)
    BY <2>2, Zenon DEF AtWorker
  <2>5. ASSUME NEW r \in Req PROVE Somewhere(r)' /\ NotTwice(r)'
    <3>1. Somewhere(r) /\ NotTwice(r) /\ NotTwice(q)
      BY <1>3, Zenon DEF PlaceIInv
    <3> QED
      BY <3>1, <2>4, <1>1, <1>3, <1>8 DEF Somewhere, NotTwice
  <2> QED
    BY <2>3, <2>5, <1>1, <1>3, <1>8, Zenon DEF PlaceIInv
<1> QED
  BY <1>6, <1>7, <1>8, Zenon

(* An attempt keeps the request with its worker, or reports it.              *)
LEMMA FetchPlaces ==
    ASSUME LoadIInv, PlaceIInv, NEW w \in Worker, NEW ok \in BOOLEAN, Fetch(w, ok)
    PROVE  PlaceIInv'
<1> DEFINE q == worker[w].req
<1>1. /\ worker[w].pc = "fetch" /\ UNCHANGED <<fresh, jobs, polled, admitted, rejected>>
      /\ Report(w, q, ok) \/ (worker' = [worker EXCEPT ![w].attempt = @ + 1] /\ UNCHANGED done)
  BY Zenon DEF Fetch, engineVars
<1>2. q \in Req /\ worker \in [Worker -> WorkerState]
  BY <1>1, Zenon DEF LoadIInv, Types
<1>3. AtWork(w, q) /\ \A r : AtWork(w, r) => r = q
  BY <1>1 DEF AtWork
<1>4. /\ AtWorker(q) /\ ~HasReq(done, q)
      /\ \A v \in Worker : AtWork(v, q) => v = w
  BY <1>2, <1>3, Zenon DEF AtWorker, PlaceIInv, NotTwice, DistinctWork
<1>5. CASE Report(w, q, ok)
  <2> HIDE DEF q
  <2>1. /\ DistinctReq(done') /\ DistinctWork'
        /\ \A r : HasReq(done', r) <=> (HasReq(done, r) \/ r = q)
        /\ \A r : AtWorker(r)' <=> \E v \in Worker \ {w} : AtWork(v, r)
    BY <1>2, <1>4, <1>5, ReportPlaces
  <2>2. \A r : AtWorker(r)' <=> (AtWorker(r) /\ r # q)
    BY <2>1, <1>3, <1>4, Zenon DEF AtWorker
  <2>3. ASSUME NEW r \in Req PROVE Somewhere(r)' /\ NotTwice(r)'
    <3>1. Somewhere(r) /\ NotTwice(r) /\ NotTwice(q)
      BY <1>2, Zenon DEF PlaceIInv
    <3> QED
      BY <3>1, <2>1, <2>2, <1>1, <1>4 DEF Somewhere, NotTwice
  <2> QED
    BY <2>1, <2>3, <1>1, Zenon DEF PlaceIInv
<1>6. CASE worker' = [worker EXCEPT ![w].attempt = @ + 1] /\ UNCHANGED done
  <2>1. worker'[w].pc = worker[w].pc /\ worker'[w].req = worker[w].req
        /\ \A v \in Worker \ {w} : worker'[v] = worker[v]
    <3>1. worker[w] \in WorkerState
      BY <1>2, Zenon
    <3> QED
      BY <3>1, <1>2, <1>6 DEF WorkerState
  <2>2. \A v \in Worker : \A r : AtWork(v, r)' <=> AtWork(v, r)
    BY <2>1, Zenon DEF AtWork
  <2>3. DistinctWork' /\ \A r : AtWorker(r)' <=> AtWorker(r)
    BY <2>2, Zenon DEF DistinctWork, PlaceIInv, AtWorker
  <2>4. ASSUME NEW r \in Req PROVE Somewhere(r)' /\ NotTwice(r)'
    <3>1. Somewhere(r) /\ NotTwice(r)
      BY Zenon DEF PlaceIInv
    <3> QED
      BY <3>1, <2>3, <1>1, <1>6 DEF Somewhere, NotTwice
  <2> QED
    BY <2>3, <2>4, <1>1, <1>6, Zenon DEF PlaceIInv
<1> QED
  BY <1>1, <1>5, <1>6, Zenon

(* poll moves the oldest records.                                            *)
LEMMA PollPlaces ==
    ASSUME LoadIInv, PlaceIInv, Poll
    PROVE  PlaceIInv'
<1> DEFINE n == IF Len(done) < MaxItems THEN Len(done) ELSE MaxItems
<1>1. /\ polled = <<>> /\ polled' = SubSeq(done, 1, n) /\ done' = SubSeq(done, n + 1, Len(done))
      /\ UNCHANGED <<fresh, jobs, worker, admitted, rejected>>
  BY Zenon DEF Poll
<1>2. done \in Seq(DoneRecord) /\ Len(done) \in Nat
  BY DEF LoadIInv, Types
<1>3. n \in 0 .. Len(done)
  BY <1>2, LoaderAssumption
<1> HIDE DEF n
<1>4. /\ DistinctReq(polled') /\ DistinctReq(done')
      /\ \A q : HasReq(done, q) <=> (HasReq(polled', q) \/ HasReq(done', q))
      /\ \A q : ~(HasReq(polled', q) /\ HasReq(done', q))
  BY <1>1, <1>2, <1>3, RecordsSplit, Zenon DEF PlaceIInv
<1>5. \A q : ~HasReq(polled, q)
  BY <1>1 DEF HasReq
<1>6. DistinctWork' /\ \A r : AtWorker(r)' <=> AtWorker(r)
  BY <1>1, Zenon DEF DistinctWork, AtWorker, AtWork, PlaceIInv
<1>7. ASSUME NEW r \in Req PROVE Somewhere(r)' /\ NotTwice(r)'
  <2>1. Somewhere(r) /\ NotTwice(r)
    BY Zenon DEF PlaceIInv
  <2> QED
    BY <2>1, <1>1, <1>4, <1>5, <1>6 DEF Somewhere, NotTwice
<1> QED
  BY <1>1, <1>4, <1>6, <1>7, Zenon DEF PlaceIInv

(* A drained record is an admission or a rejection.                          *)
LEMMA DrainPlaces ==
    ASSUME LoadIInv, PlaceIInv, DrainOne
    PROVE  PlaceIInv'
<1> DEFINE d == Head(polled)
<1>1. /\ polled # <<>> /\ polled' = Tail(polled) /\ Released(d)
      /\ UNCHANGED <<fresh, jobs, done>>
      /\ \/ admitted' = admitted \cup {d.req} /\ rejected' = rejected
         \/ rejected' = rejected \cup {d.req} /\ admitted' = admitted
  BY DrainResult, Zenon
<1>2. polled \in Seq(DoneRecord) /\ worker \in [Worker -> WorkerState]
  BY Zenon DEF LoadIInv, Types
<1>3. /\ DistinctReq(polled') /\ HasReq(polled, d.req) /\ d \in DoneRecord
      /\ \A q : HasReq(polled', q) <=> (HasReq(polled, q) /\ q # d.req)
  BY <1>1, <1>2, RecordTaken, Zenon DEF PlaceIInv
<1> HIDE DEF d
<1>4. d.req \in Req /\ d.worker \in Worker
  BY <1>3, Zenon DEF DoneRecord
<1>5. \A v \in Worker : \A r : AtWork(v, r)' <=> AtWork(v, r)
  <2>1. CASE worker' = worker
    BY <2>1, Zenon DEF AtWork
  <2>2. CASE worker[d.worker].pc = "wait" /\ worker' = [worker EXCEPT ![d.worker] = Idle]
    <3>1. worker'[d.worker].pc = "get" /\ \A v \in Worker \ {d.worker} : worker'[v] = worker[v]
      BY <2>2, <1>2, <1>4, Zenon DEF Idle
    <3> QED
      BY <3>1, <2>2 DEF AtWork
  <2> QED
    BY <2>1, <2>2, <1>1, Zenon DEF Released
<1>6. DistinctWork' /\ \A r : AtWorker(r)' <=> AtWorker(r)
  BY <1>5, Zenon DEF DistinctWork, AtWorker, PlaceIInv
<1>7. ASSUME NEW r \in Req PROVE Somewhere(r)' /\ NotTwice(r)'
  <2>1. Somewhere(r) /\ NotTwice(r) /\ NotTwice(d.req)
    BY <1>4, Zenon DEF PlaceIInv
  <2> QED
    BY <2>1, <1>1, <1>3, <1>6 DEF Somewhere, NotTwice
<1> QED
  BY <1>1, <1>3, <1>6, <1>7, Zenon DEF PlaceIInv

(* Every step keeps every request in one place.                              *)
LEMMA PlaceNext == LoadIInv /\ PlaceIInv /\ [Next]_vars => PlaceIInv'
<1> SUFFICES ASSUME LoadIInv, PlaceIInv, [Next]_vars PROVE PlaceIInv'
  BY Zenon
<1>1. ASSUME UNCHANGED <<fresh, jobs, worker, done, polled, admitted, rejected>> PROVE PlaceIInv'
  BY <1>1, Zenon DEF PlaceIInv, DistinctWork, Somewhere, NotTwice, AtWorker, AtWork
<1>2. ASSUME NEW q \in Req, Submit(q) \/ Finish(q) PROVE PlaceIInv'
  BY <1>1, <1>2, SubmitPlaces, Zenon DEF Finish
<1>3. ASSUME NEW w \in Worker, Work(w) PROVE PlaceIInv'
  BY <1>3, TakeJobPlaces, FetchPlaces, Zenon DEF Work
<1>4. CASE UNCHANGED vars
  BY <1>1, <1>4, Zenon DEF vars
<1> QED
  BY <1>2, <1>3, <1>4, PollPlaces, DrainPlaces, Zenon DEF Next

(* At first every request is with the sender.                                *)
LEMMA PlaceInit == Init => PlaceIInv
<1> SUFFICES ASSUME Init PROVE PlaceIInv
  BY Zenon
<1>1. /\ jobs = <<>> /\ done = <<>> /\ polled = <<>> /\ fresh = Req
      /\ admitted = {} /\ rejected = {} /\ worker = [w \in Worker |-> Idle]
  BY Zenon DEF Init
<1>2. /\ Distinct(jobs) /\ DistinctReq(done) /\ DistinctReq(polled)
      /\ \A q : ~Has(jobs, q) /\ ~HasReq(done, q) /\ ~HasReq(polled, q)
  BY <1>1 DEF Distinct, DistinctReq, Has, HasReq
<1>3. \A w \in Worker : \A q : ~AtWork(w, q)
  BY <1>1 DEF Idle, AtWork
<1> QED
  BY <1>1, <1>2, <1>3, Zenon DEF PlaceIInv, DistinctWork, Somewhere, NotTwice, AtWorker

(* Waiting for released keeps a staging buffer unchanged until the engine    *)
(* has copied it: a request is admitted only with its own complete KV, for   *)
(* any number of requests, loader threads, attempts and polled records.      *)
THEOREM AdmittedWithOwnKVAlways == Spec => []AdmittedWithOwnKV
<1>1. LoadIInv => AdmittedWithOwnKV
  BY Zenon DEF LoadIInv
<1> QED
  BY <1>1, LoadInit, LoadNext, PlaceInit, PlaceNext, PTL DEF Spec

\* The places of a request, as OnePlace lists them.
Places(q) ==
    {<<"jobs", i>> : i \in {i \in DOMAIN jobs : jobs[i] = q}}
    \cup {<<"worker", w>> : w \in {w \in Worker : worker[w].req = q
                                     /\ worker[w].pc \in {"fetch", "dead"}}}
    \cup {<<"done", i>> : i \in {i \in DOMAIN done : done[i].req = q}}
    \cup {<<"polled", i>> : i \in {i \in DOMAIN polled : polled[i].req = q}}
    \cup {<<s, 0>> : s \in {s \in {"fresh", "admitted", "rejected"} :
             \/ s = "fresh" /\ q \in fresh
             \/ s = "admitted" /\ q \in admitted
             \/ s = "rejected" /\ q \in rejected}}

Tagged(tag, I) == {<<tag, i>> : i \in I}

(* A set with at most one member gives at most one place.                    *)
LEMMA AtMostOne ==
    ASSUME NEW tag, NEW I, \A i, j \in I : i = j
    PROVE  /\ I # {} => \E x : Tagged(tag, I) = {x}
           /\ I = {} => Tagged(tag, I) = {}
<1>1. ASSUME NEW i \in I PROVE Tagged(tag, I) = {<<tag, i>>}
  <2>1. I = {i}
    BY Zenon
  <2> QED
    BY <2>1 DEF Tagged
<1> QED
  BY <1>1, ZenonT(30) DEF Tagged

(* A request that is somewhere, and nowhere twice, has exactly one place.    *)
LEMMA PlacesSingle ==
    ASSUME LoadIInv, PlaceIInv, NEW q \in Req
    PROVE  Cardinality(Places(q)) = 1
<1> DEFINE J == {<<"jobs", i>> : i \in {i \in DOMAIN jobs : jobs[i] = q}}
           W == {<<"worker", w>> : w \in {w \in Worker : worker[w].req = q
                                     /\ worker[w].pc \in {"fetch", "dead"}}}
           D == {<<"done", i>> : i \in {i \in DOMAIN done : done[i].req = q}}
           P == {<<"polled", i>> : i \in {i \in DOMAIN polled : polled[i].req = q}}
           O == {<<s, 0>> : s \in {s \in {"fresh", "admitted", "rejected"} :
                   \/ s = "fresh" /\ q \in fresh
                   \/ s = "admitted" /\ q \in admitted
                   \/ s = "rejected" /\ q \in rejected}}
<1>0. Places(q) = J \cup W \cup D \cup P \cup O
  BY Zenon DEF Places
<1>t. DOMAIN jobs = 1 .. Len(jobs) /\ DOMAIN done = 1 .. Len(done) /\ DOMAIN polled = 1 .. Len(polled)
  BY DEF LoadIInv, Types
<1>i. /\ Distinct(jobs) /\ DistinctReq(done) /\ DistinctReq(polled) /\ DistinctWork
      /\ Somewhere(q) /\ NotTwice(q)
  BY Zenon DEF PlaceIInv
<1>1. (Has(jobs, q) => \E x : J = {x}) /\ (~Has(jobs, q) => J = {})
  <2> DEFINE I == {i \in DOMAIN jobs : jobs[i] = q}
  <2>1. (\A i, j \in I : i = j) /\ (Has(jobs, q) <=> I # {})
    BY <1>t, <1>i, Zenon DEF Has, Distinct
  <2> HIDE DEF I
  <2>2. (I # {} => \E x : Tagged("jobs", I) = {x}) /\ (I = {} => Tagged("jobs", I) = {})
    BY <2>1, AtMostOne, Zenon
  <2> QED
    BY <2>1, <2>2, Zenon DEF I, Tagged
<1>2. (AtWorker(q) => \E x : W = {x}) /\ (~AtWorker(q) => W = {})
  <2> DEFINE I == {w \in Worker : worker[w].req = q /\ worker[w].pc \in {"fetch", "dead"}}
  <2>1. (\A i, j \in I : i = j) /\ (AtWorker(q) <=> I # {})
    BY <1>i, Zenon DEF AtWorker, AtWork, DistinctWork
  <2> HIDE DEF I
  <2>2. (I # {} => \E x : Tagged("worker", I) = {x}) /\ (I = {} => Tagged("worker", I) = {})
    BY <2>1, AtMostOne, Zenon
  <2> QED
    BY <2>1, <2>2, Zenon DEF I, Tagged
<1>3. (HasReq(done, q) => \E x : D = {x}) /\ (~HasReq(done, q) => D = {})
  <2> DEFINE I == {i \in DOMAIN done : done[i].req = q}
  <2>1. (\A i, j \in I : i = j) /\ (HasReq(done, q) <=> I # {})
    BY <1>t, <1>i, Zenon DEF HasReq, DistinctReq
  <2> HIDE DEF I
  <2>2. (I # {} => \E x : Tagged("done", I) = {x}) /\ (I = {} => Tagged("done", I) = {})
    BY <2>1, AtMostOne, Zenon
  <2> QED
    BY <2>1, <2>2, Zenon DEF I, Tagged
<1>4. (HasReq(polled, q) => \E x : P = {x}) /\ (~HasReq(polled, q) => P = {})
  <2> DEFINE I == {i \in DOMAIN polled : polled[i].req = q}
  <2>1. (\A i, j \in I : i = j) /\ (HasReq(polled, q) <=> I # {})
    BY <1>t, <1>i, Zenon DEF HasReq, DistinctReq
  <2> HIDE DEF I
  <2>2. (I # {} => \E x : Tagged("polled", I) = {x}) /\ (I = {} => Tagged("polled", I) = {})
    BY <2>1, AtMostOne, Zenon
  <2> QED
    BY <2>1, <2>2, Zenon DEF I, Tagged
<1>5. /\ q \in fresh /\ q \notin admitted /\ q \notin rejected => O = {<<"fresh", 0>>}
      /\ q \notin fresh /\ q \in admitted /\ q \notin rejected => O = {<<"admitted", 0>>}
      /\ q \notin fresh /\ q \notin admitted /\ q \in rejected => O = {<<"rejected", 0>>}
      /\ q \notin fresh /\ q \notin admitted /\ q \notin rejected => O = {}
  OBVIOUS
<1> HIDE DEF J, W, D, P, O
<1>6. \E x : J \cup W \cup D \cup P \cup O = {x}
  BY <1>1, <1>2, <1>3, <1>4, <1>5, <1>i, Zenon DEF Somewhere, NotTwice
<1> QED
  BY <1>0, <1>6, FS_Singleton, Zenon

(* Across retries, polls and failed installs, a request waits in exactly one *)
(* place or has exactly one outcome, for any number of requests and threads. *)
THEOREM OnePlaceAlways == Spec => []OnePlace
<1>1. LoadIInv /\ PlaceIInv => OnePlace
  BY PlacesSingle, Zenon DEF OnePlace, Places
<1> QED
  BY <1>1, LoadInit, LoadNext, PlaceInit, PlaceNext, PTL DEF Spec

-----------------------------------------------------------------------------
HeldIInv ==
    /\ num_free \in Nat /\ blocks \in [Req -> Nat]
    /\ finished \subseteq admitted
    /\ outcome \in [Req -> Outcome]
    /\ \A q \in Req : q \notin admitted \cup rejected => outcome[q] = "none"
    /\ \A q \in admitted : outcome[q] = "admitted"
    /\ BlocksHeldByWhom

(* The sum over all requests when one of them changes.                       *)
LEMMA SumChanged ==
    ASSUME NEW S, IsFiniteSet(S), NEW f \in [S -> Nat], NEW g \in [S -> Nat], NEW y \in S,
           \A x \in S \ {y} : g[x] = f[x]
    PROVE  /\ SumFunctionOnSet(f, S) \in Nat /\ SumFunctionOnSet(g, S) \in Nat
           /\ SumFunctionOnSet(g, S) + f[y] = SumFunctionOnSet(f, S) + g[y]
<1> DEFINE a == SumFunctionOnSet(f, S)
           b == SumFunctionOnSet(g, S)
           rest == SumFunctionOnSet(f, S \ {y})
<1>1. (\A x \in S : f[x] \in Nat) /\ (\A x \in S : g[x] \in Nat)
  BY Zenon
<1>2. IsFiniteSet(S \ {y})
  BY FS_RemoveElement, Zenon
<1>3. SumFunctionOnSet(g, S \ {y}) = rest
  BY <1>1, <1>2, SumSame, Zenon
<1>4. a = f[y] + rest
  BY <1>1, SumRest, Zenon
<1>5. b = g[y] + rest
  <2>1. b = g[y] + SumFunctionOnSet(g, S \ {y})
    BY <1>1, SumRest, Zenon
  <2> QED
    BY <2>1, <1>3, Zenon
<1>6. a \in Nat /\ b \in Nat /\ rest \in Nat
  BY <1>1, <1>2, SumType, Zenon
<1> HIDE DEF a, b, rest
<1>7. a \in Nat /\ b \in Nat /\ b + f[y] = a + g[y]
  BY <1>1, <1>4, <1>5, <1>6
<1> QED
  BY <1>7, Zenon DEF a, b

(* At first all blocks are free.                                             *)
LEMMA HeldInit == Init => HeldIInv
<1> SUFFICES ASSUME Init PROVE HeldIInv
  BY Zenon
<1>1. /\ num_free = NumBlocks /\ blocks = [q \in Req |-> 0] /\ finished = {} /\ admitted = {}
      /\ outcome = [q \in Req |-> "none"]
  BY Zenon DEF Init
<1>2. num_free \in Nat /\ blocks \in [Req -> Nat] /\ \A q \in Req : blocks[q] = 0
  BY <1>1, LoaderAssumption
<1>3. SumFunctionOnSet(blocks, Req) = 0
  BY <1>2, SumZero, LoaderAssumption
<1>4. outcome \in [Req -> Outcome] /\ \A q \in Req : outcome[q] = "none"
  BY <1>1 DEF Outcome
<1>5. "none" \notin {"copy raised", "wrong length"}
  OBVIOUS
<1>6. num_free + SumFunctionOnSet(blocks, Req) = NumBlocks
  BY <1>1, <1>3, LoaderAssumption
<1> QED
  BY <1>1, <1>2, <1>4, <1>5, <1>6, Zenon DEF HeldIInv, BlocksHeldByWhom

(* A drained request had no blocks, and gets its pages exactly if they are   *)
(* taken from the free ones.                                                 *)
LEMMA DrainHeld ==
    ASSUME LoadIInv, PlaceIInv, HeldIInv, DrainOne
    PROVE  HeldIInv'
<1> DEFINE d == Head(polled)
           Kept == {"copy raised", "wrong length"}
<1>1. PICK copied \in BOOLEAN, result \in Outcome :
          /\ polled # <<>> /\ Install(d, copied) /\ UNCHANGED finished
          /\ outcome' = [outcome EXCEPT ![d.req] = result]
          /\ Takes(d) => result \in {"copy raised", "wrong length", "admitted"}
          /\ ~Takes(d) => result \notin {"copy raised", "wrong length", "admitted"}
          /\ \/ /\ result = "admitted" /\ admitted' = admitted \cup {d.req} /\ rejected' = rejected
             \/ /\ result # "admitted" /\ admitted' = admitted /\ rejected' = rejected \cup {d.req}
  BY DrainResult, Zenon
<1>2. polled \in Seq(DoneRecord)
  BY Zenon DEF LoadIInv, Types
<1>3. HasReq(polled, d.req) /\ d \in DoneRecord
  BY <1>1, <1>2, RecordTaken, Zenon DEF PlaceIInv
<1> HIDE DEF d
<1> DEFINE q == d.req
<1>4. q \in Req
  BY <1>3, Zenon DEF DoneRecord
<1>5. q \notin admitted /\ q \notin rejected
  BY <1>3, <1>4, Zenon DEF PlaceIInv, NotTwice
<1>6. Pages(q) \in Nat /\ IsFiniteSet(Req)
  BY <1>4, DivMod, LoaderAssumption, Zenon DEF Pages
<1>7. blocks \in [Req -> Nat] /\ num_free \in Nat /\ outcome \in [Req -> Outcome] /\ q \notin finished
  BY <1>5, Zenon DEF HeldIInv
<1>8. blocks[q] = 0
  <2>1. outcome[q] = "none"
    BY <1>4, <1>5, Zenon DEF HeldIInv
  <2>2. outcome[q] \notin Kept
    BY <2>1
  <2> QED
    BY <2>2, <1>4, <1>5, Zenon DEF HeldIInv, BlocksHeldByWhom
<1>9. /\ num_free' = (IF Takes(d) THEN num_free - Pages(q) ELSE num_free)
      /\ blocks' = (IF Takes(d) THEN [blocks EXCEPT ![q] = Pages(q)] ELSE blocks)
      /\ Takes(d) => Pages(q) <= num_free
  BY <1>1, Zenon DEF Install, Takes
<1> HIDE DEF q
<1>10. /\ outcome' \in [Req -> Outcome] /\ outcome'[q] = result
       /\ \A r \in Req \ {q} : outcome'[r] = outcome[r]
  BY <1>1, <1>4, <1>7, Zenon DEF q
<1>11. /\ finished' \subseteq admitted'
       /\ \A r \in Req : r \notin admitted' \cup rejected' => outcome'[r] = "none"
       /\ \A r \in admitted' : outcome'[r] = "admitted"
  <2>1. q \in admitted' \cup rejected' /\ admitted \subseteq admitted' /\ rejected \subseteq rejected'
        /\ \A r \in admitted' : r \in admitted \/ (r = q /\ result = "admitted")
    BY <1>1, Zenon DEF q
  <2>2. admitted \subseteq Req
    BY Zenon DEF LoadIInv, Types
  <2> QED
    BY <2>1, <2>2, <1>1, <1>5, <1>10, Zenon DEF HeldIInv
<1>12. ASSUME NEW r \in Req \ {q}
       PROVE  (r \in admitted' \ finished' <=> r \in admitted \ finished) /\ outcome'[r] = outcome[r]
  BY <1>1, <1>10, Zenon DEF q
<1>13. Takes(d) <=> (q \in admitted' \ finished' \/ outcome'[q] \in Kept)
  <2>1. q \in admitted' \ finished' <=> result = "admitted"
    BY <1>1, <1>5, <1>7, Zenon DEF q
  <2> QED
    BY <2>1, <1>1, <1>10, Zenon
<1>14. CASE Takes(d)
  <2>1. /\ num_free' = num_free - Pages(q) /\ Pages(q) <= num_free
        /\ blocks' = [blocks EXCEPT ![q] = Pages(q)]
    BY <1>9, <1>14, Zenon
  <2>2. /\ blocks' \in [Req -> Nat] /\ blocks'[q] = Pages(q)
        /\ \A r \in Req \ {q} : blocks'[r] = blocks[r]
    BY <2>1, <1>4, <1>6, <1>7, Zenon
  <2>3. /\ SumFunctionOnSet(blocks, Req) \in Nat /\ SumFunctionOnSet(blocks', Req) \in Nat
        /\ SumFunctionOnSet(blocks', Req) + blocks[q] = SumFunctionOnSet(blocks, Req) + blocks'[q]
    BY <2>2, <1>4, <1>6, <1>7, SumChanged, SMT
  <2>4. num_free + SumFunctionOnSet(blocks, Req) = NumBlocks
    BY Zenon DEF HeldIInv, BlocksHeldByWhom
  <2>5. num_free' \in Nat /\ num_free' + SumFunctionOnSet(blocks', Req) = NumBlocks
    BY <2>1, <2>2, <2>3, <2>4, <1>6, <1>7, <1>8
  <2>6. ASSUME NEW r \in Req
        PROVE  blocks'[r] = IF r \in admitted' \ finished' \/ outcome'[r] \in Kept THEN Pages(r) ELSE 0
    <3>1. CASE r = q
      BY <3>1, <2>2, <1>13, <1>14, Zenon
    <3>2. CASE r # q
      BY <3>2, <2>2, <1>12, Zenon DEF HeldIInv, BlocksHeldByWhom
    <3> QED
      BY <3>1, <3>2, Zenon
  <2> QED
    BY <2>2, <2>5, <2>6, <1>10, <1>11, Zenon DEF HeldIInv, BlocksHeldByWhom
<1>15. CASE ~Takes(d)
  <2>1. num_free' = num_free /\ blocks' = blocks
    BY <1>9, <1>15, Zenon
  <2>2. ASSUME NEW r \in Req
        PROVE  blocks'[r] = IF r \in admitted' \ finished' \/ outcome'[r] \in Kept THEN Pages(r) ELSE 0
    <3>1. CASE r = q
      BY <3>1, <2>1, <1>8, <1>13, <1>15, Zenon
    <3>2. CASE r # q
      BY <3>2, <2>1, <1>12, Zenon DEF HeldIInv, BlocksHeldByWhom
    <3> QED
      BY <3>1, <3>2, Zenon
  <2> QED
    BY <2>1, <2>2, <1>7, <1>10, <1>11, Zenon DEF HeldIInv, BlocksHeldByWhom
<1> QED
  BY <1>14, <1>15, Zenon

(* A finished request gives its blocks back.                                 *)
LEMMA FinishHeld ==
    ASSUME HeldIInv, NEW q \in Req, Finish(q)
    PROVE  HeldIInv'
<1> DEFINE Kept == {"copy raised", "wrong length"}
<1>1. /\ q \in admitted \ finished /\ finished' = finished \cup {q}
      /\ num_free' = num_free + blocks[q] /\ blocks' = [blocks EXCEPT ![q] = 0]
      /\ UNCHANGED <<admitted, rejected, outcome>>
  BY Zenon DEF Finish
<1>2. blocks \in [Req -> Nat] /\ num_free \in Nat /\ 0 \in Nat /\ IsFiniteSet(Req)
  BY LoaderAssumption DEF HeldIInv
<1>3. /\ blocks' \in [Req -> Nat] /\ blocks'[q] = 0 /\ blocks[q] \in Nat
      /\ \A r \in Req \ {q} : blocks'[r] = blocks[r]
  BY <1>1, <1>2, Zenon
<1>4. /\ SumFunctionOnSet(blocks, Req) \in Nat /\ SumFunctionOnSet(blocks', Req) \in Nat
      /\ SumFunctionOnSet(blocks', Req) + blocks[q] = SumFunctionOnSet(blocks, Req) + blocks'[q]
  BY <1>2, <1>3, SumChanged, SMT
<1>5. num_free + SumFunctionOnSet(blocks, Req) = NumBlocks
  BY Zenon DEF HeldIInv, BlocksHeldByWhom
<1>6. num_free' \in Nat /\ num_free' + SumFunctionOnSet(blocks', Req) = NumBlocks
  BY <1>1, <1>2, <1>3, <1>4, <1>5
<1>7. outcome[q] \notin Kept
  <2>1. outcome[q] = "admitted"
    BY <1>1, Zenon DEF HeldIInv
  <2> QED
    BY <2>1
<1>8. ASSUME NEW r \in Req
      PROVE  blocks'[r] = IF r \in admitted' \ finished' \/ outcome'[r] \in Kept THEN Pages(r) ELSE 0
  <2>1. CASE r = q
    BY <2>1, <1>1, <1>3, <1>7, Zenon
  <2>2. CASE r # q
    BY <2>2, <1>1, <1>3, Zenon DEF HeldIInv, BlocksHeldByWhom
  <2> QED
    BY <2>1, <2>2, Zenon
<1> QED
  BY <1>1, <1>3, <1>6, <1>8, Zenon DEF HeldIInv, BlocksHeldByWhom

(* Every step keeps the blocks accounted for.                                *)
LEMMA HeldNext == LoadIInv /\ PlaceIInv /\ HeldIInv /\ [Next]_vars => HeldIInv'
<1> SUFFICES ASSUME LoadIInv, PlaceIInv, HeldIInv, [Next]_vars PROVE HeldIInv'
  BY Zenon
<1>1. ASSUME UNCHANGED <<num_free, blocks, admitted, rejected, finished, outcome>> PROVE HeldIInv'
  BY <1>1, Zenon DEF HeldIInv, BlocksHeldByWhom
<1>2. ASSUME NEW q \in Req, Submit(q) \/ Finish(q) PROVE HeldIInv'
  BY <1>1, <1>2, FinishHeld, Zenon DEF Submit, engineVars
<1>3. ASSUME NEW w \in Worker, Work(w) PROVE HeldIInv'
  BY <1>1, <1>3, Zenon DEF Work, TakeJob, Fetch, engineVars
<1>4. CASE UNCHANGED vars \/ Poll
  BY <1>1, <1>4, Zenon DEF vars, Poll
<1> QED
  BY <1>2, <1>3, <1>4, DrainHeld, Zenon DEF Next

(* For any requests, threads, pool and failures: every block is free, or     *)
(* held by a running request, or by one that was rejected after allocate had *)
(* succeeded (the copy raised, or init_prefill_len is not page-aligned); a   *)
(* rejection before that point keeps none.                                   *)
THEOREM BlocksHeldByWhomAlways == Spec => []BlocksHeldByWhom
<1>1. HeldIInv => BlocksHeldByWhom
  BY Zenon DEF HeldIInv
<1> QED
  BY <1>1, LoadInit, LoadNext, PlaceInit, PlaceNext, HeldInit, HeldNext, PTL DEF Spec

=============================================================================
