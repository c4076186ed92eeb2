----------------------------- MODULE JobQueue_proofs -----------------------------
(***************************************************************************)
(* Proofs about the queue of the runner's semaphore: nobody sleeps beside a *)
(* free slot, and nobody is overtaken.                                     *)
(*                                                                         *)
(* Both rest on the queue's order.  The futures of the waiting tasks stand *)
(* in it once each, and a release always wakes the first that is pending,  *)
(* so those that have been handed a slot stand before those that have not. *)
(***************************************************************************)
EXTENDS JobRunner_proofs, WellFoundedInduction

QueuePc == {"queued", "granted", "dropped"}

InQueue(j) == \E k \in 1..Len(waiters) : waiters[k] = j

Once == \A j \in Job : ~Before(j, j)
Members == \A j \in Job : pc[j] \in QueuePc <=> InQueue(j)
Fifo == \A g, q \in Job : pc[g] = "granted" /\ pc[q] = "queued" => Before(g, q)

QueueInv == Once /\ Members /\ Fifo /\ NoLostWakeup

-----------------------------------------------------------------------------
(* The operators on the queue.                                             *)

\* A set of positions has a first.
LEMMA Least ==
  ASSUME NEW S \in SUBSET Nat, S # {}
  PROVE  \E m \in S : \A k \in S : m <= k
<1> DEFINE R == OpToRel(<, Nat)
<1>1. IsWellFoundedOn(R, Nat)
  BY NatLessThanWellFounded
<1>2. \A x, y \in Nat : x < y => <<x, y>> \in R
  BY DEF OpToRel
<1> HIDE DEF R
<1>3. PICK m \in S : \A k \in S : <<k, m>> \notin R
  BY <1>1, WFMin
<1>4. \A k \in S : m <= k
  <2> SUFFICES ASSUME NEW k \in S PROVE m <= k
    OBVIOUS
  <2>1. ~(k < m) /\ k \in Nat /\ m \in Nat
    BY <1>2, <1>3
  <2> QED
    BY <2>1
<1> QED
  BY <1>4

\* Two different futures in the queue stand in some order.
LEMMA Ordered ==
  ASSUME waiters \in Seq(Job), NEW a \in Job, NEW b \in Job,
         InQueue(a), InQueue(b), a # b
  PROVE  Before(a, b) \/ Before(b, a)
<1>1. PICK k \in 1..Len(waiters) : waiters[k] = a
  BY DEF InQueue
<1>2. PICK l \in 1..Len(waiters) : waiters[l] = b
  BY DEF InQueue
<1>3. k # l /\ Len(waiters) \in Nat
  BY <1>1, <1>2, LenProperties
<1>4. k < l \/ l < k
  BY <1>3
<1> QED
  BY <1>1, <1>2, <1>4 DEF Before

\* Removing a future leaves the order of the others.
LEMMA ForgetEffect ==
  ASSUME waiters \in Seq(Job), Once, NEW j \in Job, Forget(j)
  PROVE  /\ \A a, b \in Job : Before(a, b)' <=> Before(a, b) /\ a # j /\ b # j
         /\ \A a \in Job : InQueue(a)' <=> InQueue(a) /\ a # j
<1> DEFINE n == Len(waiters)
<1>1. PICK i \in 1..n :
         /\ waiters[i] = j
         /\ waiters' = SubSeq(waiters, 1, i-1) \o SubSeq(waiters, i+1, n)
  BY DEF Forget
<1>2. n \in Nat /\ \A k \in 1..n : waiters[k] \in Job
  BY LenProperties
<1> DEFINE left == SubSeq(waiters, 1, i-1)
           right == SubSeq(waiters, i+1, n)
           old(k) == IF k < i THEN k ELSE k + 1
<1>3. /\ left \in Seq(Job) /\ Len(left) = i - 1
      /\ \A k \in 1..(i-1) : left[k] = waiters[k]
  BY <1>2, SubSeqProperties
<1>4. /\ right \in Seq(Job) /\ Len(right) = n - i
      /\ \A k \in 1..(n - i) : right[k] = waiters[i + k]
  BY <1>2, SubSeqProperties
<1>5. /\ Len(waiters') = n - 1
      /\ \A k \in 1..(n - 1) : waiters'[k] = waiters[old(k)]
  <2> HIDE DEF left, right, n
  <2>1. waiters' = left \o right
    BY <1>1 DEF left, right, n
  <2>2. /\ Len(left \o right) = (i - 1) + (n - i)
        /\ \A k \in 1..((i - 1) + (n - i)) :
              (left \o right)[k] = IF k <= i - 1 THEN left[k] ELSE right[k - (i - 1)]
    BY <1>3, <1>4, ConcatProperties
  <2>3. ASSUME NEW k \in 1..(n - 1)
        PROVE  (left \o right)[k] = waiters[old(k)]
    <3>1. CASE k < i
      BY <1>2, <1>3, <2>2, <3>1
    <3>2. CASE k >= i
      <4>1. (left \o right)[k] = right[k - (i - 1)]
        BY <1>2, <2>2, <3>2
      <4>2. k - (i - 1) \in 1..(n - i) /\ i + (k - (i - 1)) = k + 1
        BY <1>2, <3>2
      <4> QED
        BY <1>2, <1>4, <3>2, <4>1, <4>2
    <3>3. k < i \/ k >= i
      BY <1>2
    <3> QED
      BY <3>1, <3>2, <3>3
  <2> QED
    BY <1>2, <2>1, <2>2, <2>3
<1>6. \A k \in 1..n : waiters[k] = j => k = i
  BY <1>1, <1>2 DEF Once, Before
<1>7. \A k \in 1..(n - 1) : old(k) \in 1..n /\ old(k) # i
  BY <1>2
<1>8. \A k \in 1..n : k # i => \E m \in 1..(n - 1) : old(m) = k
  <2> SUFFICES ASSUME NEW k \in 1..n, k # i PROVE \E m \in 1..(n - 1) : old(m) = k
    OBVIOUS
  <2>1. CASE k < i
    BY <1>2, <2>1
  <2>2. CASE k > i
    <3>1. k - 1 \in 1..(n - 1) /\ old(k - 1) = k
      BY <1>2, <2>2
    <3> QED
      BY <3>1
  <2> QED
    BY <1>2, <2>1, <2>2
<1>9. \A k, l \in 1..(n - 1) : k < l <=> old(k) < old(l)
  BY <1>2
<1> HIDE DEF n, old
<1>10. ASSUME NEW a \in Job, NEW b \in Job
       PROVE  Before(a, b)' <=> Before(a, b) /\ a # j /\ b # j
  <2>1. ASSUME Before(a, b)'
        PROVE  Before(a, b) /\ a # j /\ b # j
    <3>1. PICK k, l \in 1..(n - 1) : k < l /\ waiters[old(k)] = a /\ waiters[old(l)] = b
      BY <1>5, <2>1 DEF Before
    <3> QED
      BY <1>6, <1>7, <1>9, <3>1 DEF Before, n
  <2>2. ASSUME Before(a, b), a # j, b # j
        PROVE  Before(a, b)'
    <3>1. PICK k, l \in 1..n : k < l /\ waiters[k] = a /\ waiters[l] = b
      BY <2>2 DEF Before, n
    <3>2. k # i /\ l # i
      BY <1>1, <2>2, <3>1
    <3>3. PICK k1 \in 1..(n - 1) : old(k1) = k
      BY <1>8, <3>2
    <3>4. PICK l1 \in 1..(n - 1) : old(l1) = l
      BY <1>8, <3>2
    <3> QED
      BY <1>5, <1>9, <3>1, <3>3, <3>4 DEF Before
  <2> QED
    BY <2>1, <2>2
<1>11. ASSUME NEW a \in Job
       PROVE  InQueue(a)' <=> InQueue(a) /\ a # j
  <2>1. InQueue(a)' <=> \E k \in 1..(n - 1) : waiters[old(k)] = a
    BY <1>5 DEF InQueue
  <2> QED
    BY <1>1, <1>6, <1>7, <1>8, <2>1 DEF InQueue, n
<1> QED
  BY <1>10, <1>11

\* A future that joins stands behind all the others.
LEMMA AppendEffect ==
  ASSUME waiters \in Seq(Job), NEW j \in Job, waiters' = Append(waiters, j)
  PROVE  /\ \A a, b \in Job : Before(a, b)' <=> Before(a, b) \/ (InQueue(a) /\ b = j)
         /\ \A a \in Job : InQueue(a)' <=> InQueue(a) \/ a = j
<1> DEFINE n == Len(waiters)
<1>1. /\ n \in Nat /\ Len(waiters') = n + 1 /\ waiters'[n + 1] = j
      /\ \A k \in 1..n : waiters'[k] = waiters[k]
  BY AppendProperties, LenProperties
<1> HIDE DEF n
<1>2. ASSUME NEW a \in Job
      PROVE  InQueue(a)' <=> InQueue(a) \/ a = j
  <2>1. InQueue(a)' <=> \E k \in 1..(n + 1) : waiters'[k] = a
    BY <1>1 DEF InQueue
  <2>2. InQueue(a) <=> \E k \in 1..n : waiters'[k] = a
    BY <1>1 DEF InQueue, n
  <2>3. 1..(n + 1) = 1..n \cup {n + 1}
    BY <1>1
  <2> QED
    BY <1>1, <2>1, <2>2, <2>3
<1>3. ASSUME NEW a \in Job, NEW b \in Job
      PROVE  Before(a, b)' <=> Before(a, b) \/ (InQueue(a) /\ b = j)
  <2>1. Before(a, b)' <=>
          \E k, l \in 1..(n + 1) : k < l /\ waiters'[k] = a /\ waiters'[l] = b
    BY <1>1 DEF Before
  <2>2. Before(a, b) <=>
          \E k, l \in 1..n : k < l /\ waiters'[k] = a /\ waiters'[l] = b
    BY <1>1 DEF Before, n
  <2>3. InQueue(a) <=> \E k \in 1..n : waiters'[k] = a
    BY <1>1 DEF InQueue, n
  <2>4. \A k, l \in 1..(n + 1) :
          k < l <=> \/ k \in 1..n /\ l \in 1..n /\ k < l
                    \/ k \in 1..n /\ l = n + 1
    BY <1>1
  <2>5. \A k \in 1..n : k \in 1..(n + 1)
    BY <1>1
  <2>6. n + 1 \in 1..(n + 1)
    BY <1>1
  <2> QED
    BY <1>1, <2>1, <2>2, <2>3, <2>4, <2>5, <2>6
<1> QED
  BY <1>2, <1>3

\* If any future is pending, one is the first.
LEMMA SomeoneIsFirst ==
  ASSUME waiters \in Seq(Job), Members, NEW q \in Job, pc[q] = "queued"
  PROVE  \E w \in Job : FirstPending(w)
<1> DEFINE P == {k \in 1..Len(waiters) : pc[waiters[k]] = "queued"}
<1>1. Len(waiters) \in Nat /\ \A k \in 1..Len(waiters) : waiters[k] \in Job
  BY LenProperties
<1>2. P \in SUBSET Nat /\ P # {}
  BY <1>1 DEF Members, InQueue, QueuePc
<1>3. PICK m \in P : \A k \in P : m <= k
  <2> HIDE DEF P
  <2> QED
    BY <1>2, Least
<1>4. \A k \in 1..(m-1) : pc[waiters[k]] # "queued"
  BY <1>1, <1>3
<1> QED
  BY <1>1, <1>3, <1>4 DEF FirstPending

\* The first pending future stands before every other pending one.
LEMMA FirstIsBefore ==
  ASSUME waiters \in Seq(Job), Members, NEW w \in Job, FirstPending(w),
         NEW q \in Job, pc[q] = "queued", q # w
  PROVE  Before(w, q)
<1>1. PICK i \in 1..Len(waiters) :
        waiters[i] = w /\ \A k \in 1..(i-1) : pc[waiters[k]] # "queued"
  BY DEF FirstPending
<1>2. PICK l \in 1..Len(waiters) : waiters[l] = q
  BY DEF Members, InQueue, QueuePc
<1>3. i < l
  <2>1. l \notin 1..(i-1) /\ l # i
    BY <1>1, <1>2
  <2> QED
    BY <2>1, LenProperties
<1> QED
  BY <1>1, <1>2, <1>3 DEF Before
-----------------------------------------------------------------------------
(* The invariant.                                                          *)

\* What handing on a slot does: it wakes the first in line, if a slot is free.
LEMMA WakeInOrder ==
  ASSUME IInv, QueueInv, NEW j \in Job, NEW p \in Pc \ {"queued"}, NEW free \in Nat,
         pc[j] # "queued", WakeNext([pc EXCEPT ![j] = p], free)
  PROVE  /\ pc'[j] = p
         /\ \A k \in Job \ {j} : pc'[k] = pc[k] \/ (pc[k] = "queued" /\ pc'[k] = "granted")
         /\ \A g, q \in Job : /\ pc[g] = "queued" /\ pc'[g] = "granted"
                              /\ pc'[q] = "queued"
                              => Before(g, q)
         /\ NoLostWakeup'
<1>0. pc \in [Job -> Pc] /\ waiters \in Seq(Job)
  BY DEF IInv, TypeOK
<1>1. CASE /\ free > 0
           /\ \E w \in Job : /\ FirstPending(w)
                             /\ pc' = [[pc EXCEPT ![j] = p] EXCEPT ![w] = "granted"]
                             /\ slots' = free - 1
  <2>1. PICK w \in Job : /\ FirstPending(w)
                         /\ pc' = [[pc EXCEPT ![j] = p] EXCEPT ![w] = "granted"]
    BY <1>1
  <2>2. pc[w] = "queued" /\ w # j
    BY <2>1 DEF FirstPending
  <2>3. /\ pc'[j] = p /\ pc'[w] = "granted"
        /\ \A k \in Job \ {j, w} : pc'[k] = pc[k]
    BY <1>0, <2>1, <2>2
  <2>4. \A q \in Job : pc'[q] = "queued" => Before(w, q)
    BY <1>0, <2>1, <2>3, FirstIsBefore DEF QueueInv
  <2>5. NoLostWakeup'
    BY <2>3 DEF NoLostWakeup, In
  <2> QED
    BY <2>2, <2>3, <2>4, <2>5
<1>2. CASE /\ free = 0 \/ \A w \in Job : ~FirstPending(w)
           /\ pc' = [pc EXCEPT ![j] = p]
           /\ slots' = free
  <2>1. pc'[j] = p /\ \A k \in Job \ {j} : pc'[k] = pc[k]
    BY <1>0, <1>2
  <2>2. free = 0 \/ \A q \in Job : pc[q] # "queued"
    BY <1>0, <1>2, SomeoneIsFirst DEF QueueInv
  <2>3. NoLostWakeup'
    BY <1>2, <2>1, <2>2 DEF NoLostWakeup, In
  <2> QED
    BY <2>1, <2>3
<1> QED
  BY <1>1, <1>2 DEF WakeNext

\* A step that leaves the queue and the jobs in it alone.
LEMMA QueueFrame ==
  ASSUME QueueInv, UNCHANGED <<waiters, slots>>,
         \A k \in Job : pc'[k] = pc[k] \/ {pc[k], pc'[k]} \cap QueuePc = {}
  PROVE  QueueInv'
<1>1. \A a, b \in Job : /\ Before(a, b)' <=> Before(a, b)
                        /\ InQueue(a)' <=> InQueue(a)
  BY DEF Before, InQueue
<1>2. \A k \in Job : \A p \in QueuePc : pc'[k] = p <=> pc[k] = p
  OBVIOUS
<1>3. NoLostWakeup'
  BY <1>2 DEF QueueInv, NoLostWakeup, In, QueuePc
<1>4. Once' /\ Members' /\ Fifo'
  BY <1>1, <1>2 DEF QueueInv, Once, Members, Fifo, QueuePc
<1> QED
  BY <1>3, <1>4 DEF QueueInv

LEMMA InitQueue == Init => QueueInv
<1> SUFFICES ASSUME Init PROVE QueueInv
  OBVIOUS
<1>1. Len(waiters) = 0
  BY EmptySeq DEF Init
<1>2. \A a, b \in Job : ~Before(a, b) /\ ~InQueue(a)
  BY <1>1 DEF Before, InQueue
<1> QED
  BY <1>2 DEF Init, QueueInv, Once, Members, Fifo, NoLostWakeup, In, QueuePc

\* A task joins the queue, or takes a slot that nobody waits for.
LEMMA JoiningStep ==
  ASSUME IInv, QueueInv, NEW j \in Job, FirstStep(j)
  PROVE  QueueInv'
<1>0. pc \in [Job -> Pc] /\ waiters \in Seq(Job) /\ slots \in Nat
  BY DEF IInv, TypeOK
<1>1. CASE TakeFreeSlot(j)
  <2>1. \A k \in Job : pc[k] # "queued"
    BY <1>1 DEF TakeFreeSlot, Locked, QueueInv, Members, InQueue, QueuePc
  <2>2. pc' = [pc EXCEPT ![j] = "working"] /\ pc[j] = "created" /\ UNCHANGED waiters
    BY <1>1 DEF FirstStep, TakeFreeSlot
  <2>3. \A k \in Job : pc'[k] = pc[k] \/ {pc[k], pc'[k]} \cap QueuePc = {}
    BY <1>0, <2>2 DEF QueuePc
  <2>4. Once' /\ Members' /\ Fifo'
    <3>1. \A a, b \in Job : /\ Before(a, b)' <=> Before(a, b)
                            /\ InQueue(a)' <=> InQueue(a)
      BY <2>2 DEF Before, InQueue
    <3> QED
      BY <1>0, <2>2, <3>1 DEF QueueInv, Once, Members, Fifo, QueuePc
  <2>5. NoLostWakeup'
    BY <1>0, <2>1, <2>2 DEF NoLostWakeup, In
  <2> QED
    BY <2>4, <2>5 DEF QueueInv
<1>2. CASE JoinQueue(j)
  <2>1. /\ pc' = [pc EXCEPT ![j] = "queued"] /\ pc[j] = "created"
        /\ waiters' = Append(waiters, j) /\ UNCHANGED slots
    BY <1>2 DEF FirstStep, JoinQueue
  <2>2. ~InQueue(j)
    BY <2>1 DEF QueueInv, Members, QueuePc
  <2>3. /\ \A a, b \in Job : Before(a, b)' <=> Before(a, b) \/ (InQueue(a) /\ b = j)
        /\ \A a \in Job : InQueue(a)' <=> InQueue(a) \/ a = j
    BY <1>0, <2>1, AppendEffect
  <2>4. Once' /\ Members' /\ Fifo'
    BY <1>0, <2>1, <2>2, <2>3 DEF QueueInv, Once, Members, Fifo, QueuePc
  <2>5. slots > 0 => \E g \in Job : pc[g] = "granted"
    <3>1. slots > 0 => \E i \in 1..Len(waiters) : pc[waiters[i]] # "dropped"
      BY <1>0, <1>2 DEF JoinQueue, Locked
    <3>2. \A i \in 1..Len(waiters) : waiters[i] \in Job
      BY <1>0, LenProperties
    <3>3. \A i \in 1..Len(waiters) : pc[waiters[i]] \in QueuePc
      BY <3>2 DEF QueueInv, Members, InQueue
    <3> QED
      BY <3>1, <3>2, <3>3 DEF QueuePc, QueueInv, NoLostWakeup, In
  <2>6. NoLostWakeup'
    BY <1>0, <2>1, <2>5 DEF NoLostWakeup, In
  <2> QED
    BY <2>4, <2>6 DEF QueueInv
<1> QED
  BY <1>1, <1>2 DEF FirstStep

\* A task leaves the queue with its slot or without, or hands on the slot it ran
\* with.
LEMMA LeavingSteps ==
  ASSUME IInv, QueueInv, NEW j \in Job, Acquired(j) \/ WaitCancelled(j) \/ Finish(j)
  PROVE  QueueInv'
<1>0. pc \in [Job -> Pc] /\ waiters \in Seq(Job) /\ slots \in Nat /\ slots + 1 \in Nat
  BY DEF IInv, TypeOK
<1>1. ASSUME Forget(j), NEW p \in Pc \ QueuePc, pc'[j] = p, NoLostWakeup',
             \A k \in Job \ {j} : pc'[k] = pc[k] \/ (pc[k] = "queued" /\ pc'[k] = "granted"),
             \A g, q \in Job : /\ pc[g] = "queued" /\ pc'[g] = "granted"
                               /\ pc'[q] = "queued"
                               => Before(g, q)
      PROVE  QueueInv'
  <2>1. /\ \A a, b \in Job : Before(a, b)' <=> Before(a, b) /\ a # j /\ b # j
        /\ \A a \in Job : InQueue(a)' <=> InQueue(a) /\ a # j
    BY <1>0, <1>1, ForgetEffect DEF QueueInv
  <2>2. Once' /\ Members'
    BY <1>1, <2>1 DEF QueueInv, Once, Members, QueuePc
  <2>3. Fifo'
    <3> SUFFICES ASSUME NEW g \in Job, NEW q \in Job, pc'[g] = "granted", pc'[q] = "queued"
                 PROVE  Before(g, q)'
      BY DEF Fifo
    <3>1. g # j /\ q # j /\ pc[q] = "queued"
      BY <1>1 DEF QueuePc
    <3>2. Before(g, q)
      BY <1>1, <3>1 DEF QueueInv, Fifo
    <3> QED
      BY <2>1, <3>1, <3>2
  <2> QED
    BY <1>1, <2>2, <2>3 DEF QueueInv
<1>2. CASE Acquired(j)
  <2>1. /\ Forget(j) /\ WakeNext([pc EXCEPT ![j] = "working"], slots)
        /\ pc[j] # "queued" /\ "working" \in Pc \ QueuePc
    BY <1>2 DEF Acquired, Pc, RunPc, QueuePc
  <2> QED
    BY <1>0, <1>1, <2>1, WakeInOrder DEF QueuePc
<1>3. CASE WaitCancelled(j)
  <2>1. Forget(j) /\ "unstarted" \in Pc \ QueuePc
    BY <1>3 DEF WaitCancelled, Pc, QueuePc
  <2>2. CASE pc[j] = "granted" /\ ReturnSlot(j)
    <3>1. WakeNext([pc EXCEPT ![j] = "unstarted"], slots + 1) /\ pc[j] # "queued"
      BY <2>2 DEF ReturnSlot
    <3> QED
      BY <1>0, <1>1, <2>1, <3>1, WakeInOrder DEF QueuePc
  <2>3. CASE pc[j] = "dropped" /\ pc' = [pc EXCEPT ![j] = "unstarted"] /\ UNCHANGED slots
    <3>1. pc'[j] = "unstarted" /\ \A k \in Job \ {j} : pc'[k] = pc[k]
      BY <1>0, <2>3
    <3>2. NoLostWakeup'
      BY <2>3, <3>1 DEF QueueInv, NoLostWakeup, In
    <3> QED
      BY <1>1, <2>1, <3>1, <3>2
  <2> QED
    BY <1>3, <2>2, <2>3 DEF WaitCancelled
<1>4. CASE Finish(j)
  <2>1. /\ WakeNext([pc EXCEPT ![j] = "done"], slots + 1) /\ UNCHANGED waiters
        /\ pc[j] = "leaving" /\ "done" \in Pc \ {"queued"}
    BY <1>4 DEF Finish, semVars, Pc
  <2>2. /\ pc'[j] = "done"
        /\ \A k \in Job \ {j} : pc'[k] = pc[k] \/ (pc[k] = "queued" /\ pc'[k] = "granted")
        /\ \A g, q \in Job : /\ pc[g] = "queued" /\ pc'[g] = "granted"
                             /\ pc'[q] = "queued"
                             => Before(g, q)
        /\ NoLostWakeup'
    BY <1>0, <2>1, WakeInOrder
  <2>3. \A a, b \in Job : /\ Before(a, b)' <=> Before(a, b)
                          /\ InQueue(a)' <=> InQueue(a)
    BY <2>1 DEF Before, InQueue
  <2>4. Once' /\ Members'
    BY <2>1, <2>2, <2>3 DEF QueueInv, Once, Members, QueuePc
  <2>5. Fifo'
    <3> SUFFICES ASSUME NEW g \in Job, NEW q \in Job, pc'[g] = "granted", pc'[q] = "queued"
                 PROVE  Before(g, q)'
      BY DEF Fifo
    <3>1. g # j /\ q # j /\ pc[q] = "queued"
      BY <2>2
    <3>2. Before(g, q)
      BY <2>2, <3>1 DEF QueueInv, Fifo
    <3> QED
      BY <2>3, <3>2
  <2> QED
    BY <2>2, <2>4, <2>5 DEF QueueInv
<1> QED
  BY <1>2, <1>3, <1>4

\* A cancellation only takes pending futures out of the race.
LEMMA CancelQueue ==
  ASSUME IInv, QueueInv, NEW T \in SUBSET Job, NEW c, Cancel(T, c),
         T \cap In({"created"}) = {}
  PROVE  QueueInv'
<1>1. \A k \in Job : pc'[k] = pc[k] \/ (pc[k] = "queued" /\ pc'[k] = "dropped")
  BY DEF Cancel, AfterCancel, In
<1>2. UNCHANGED <<waiters, slots>>
  BY DEF Cancel, semVars
<1>3. \A a, b \in Job : /\ Before(a, b)' <=> Before(a, b)
                        /\ InQueue(a)' <=> InQueue(a)
  BY <1>2 DEF Before, InQueue
<1>4. Once' /\ Members' /\ Fifo'
  BY <1>1, <1>3 DEF QueueInv, Once, Members, Fifo, QueuePc
<1>5. NoLostWakeup'
  BY <1>1, <1>2 DEF QueueInv, NoLostWakeup, In
<1> QED
  BY <1>4, <1>5 DEF QueueInv

LEMMA NextQueue == IInv /\ QueueInv /\ [Next]_vars => QueueInv'
<1> SUFFICES ASSUME IInv, QueueInv, [Next]_vars PROVE QueueInv'
  OBVIOUS
<1>0. pc \in [Job -> Pc]
  BY DEF IInv, TypeOK
<1>1. ASSUME NEW j \in Job,
             \/ Submit(j) \/ RejectionReturns(j) \/ MarkWritten(j) \/ MarkRaises(j)
             \/ UnstartedMarked(j) \/ UnstartedInterrupted(j) \/ Complete(j)
             \/ Raise(j) \/ Return(j) \/ Interrupt(j)
      PROVE  QueueInv'
  <2>1. /\ UNCHANGED <<waiters, slots>>
        /\ \/ pc' = pc
           \/ \E p \in Pc \ QueuePc : pc[j] \notin QueuePc /\ pc' = [pc EXCEPT ![j] = p]
    BY <1>1 DEF Submit, Accept, Reject, RejectionReturns, MarkWritten, MarkRaises,
                UnstartedMarked, UnstartedInterrupted, Complete, Raise, Return, Interrupt,
                Leave, semVars, taskVars, Pc, QueuePc, WaitPc, RunPc
  <2>2. \A k \in Job : pc'[k] = pc[k] \/ {pc[k], pc'[k]} \cap QueuePc = {}
    BY <1>0, <2>1
  <2> QED
    BY <2>1, <2>2, QueueFrame
<1>2. ASSUME NEW j \in Job, FirstStep(j) \/ Acquired(j) \/ WaitCancelled(j) \/ Finish(j)
      PROVE  QueueInv'
  BY <1>2, JoiningStep, LeavingSteps
<1>3. ASSUME NEW j \in Job, Timer(j)
      PROVE  QueueInv'
  <2>1. Cancel({j}, "timer") /\ {j} \cap In({"created"}) = {}
    BY <1>3 DEF Timer, In, RunPc
  <2> QED
    BY <2>1, CancelQueue
<1>4. CASE CloseCancelWaiting
  <2>1. (Live \ running) \cap In({"created"}) = {} /\ Live \ running \in SUBSET Job
    BY <1>4 DEF CloseCancelWaiting, YieldOver, Live, In
  <2> HIDE DEF Live
  <2> QED
    BY <1>4, <2>1, CancelQueue DEF CloseCancelWaiting
<1>5. CASE GraceEnd
  <2>1. running \cap In({"created"}) = {} /\ running \in SUBSET Job
    BY DEF IInv, TypeOK, Counts, In, RunPc
  <2> QED
    BY <1>5, <2>1, CancelQueue DEF GraceEnd
<1>6. CASE CloseStart \/ DrainEnd \/ Exit \/ Stopped \/ UNCHANGED vars
  <2>1. UNCHANGED <<pc, waiters, slots>>
    BY <1>6 DEF CloseStart, DrainEnd, Exit, Stopped, vars, taskVars, semVars
  <2> QED
    BY <2>1, QueueFrame
<1> QED
  BY <1>1, <1>2, <1>3, <1>4, <1>5, <1>6 DEF Next, TaskStep, Write, CloseStep

\* The queue stays in order, for any number of waiting tasks.
THEOREM QueueInOrder == Spec => []QueueInv
<1>1. Init => QueueInv
  BY InitQueue
<1>2. IInv /\ QueueInv /\ [Next]_vars => QueueInv'
  BY NextQueue
<1> QED
  BY <1>1, <1>2, Invariance, PTL DEF Spec

-----------------------------------------------------------------------------
(* What the invariant gives.                                               *)

\* However releases, timers and close() interleave, no job sleeps beside a free
\* slot unless another is about to pass the wake-up on.
THEOREM WakeupsAreKept == Spec => []NoLostWakeup
<1>1. QueueInv => NoLostWakeup
  BY DEF QueueInv
<1> QED
  BY <1>1, QueueInOrder, PTL

\* A job that starts is first in line: no newcomer takes the slot that is on its
\* way to the head of the queue.
THEOREM NobodyIsOvertaken == Spec => NoOvertaking
<1>1. ASSUME IInv, QueueInv, [Next]_vars, NEW j \in running' \ running, NEW i \in In({"queued"})
      PROVE  Before(j, i)
  <2>1. i \in Job /\ pc[i] = "queued"
    BY DEF In
  <2>2. ASSUME NEW k \in Job, FirstStep(k)
        PROVE  Before(j, i)
    <3>1. CASE TakeFreeSlot(k)
      BY <1>1, <2>1, <3>1 DEF TakeFreeSlot, Locked, QueueInv, Members, InQueue, QueuePc
    <3>2. CASE JoinQueue(k)
      BY <1>1, <3>2 DEF JoinQueue
    <3> QED
      BY <2>2, <3>1, <3>2 DEF FirstStep
  <2>3. ASSUME NEW k \in Job, Acquired(k)
        PROVE  Before(j, i)
    <3>1. j = k /\ pc[k] = "granted"
      BY <1>1, <2>3 DEF Acquired, EnterRun
    <3> QED
      BY <1>1, <2>1, <3>1 DEF QueueInv, Fifo
  <2>4. CASE \/ \E k \in Job :
                  \/ Submit(k) \/ RejectionReturns(k) \/ Write(k) \/ UnstartedMarked(k)
                  \/ UnstartedInterrupted(k) \/ Complete(k) \/ Raise(k) \/ Return(k)
                  \/ Interrupt(k) \/ WaitCancelled(k) \/ Finish(k) \/ Timer(k)
             \/ CloseStart \/ CloseStep \/ Stopped \/ UNCHANGED vars
    <3>1. running' \subseteq running
      BY <2>4
      DEF Submit, Accept, Reject, RejectionReturns, Write, MarkWritten, MarkRaises,
          UnstartedMarked, UnstartedInterrupted, Complete, Raise, Return, Leave, Interrupt,
          WaitCancelled, Finish, Timer, Cancel, CloseStart, CloseStep, CloseCancelWaiting,
          GraceEnd, DrainEnd, Exit, Stopped, vars
    <3> QED
      BY <1>1, <3>1
  <2> QED
    BY <1>1, <2>2, <2>3, <2>4 DEF Next, TaskStep
<1>2. IInv /\ QueueInv /\ [Next]_vars =>
        [\A j \in running' \ running, i \in In({"queued"}) : Before(j, i)]_vars
  BY <1>1
<1> QED
  BY <1>2, Invariance, QueueInOrder, PTL DEF Spec, NoOvertaking
=============================================================================
