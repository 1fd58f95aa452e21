--------------------------- MODULE ConnPool_proof ---------------------------
(***************************************************************************)
(* Proofs about the connection pool, for any finite number of workers and  *)
(* of connections.                                                         *)
(***************************************************************************)
EXTENDS ConnPool, FiniteSetTheorems, TLAPS

(* A worker is inside mu_ exactly where acquire() and release() own it.    *)
OwnsMutex ==
    \A w \in Workers : stage[w] \in {"test", "take", "push"} => mu = w

(* The inductive invariant.  OwnsMutex is what keeps the queue non-empty   *)
(* between the predicate and pop(); the rest is inductive together.        *)
PoolInv ==
    /\ PoolTypeOK
    /\ HoldersInUse
    /\ ConnsExclusive
    /\ ConnsConserved
    /\ OwnsMutex
    /\ NeverPopsEmpty
    /\ NoLostWakeup
-----------------------------------------------------------------------------
(* The positions of a queue after front()/pop().                           *)
LEMMA TailPositions ==
    ASSUME NEW S, NEW q \in Seq(S), q # <<>>
    PROVE  /\ Tail(q) \in Seq(S)
           /\ Head(q) = q[1]
           /\ 1 \in DOMAIN q
           /\ Len(Tail(q)) = Len(q) - 1
           /\ \A i \in DOMAIN Tail(q) : i + 1 \in DOMAIN q /\ Tail(q)[i] = q[i + 1]
           /\ \A j \in DOMAIN q : j # 1 => j - 1 \in DOMAIN Tail(q)
                                            /\ Tail(q)[j - 1] = q[j]
  OBVIOUS

(* The positions of a queue after push().                                  *)
LEMMA AppendPositions ==
    ASSUME NEW S, NEW q \in Seq(S), NEW x \in S
    PROVE  /\ Append(q, x) \in Seq(S)
           /\ Len(Append(q, x)) = Len(q) + 1
           /\ DOMAIN Append(q, x) = DOMAIN q \cup {Len(q) + 1}
           /\ Len(q) + 1 \notin DOMAIN q
           /\ \A i \in DOMAIN q : Append(q, x)[i] = q[i]
           /\ Append(q, x)[Len(q) + 1] = x
  OBVIOUS

(* The constructor establishes the invariant.                              *)
LEMMA PoolInitial == PoolInit => PoolInv
<1> SUFFICES ASSUME PoolInit PROVE PoolInv
    OBVIOUS
<1> DEFINE n == Cardinality(Conns)
<1>1. n \in Nat
    BY PoolAssumption, FS_CardinalityType
<1>2. /\ pool \in [1 .. n -> Conns]
      /\ \A i, j \in 1 .. n : pool[i] = pool[j] => i = j
      /\ \A c \in Conns : \E i \in 1 .. n : pool[i] = c
    BY DEF PoolInit, Bijection, Injection, Surjection, IsInjective
<1>3. pool \in Seq(Conns) /\ DOMAIN pool = 1 .. n
    BY <1>1, <1>2
<1>4. PoolTypeOK
    BY <1>3 DEF PoolInit, PoolTypeOK, Stages
<1>5. HoldersInUse /\ OwnsMutex /\ NeverPopsEmpty
    BY DEF PoolInit, HoldersInUse, OwnsMutex, NeverPopsEmpty
<1>6. ConnsExclusive
    BY <1>2, <1>3, PoolAssumption DEF PoolInit, ConnsExclusive
<1>7. ConnsConserved
    BY <1>2, <1>3 DEF ConnsConserved
<1>8. NoLostWakeup
    BY DEF PoolInit, NoLostWakeup, Waiting
<1> QED
    BY <1>4, <1>5, <1>6, <1>7, <1>8 DEF PoolInv

-----------------------------------------------------------------------------
(* How the number of contending workers follows the sets.                  *)
LEMMA ContendingFinite == IsFiniteSet(Contending) /\ Cardinality(Contending) \in Nat
  BY PoolAssumption, FS_Subset, FS_CardinalityType DEF Contending

LEMMA OneMoreContends ==
    ASSUME NEW w, w \notin Contending
    PROVE  Cardinality(Contending \cup {w}) = Cardinality(Contending) + 1
  BY ContendingFinite, FS_AddElement

LEMMA OneLessContends ==
    ASSUME NEW w, w \in Contending
    PROVE  Cardinality(Contending \ {w}) = Cardinality(Contending) - 1
  BY ContendingFinite, FS_RemoveElement

(* The steps that move one worker and touch neither queue nor holder:      *)
(* everything about the connections is kept.                               *)
LEMMA ConnsUntouched ==
    ASSUME PoolInv, UNCHANGED <<pool, held, closed>>
    PROVE  ConnsExclusive' /\ ConnsConserved'
  BY DEF PoolInv, ConnsExclusive, ConnsConserved

LEMMA CallAcquireStep ==
    ASSUME PoolInv, NEW w \in Workers, CallAcquire(w)
    PROVE  PoolInv'
<1> USE DEF PoolInv, CallAcquire
<1>1. PoolTypeOK'
    BY DEF PoolTypeOK, Stages
<1>2. HoldersInUse' /\ OwnsMutex' /\ NeverPopsEmpty'
    BY DEF PoolTypeOK, HoldersInUse, OwnsMutex, NeverPopsEmpty
<1>3. NoLostWakeup'
    <2>1. Contending' = Contending \cup {w} /\ w \notin Contending /\ Waiting' = Waiting
        BY DEF PoolTypeOK, Contending, Waiting
    <2>2. Cardinality(Contending') = Cardinality(Contending) + 1
        BY <2>1, OneMoreContends
    <2>3. Len(pool) \in Nat
        BY DEF PoolTypeOK
    <2> QED
        BY <2>1, <2>2, <2>3, ContendingFinite DEF NoLostWakeup
<1> QED
    BY <1>1, <1>2, <1>3, ConnsUntouched

LEMMA LockToAcquireStep ==
    ASSUME PoolInv, NEW w \in Workers, LockToAcquire(w)
    PROVE  PoolInv'
<1> USE DEF PoolInv, LockToAcquire
<1>1. PoolTypeOK'
    BY DEF PoolTypeOK, Stages
<1>2. OwnsMutex'
    <2>1. \A v \in Workers : stage[v] \notin {"test", "take", "push"}
        BY PoolAssumption DEF OwnsMutex
    <2> QED
        BY <2>1 DEF PoolTypeOK, OwnsMutex
<1>3. HoldersInUse' /\ NeverPopsEmpty'
    BY DEF PoolTypeOK, HoldersInUse, NeverPopsEmpty
<1>4. NoLostWakeup'
    <2>1. Contending' = Contending /\ Waiting' = Waiting
        BY DEF PoolTypeOK, Contending, Waiting
    <2> QED
        BY <2>1 DEF NoLostWakeup
<1> QED
    BY <1>1, <1>2, <1>3, <1>4, ConnsUntouched

LEMMA BlockStep ==
    ASSUME PoolInv, NEW w \in Workers, Block(w)
    PROVE  PoolInv'
<1> USE DEF PoolInv, Block
<1>1. PoolTypeOK'
    BY DEF PoolTypeOK, Stages
<1>2. OwnsMutex'
    <2>1. \A v \in Workers : v # w => stage[v] \notin {"test", "take", "push"}
        BY DEF OwnsMutex
    <2> QED
        BY <2>1 DEF PoolTypeOK, OwnsMutex
<1>3. HoldersInUse' /\ NeverPopsEmpty'
    BY DEF PoolTypeOK, HoldersInUse, NeverPopsEmpty
<1>4. NoLostWakeup'
    <2>1. Contending' = Contending \ {w} /\ w \in Contending
        BY DEF PoolTypeOK, Contending
    <2>2. Cardinality(Contending') \in Nat
        BY <2>1, ContendingFinite, FS_RemoveElement, FS_CardinalityType
    <2> QED
        BY <2>2 DEF NoLostWakeup
<1> QED
    BY <1>1, <1>2, <1>3, <1>4, ConnsUntouched

LEMMA SeeConnStep ==
    ASSUME PoolInv, NEW w \in Workers, SeeConn(w)
    PROVE  PoolInv'
<1> USE DEF PoolInv, SeeConn
<1>1. PoolTypeOK'
    BY DEF PoolTypeOK, Stages
<1>2. HoldersInUse' /\ OwnsMutex' /\ NeverPopsEmpty'
    BY DEF PoolTypeOK, HoldersInUse, OwnsMutex, NeverPopsEmpty
<1>3. NoLostWakeup'
    <2>1. Contending' = Contending /\ Waiting' = Waiting
        BY DEF PoolTypeOK, Contending, Waiting
    <2> QED
        BY <2>1 DEF NoLostWakeup
<1> QED
    BY <1>1, <1>2, <1>3, ConnsUntouched

LEMMA TakeFrontStep ==
    ASSUME PoolInv, NEW w \in Workers, TakeFront(w)
    PROVE  PoolInv'
<1> USE DEF PoolInv, TakeFront
<1>1. pool \in Seq(Conns) /\ pool # <<>>
    BY DEF PoolTypeOK, NeverPopsEmpty
<1>2. /\ Tail(pool) \in Seq(Conns)
      /\ Head(pool) = pool[1]
      /\ 1 \in DOMAIN pool
      /\ pool[1] \in Conns
      /\ Len(Tail(pool)) = Len(pool) - 1
      /\ \A i \in DOMAIN Tail(pool) : i + 1 \in DOMAIN pool /\ Tail(pool)[i] = pool[i + 1]
      /\ \A j \in DOMAIN pool : j # 1 => j - 1 \in DOMAIN Tail(pool)
                                          /\ Tail(pool)[j - 1] = pool[j]
    BY <1>1, TailPositions
<1>3. PoolTypeOK'
    BY <1>2 DEF PoolTypeOK, Stages
<1>4. held[w] = None
    BY DEF HoldersInUse
<1>5. HoldersInUse'
    BY <1>2, PoolAssumption DEF PoolTypeOK, HoldersInUse
<1>6. OwnsMutex' /\ NeverPopsEmpty'
    <2>1. \A v \in Workers : v # w => stage[v] \notin {"test", "take", "push"}
        BY DEF OwnsMutex
    <2> QED
        BY <2>1 DEF PoolTypeOK, OwnsMutex, NeverPopsEmpty
<1>7. ConnsExclusive'
    <2>0. DOMAIN Tail(pool) \subseteq Nat /\ DOMAIN pool \subseteq Nat /\ \A i \in DOMAIN Tail(pool) : i # 0
        BY <1>1, <1>2
    <2>1. \A i, j \in DOMAIN pool' : pool'[i] = pool'[j] => i = j
        BY <2>0, <1>2 DEF ConnsExclusive
    <2>2. \A u, v \in Workers : held'[u] = held'[v] /\ held'[u] # None => u = v
        BY <1>2 DEF PoolTypeOK, ConnsExclusive
    <2>3. \A i \in DOMAIN pool', v \in Workers : pool'[i] # held'[v]
        <3> TAKE i \in DOMAIN pool', v \in Workers
        <3>1. pool'[i] = pool[i + 1] /\ i + 1 \in DOMAIN pool /\ i + 1 # 1
            BY <1>2, <2>0
        <3>2. CASE v = w
            BY <3>1, <3>2, <1>2 DEF PoolTypeOK, ConnsExclusive
        <3>3. CASE v # w
            BY <3>1, <3>3 DEF PoolTypeOK, ConnsExclusive
        <3> QED
            BY <3>2, <3>3
    <2>4. \A i \in DOMAIN pool' : pool'[i] \notin closed'
        BY <1>2 DEF ConnsExclusive
    <2>5. \A v \in Workers : held'[v] \notin closed'
        BY <1>2 DEF PoolTypeOK, ConnsExclusive
    <2> QED
        BY <2>1, <2>2, <2>3, <2>4, <2>5 DEF ConnsExclusive
<1>8. ConnsConserved'
    <2> SUFFICES ASSUME NEW c \in Conns
                 PROVE  \/ \E i \in DOMAIN pool' : pool'[i] = c
                        \/ \E v \in Workers : held'[v] = c
                        \/ c \in closed'
        BY DEF ConnsConserved
    <2>1. CASE c = pool[1]
        BY <2>1, <1>2 DEF PoolTypeOK
    <2>2. CASE \E i \in DOMAIN pool : i # 1 /\ pool[i] = c
        BY <2>2, <1>2
    <2>3. CASE \E v \in Workers : held[v] = c
        BY <2>3, <1>4, PoolAssumption DEF PoolTypeOK
    <2>4. CASE c \in closed
        BY <2>4
    <2> QED
        BY <2>1, <2>2, <2>3, <2>4 DEF ConnsConserved
<1>9. NoLostWakeup'
    <2>1. Contending' = Contending \ {w} /\ w \in Contending /\ Waiting' = Waiting
        BY DEF PoolTypeOK, Contending, Waiting
    <2>2. Len(pool) \in Nat
        BY <1>1
    <2>3. Cardinality(Contending') = Cardinality(Contending) - 1
        BY <2>1, OneLessContends
    <2> QED
        BY <1>2, <2>1, <2>2, <2>3, ContendingFinite DEF NoLostWakeup
<1> QED
    BY <1>3, <1>5, <1>6, <1>7, <1>8, <1>9

LEMMA SpuriousWakeupStep ==
    ASSUME PoolInv, NEW w \in Workers, SpuriousWakeup(w)
    PROVE  PoolInv'
<1> USE DEF PoolInv, SpuriousWakeup
<1>1. PoolTypeOK'
    BY DEF PoolTypeOK, Stages
<1>2. HoldersInUse' /\ OwnsMutex' /\ NeverPopsEmpty'
    BY DEF PoolTypeOK, HoldersInUse, OwnsMutex, NeverPopsEmpty
<1>3. NoLostWakeup'
    <2>1. Contending' = Contending \cup {w} /\ w \notin Contending /\ Waiting # {}
        BY DEF PoolTypeOK, Contending, Waiting
    <2>2. Cardinality(Contending') = Cardinality(Contending) + 1
        BY <2>1, OneMoreContends
    <2>3. Len(pool) \in Nat
        BY DEF PoolTypeOK
    <2> QED
        BY <2>1, <2>2, <2>3, ContendingFinite DEF NoLostWakeup
<1> QED
    BY <1>1, <1>2, <1>3, ConnsUntouched

LEMMA CallReleaseStep ==
    ASSUME PoolInv, NEW w \in Workers, CallRelease(w)
    PROVE  PoolInv'
<1> USE DEF PoolInv, CallRelease
<1>1. PoolTypeOK'
    BY DEF PoolTypeOK, Stages
<1>2. HoldersInUse' /\ OwnsMutex' /\ NeverPopsEmpty'
    BY DEF PoolTypeOK, HoldersInUse, OwnsMutex, NeverPopsEmpty
<1>3. NoLostWakeup'
    <2>1. Contending' = Contending /\ Waiting' = Waiting
        BY DEF PoolTypeOK, Contending, Waiting
    <2> QED
        BY <2>1 DEF NoLostWakeup
<1> QED
    BY <1>1, <1>2, <1>3, ConnsUntouched

LEMMA LockToReleaseStep ==
    ASSUME PoolInv, NEW w \in Workers, LockToRelease(w)
    PROVE  PoolInv'
<1> USE DEF PoolInv, LockToRelease
<1>1. PoolTypeOK'
    BY DEF PoolTypeOK, Stages
<1>2. OwnsMutex'
    <2>1. \A v \in Workers : stage[v] \notin {"test", "take", "push"}
        BY PoolAssumption DEF OwnsMutex
    <2> QED
        BY <2>1 DEF PoolTypeOK, OwnsMutex
<1>3. HoldersInUse' /\ NeverPopsEmpty'
    BY DEF PoolTypeOK, HoldersInUse, NeverPopsEmpty
<1>4. NoLostWakeup'
    <2>1. Contending' = Contending /\ Waiting' = Waiting
        BY DEF PoolTypeOK, Contending, Waiting
    <2> QED
        BY <2>1 DEF NoLostWakeup
<1> QED
    BY <1>1, <1>2, <1>3, <1>4, ConnsUntouched

LEMMA PushStep ==
    ASSUME PoolInv, NEW w \in Workers, Push(w)
    PROVE  PoolInv'
<1> USE DEF PoolInv, Push
<1>1. /\ pool \in Seq(Conns) /\ Len(pool) \in Nat
      /\ held[w] \in Conns
    BY DEF PoolTypeOK, HoldersInUse
<1>2. /\ pool' \in Seq(Conns)
      /\ Len(pool') = Len(pool) + 1
      /\ DOMAIN pool' = DOMAIN pool \cup {Len(pool) + 1}
      /\ Len(pool) + 1 \notin DOMAIN pool
      /\ \A i \in DOMAIN pool : pool'[i] = pool[i]
      /\ pool'[Len(pool) + 1] = held[w]
    BY <1>1, AppendPositions
<1>3. \/ /\ Waiting = {}
         /\ stage' = [stage EXCEPT ![w] = "idle"]
      \/ \E v \in Waiting : /\ v # w /\ v \in Workers /\ stage[v] = "wait"
                            /\ stage' = [stage EXCEPT ![w] = "idle", ![v] = "lock"]
    BY DEF Waiting
<1>4. PoolTypeOK'
    BY <1>2, <1>3 DEF PoolTypeOK, Stages
<1>5. HoldersInUse'
    BY <1>3, PoolAssumption DEF PoolTypeOK, HoldersInUse
<1>6. OwnsMutex'
    <2>1. \A v \in Workers : v # w => stage[v] \notin {"test", "take", "push"}
        BY DEF OwnsMutex
    <2> QED
        BY <1>3, <2>1 DEF PoolTypeOK, OwnsMutex
<1>7. NeverPopsEmpty'
    BY <1>1, <1>2
       DEF NeverPopsEmpty
<1>8. ConnsExclusive'
    <2>1. \A i \in DOMAIN pool : pool[i] # held[w]
        BY DEF ConnsExclusive
    <2>2. \A i, j \in DOMAIN pool' : pool'[i] = pool'[j] => i = j
        BY <1>2, <2>1 DEF ConnsExclusive
    <2>3. \A u, v \in Workers : held'[u] = held'[v] /\ held'[u] # None => u = v
        BY DEF PoolTypeOK, ConnsExclusive
    <2>4. \A i \in DOMAIN pool', v \in Workers : pool'[i] # held'[v]
        <3> TAKE i \in DOMAIN pool', v \in Workers
        <3>1. CASE v = w
            BY <3>1, <1>1, <1>2, PoolAssumption DEF PoolTypeOK
        <3>2. CASE v # w /\ i \in DOMAIN pool
            BY <3>2, <1>2 DEF PoolTypeOK, ConnsExclusive
        <3>3. CASE v # w /\ i = Len(pool) + 1
            BY <3>3, <1>1, <1>2, PoolAssumption DEF PoolTypeOK, ConnsExclusive
        <3> QED
            BY <3>1, <3>2, <3>3, <1>2
    <2>5. \A i \in DOMAIN pool' : pool'[i] \notin closed'
        BY <1>2 DEF ConnsExclusive
    <2>6. \A v \in Workers : held'[v] \notin closed'
        BY PoolAssumption DEF PoolTypeOK, ConnsExclusive
    <2> QED
        BY <2>2, <2>3, <2>4, <2>5, <2>6 DEF ConnsExclusive
<1>9. ConnsConserved'
    <2> SUFFICES ASSUME NEW c \in Conns
                 PROVE  \/ \E i \in DOMAIN pool' : pool'[i] = c
                        \/ \E v \in Workers : held'[v] = c
                        \/ c \in closed'
        BY DEF ConnsConserved
    <2>1. CASE c = held[w]
        BY <2>1, <1>2
    <2>2. CASE \E i \in DOMAIN pool : pool[i] = c
        BY <2>2, <1>2
    <2>3. CASE \E v \in Workers : v # w /\ held[v] = c
        BY <2>3 DEF PoolTypeOK
    <2>4. CASE c \in closed
        BY <2>4
    <2> QED
        BY <2>1, <2>2, <2>3, <2>4 DEF ConnsConserved
<1>10. NoLostWakeup'
    <2>1. CASE Waiting = {}
        <3>1. Waiting' = {}
            BY <2>1 DEF PoolTypeOK, Waiting
        <3> QED
            BY <3>1 DEF NoLostWakeup
    <2>2. CASE Waiting # {}
        <3>1. PICK v \in Waiting : /\ v # w /\ v \in Workers /\ stage[v] = "wait"
                                  /\ stage' = [stage EXCEPT ![w] = "idle", ![v] = "lock"]
            BY <1>3, <2>2
        <3>2. Contending' = Contending \cup {v} /\ v \notin Contending
            BY <3>1 DEF PoolTypeOK, Contending
        <3>3. Cardinality(Contending') = Cardinality(Contending) + 1
            BY <3>2, OneMoreContends
        <3> QED
            BY <1>1, <1>2, <2>2, <3>3, ContendingFinite DEF NoLostWakeup
    <2> QED
        BY <2>1, <2>2
<1> QED
    BY <1>4, <1>5, <1>6, <1>7, <1>8, <1>9, <1>10

LEMMA UnwindStep ==
    ASSUME PoolInv, NEW w \in Workers, Unwind(w)
    PROVE  PoolInv'
<1> USE DEF PoolInv, Unwind
<1>1. held[w] \in Conns
    BY DEF PoolTypeOK, HoldersInUse
<1>2. PoolTypeOK'
    BY <1>1 DEF PoolTypeOK, Stages
<1>3. HoldersInUse' /\ OwnsMutex' /\ NeverPopsEmpty'
    BY DEF PoolTypeOK, HoldersInUse, OwnsMutex, NeverPopsEmpty
<1>4. ConnsExclusive'
    BY <1>1, PoolAssumption DEF PoolTypeOK, ConnsExclusive
<1>5. ConnsConserved'
    <2> SUFFICES ASSUME NEW c \in Conns
                 PROVE  \/ \E i \in DOMAIN pool' : pool'[i] = c
                        \/ \E v \in Workers : held'[v] = c
                        \/ c \in closed'
        BY DEF ConnsConserved
    <2>1. CASE c = held[w]
        BY <2>1
    <2>2. CASE \E v \in Workers : v # w /\ held[v] = c
        BY <2>2 DEF PoolTypeOK
    <2>3. CASE (\E i \in DOMAIN pool : pool[i] = c) \/ c \in closed
        BY <2>3
    <2> QED
        BY <2>1, <2>2, <2>3 DEF ConnsConserved
<1>6. NoLostWakeup'
    <2>1. Contending' = Contending /\ Waiting' = Waiting
        BY DEF PoolTypeOK, Contending, Waiting
    <2> QED
        BY <2>1 DEF NoLostWakeup
<1> QED
    BY <1>2, <1>3, <1>4, <1>5, <1>6

LEMMA PoolStutters ==
    ASSUME PoolInv, UNCHANGED connVars
    PROVE  PoolInv'
  BY DEF PoolInv, connVars, PoolTypeOK, HoldersInUse, ConnsExclusive,
         ConnsConserved, OwnsMutex, NeverPopsEmpty, NoLostWakeup,
         Waiting, Contending

LEMMA PoolStep == PoolInv /\ [PoolNext]_connVars => PoolInv'
<1> SUFFICES ASSUME PoolInv, PoolNext \/ UNCHANGED connVars
             PROVE  PoolInv'
    OBVIOUS
<1>1. CASE PoolNext
    <2>1. PICK w \in Workers :
              \/ CallAcquire(w) \/ LockToAcquire(w) \/ Block(w) \/ SpuriousWakeup(w)
              \/ SeeConn(w)     \/ TakeFront(w)
              \/ CallRelease(w) \/ LockToRelease(w) \/ Push(w)
              \/ Unwind(w)
        BY <1>1 DEF PoolNext
    <2> QED
        BY <2>1, CallAcquireStep, LockToAcquireStep, BlockStep, SpuriousWakeupStep,
           SeeConnStep, TakeFrontStep, CallReleaseStep, LockToReleaseStep,
           PushStep, UnwindStep
<1>2. CASE UNCHANGED connVars
    BY <1>2, PoolStutters
<1> QED
    BY <1>1, <1>2

(* Anything that behaves like the pool keeps the invariant, whatever its   *)
(* fairness: the service is used through this form.                        *)
THEOREM PoolSafety == PoolInit /\ [][PoolNext]_connVars => []PoolInv
  BY PoolInitial, PoolStep, PTL

(* Every state of the pool is well typed.                                  *)
THEOREM PoolTypeCorrect == PoolSpec => []PoolTypeOK
  BY PoolSafety, PTL DEF PoolSpec, PoolInv

(* No connection is ever used by two workers, used while it rests in the   *)
(* queue, or used after it was closed.                                     *)
THEOREM Exclusive == PoolSpec => []ConnsExclusive
  BY PoolSafety, PTL DEF PoolSpec, PoolInv

(* A worker has a connection exactly where its handler or release() does,  *)
(* so no path out of a handler keeps one.                                  *)
THEOREM NobodyKeepsOne == PoolSpec => []HoldersInUse
  BY PoolSafety, PTL DEF PoolSpec, PoolInv

(* No connection vanishes: one that nobody holds rests in the queue, or    *)
(* was closed by an exception.                                             *)
THEOREM Conserved == PoolSpec => []ConnsConserved
  BY PoolSafety, PTL DEF PoolSpec, PoolInv

(* acquire() never calls front() on an empty queue.                        *)
THEOREM PopsSafely == PoolSpec => []NeverPopsEmpty
  BY PoolSafety, PTL DEF PoolSpec, PoolInv

(* One notify_one per push is enough: connections do not rest in the queue *)
(* while workers sleep and nobody is awake to take them.                   *)
THEOREM WakeupsSuffice == PoolSpec => []NoLostWakeup
  BY PoolSafety, PTL DEF PoolSpec, PoolInv
-----------------------------------------------------------------------------
(* Owner is the inverse of held.                                           *)
OwnerInverse ==
    /\ Owner \in [Conns -> Workers \cup {None}]
    /\ \A c \in Conns, w \in Workers : Owner[c] = w <=> held[w] = c

LEMMA OwnerInverts == PoolInv => OwnerInverse
<1> SUFFICES ASSUME PoolInv, NEW c \in Conns
             PROVE  /\ Owner[c] \in Workers \cup {None}
                    /\ \A w \in Workers : Owner[c] = w <=> held[w] = c
    BY DEF Owner, OwnerInverse
<1>1. CASE \E w \in Workers : held[w] = c
    <2>1. Owner[c] \in Workers /\ held[Owner[c]] = c
        BY <1>1 DEF Owner
    <2> QED
        BY <2>1, PoolAssumption DEF PoolInv, ConnsExclusive
<1>2. CASE ~\E w \in Workers : held[w] = c
    BY <1>2, PoolAssumption DEF Owner
<1> QED
    BY <1>1, <1>2

LEMMA InitialImplements == PoolInit => Abstract!Init
<1> SUFFICES ASSUME PoolInit PROVE Abstract!Init
    OBVIOUS
<1>1. PoolInv
    BY PoolInitial
<1>2. Asking = {}
    BY DEF Asking, Asked, PoolInit
<1>3. Free = Conns
    <2>1. Free \subseteq Conns
        BY <1>1 DEF Free, PoolInv, PoolTypeOK
    <2>2. \A w \in Workers : held[w] = None
        BY DEF PoolInit
    <2>3. \A c \in Conns : \E i \in DOMAIN pool : pool[i] = c
        BY <1>1, <2>2, PoolAssumption DEF PoolInv, ConnsConserved, PoolInit
    <2> QED
        BY <2>1, <2>3 DEF Free
<1>4. Owner = [c \in Conns |-> None]
    BY PoolAssumption DEF Owner, PoolInit
<1> QED
    BY <1>2, <1>3, <1>4 DEF Abstract!Init

(* A step that moves no connection between queue and worker, and neither   *)
(* adds nor serves a request, is invisible.                                *)
LEMMA InvisibleStep ==
    ASSUME UNCHANGED <<pool, held>>, Asking' = Asking
    PROVE  UNCHANGED Abstract!poolVars
  BY DEF Abstract!poolVars, Free, Owner

LEMMA AskImplements ==
    ASSUME PoolInv, NEW w \in Workers, CallAcquire(w)
    PROVE  Abstract!Next
<1>1. Asking' = Asking \cup {w} /\ w \notin Asking
    BY DEF PoolInv, PoolTypeOK, CallAcquire, Asking, Asked
<1>2. \A c \in Conns : Owner[c] # w
    BY OwnerInverts, PoolAssumption DEF PoolInv, HoldersInUse, CallAcquire, OwnerInverse
<1>3. UNCHANGED <<Free, Owner>>
    BY DEF CallAcquire, Free, Owner
<1>4. Abstract!Ask(w)
    BY <1>1, <1>2, <1>3 DEF Abstract!Ask, Abstract!Idle
<1> QED
    BY <1>4 DEF Abstract!Next

LEMMA TakeImplements ==
    ASSUME PoolInv, PoolInv', NEW w \in Workers, TakeFront(w)
    PROVE  Abstract!Next
<1> DEFINE c == Head(pool)
<1>1. pool \in Seq(Conns) /\ pool # <<>>
    BY DEF PoolInv, PoolTypeOK, NeverPopsEmpty, TakeFront
<1>2. /\ c = pool[1]
      /\ 1 \in DOMAIN pool
      /\ c \in Conns
      /\ \A i \in DOMAIN Tail(pool) : i + 1 \in DOMAIN pool /\ Tail(pool)[i] = pool[i + 1]
      /\ \A j \in DOMAIN pool : j # 1 => j - 1 \in DOMAIN Tail(pool)
                                          /\ Tail(pool)[j - 1] = pool[j]
    BY <1>1, TailPositions
<1>3. w \in Asking /\ Asking' = Asking \ {w}
    BY DEF PoolInv, PoolTypeOK, TakeFront, Asking, Asked
<1>4. c \in Free /\ Free' = Free \ {c}
    <2>1. \A i \in DOMAIN Tail(pool) : Tail(pool)[i] # c
        <3> TAKE i \in DOMAIN Tail(pool)
        <3>1. i \in Nat /\ i # 0 /\ i + 1 # 1
            BY <1>1
        <3> QED
            BY <3>1, <1>2 DEF PoolInv, ConnsExclusive
    <2>2. Free' = {Tail(pool)[i] : i \in DOMAIN Tail(pool)}
        BY DEF Free, TakeFront
    <2>3. Free' \subseteq Free \ {c}
        <3> SUFFICES ASSUME NEW i \in DOMAIN Tail(pool)
                     PROVE  Tail(pool)[i] \in Free /\ Tail(pool)[i] # c
            BY <2>2
        <3>1. i + 1 \in DOMAIN pool /\ Tail(pool)[i] = pool[i + 1]
            BY <1>2
        <3> QED
            BY <2>1, <3>1 DEF Free
    <2>4. Free \ {c} \subseteq Free'
        <3> SUFFICES ASSUME NEW j \in DOMAIN pool, pool[j] # c
                     PROVE  pool[j] \in Free'
            BY DEF Free
        <3>1. j - 1 \in DOMAIN Tail(pool) /\ Tail(pool)[j - 1] = pool[j]
            BY <1>2
        <3> QED
            BY <2>2, <3>1
    <2> QED
        BY <1>2, <2>3, <2>4 DEF Free
<1>5. Owner' = [Owner EXCEPT ![c] = w]
    <2>0. OwnerInverse /\ OwnerInverse'
        BY OwnerInverts, PTL
    <2>1. /\ Owner \in [Conns -> Workers \cup {None}]
          /\ \A d \in Conns, v \in Workers : Owner[d] = v <=> held[v] = d
          /\ Owner' \in [Conns -> Workers \cup {None}]
          /\ \A d \in Conns, v \in Workers : Owner'[d] = v <=> held'[v] = d
        BY <2>0 DEF OwnerInverse
    <2>2. held' = [held EXCEPT ![w] = c] /\ held \in [Workers -> Conns \cup {None}]
        BY DEF TakeFront, PoolInv, PoolTypeOK
    <2>3. held[w] = None
        BY DEF PoolInv, HoldersInUse, TakeFront
    <2>4. Owner'[c] = w
        BY <2>1, <2>2, <1>2
    <2>5. \A d \in Conns : d # c => Owner'[d] = Owner[d]
        <3> SUFFICES ASSUME NEW d \in Conns, d # c PROVE Owner'[d] = Owner[d]
            OBVIOUS
        <3>1. \A v \in Workers : held'[v] = d <=> held[v] = d
            BY <2>2, <2>3, PoolAssumption
        <3> QED
            BY <2>1, <3>1
    <2> QED
        BY <2>1, <2>4, <2>5, <1>2
<1>6. Abstract!Grant(w, c)
    BY <1>3, <1>4, <1>5 DEF Abstract!Grant
<1> QED
    BY <1>2, <1>6 DEF Abstract!Next, Abstract!SomeGrant

(* Giving a connection up, whether into the queue or into closed.          *)
LEMMA OwnerReleases ==
    ASSUME PoolInv, PoolInv', NEW w \in Workers, held[w] \in Conns,
           held' = [held EXCEPT ![w] = None]
    PROVE  Owner[held[w]] = w /\ Owner' = [Owner EXCEPT ![held[w]] = None]
<1>0. OwnerInverse /\ OwnerInverse'
    BY OwnerInverts, PTL
<1>1. /\ Owner \in [Conns -> Workers \cup {None}]
      /\ \A d \in Conns, v \in Workers : Owner[d] = v <=> held[v] = d
      /\ Owner' \in [Conns -> Workers \cup {None}]
      /\ \A d \in Conns, v \in Workers : Owner'[d] = v <=> held'[v] = d
    BY <1>0 DEF OwnerInverse
<1>2. held \in [Workers -> Conns \cup {None}]
    BY DEF PoolInv, PoolTypeOK
<1>3. \A v \in Workers : held'[v] # held[w]
    BY <1>2, PoolAssumption DEF PoolInv, ConnsExclusive
<1>4. Owner'[held[w]] = None
    BY <1>1, <1>3
<1>5. \A d \in Conns : d # held[w] => Owner'[d] = Owner[d]
    <2> SUFFICES ASSUME NEW d \in Conns, d # held[w] PROVE Owner'[d] = Owner[d]
        OBVIOUS
    <2>1. \A v \in Workers : held'[v] = d <=> held[v] = d
        BY <1>2, PoolAssumption
    <2> QED
        BY <1>1, <2>1
<1> QED
    BY <1>1, <1>4, <1>5

LEMMA PushImplements ==
    ASSUME PoolInv, PoolInv', NEW w \in Workers, Push(w)
    PROVE  Abstract!Next
<1>1. held[w] \in Conns /\ pool \in Seq(Conns)
    BY DEF PoolInv, PoolTypeOK, HoldersInUse, Push
<1>2. Owner[held[w]] = w /\ Owner' = [Owner EXCEPT ![held[w]] = None]
    BY <1>1, OwnerReleases DEF Push
<1>3. Free' = Free \cup {held[w]}
    <2>1. /\ DOMAIN pool' = DOMAIN pool \cup {Len(pool) + 1}
          /\ Len(pool) + 1 \notin DOMAIN pool
          /\ \A i \in DOMAIN pool : pool'[i] = pool[i]
          /\ pool'[Len(pool) + 1] = held[w]
        BY <1>1, AppendPositions DEF Push
    <2> QED
        BY <2>1 DEF Free
<1>4. Asking' = Asking
    BY DEF PoolInv, PoolTypeOK, Push, Asking, Asked, Waiting
<1>5. Abstract!Return(w, held[w])
    BY <1>2, <1>3, <1>4 DEF Abstract!Return
<1> QED
    BY <1>1, <1>5 DEF Abstract!Next

LEMMA UnwindImplements ==
    ASSUME PoolInv, PoolInv', NEW w \in Workers, Unwind(w)
    PROVE  Abstract!Next
<1>1. held[w] \in Conns
    BY DEF PoolInv, PoolTypeOK, HoldersInUse, Unwind
<1>2. Owner[held[w]] = w /\ Owner' = [Owner EXCEPT ![held[w]] = None]
    BY <1>1, OwnerReleases DEF Unwind
<1>3. Free' = Free
    BY DEF Free, Unwind
<1>4. Asking' = Asking
    BY DEF PoolInv, PoolTypeOK, Unwind, Asking, Asked
<1>5. Abstract!Lose(w, held[w])
    BY <1>2, <1>3, <1>4 DEF Abstract!Lose
<1> QED
    BY <1>1, <1>5 DEF Abstract!Next

LEMMA StepImplements ==
    PoolInv /\ PoolInv' /\ [PoolNext]_connVars => [Abstract!Next]_(Abstract!poolVars)
<1> SUFFICES ASSUME PoolInv, PoolInv', PoolNext \/ UNCHANGED connVars
             PROVE  Abstract!Next \/ UNCHANGED Abstract!poolVars
    OBVIOUS
<1>1. CASE UNCHANGED connVars
    BY <1>1, InvisibleStep DEF connVars, Asking, Asked
<1>2. ASSUME NEW w \in Workers,
             \/ LockToAcquire(w) \/ Block(w) \/ SpuriousWakeup(w) \/ SeeConn(w)
             \/ CallRelease(w) \/ LockToRelease(w)
      PROVE  UNCHANGED Abstract!poolVars
    <2>1. UNCHANGED <<pool, held>>
        BY <1>2 DEF LockToAcquire, Block, SpuriousWakeup, SeeConn, CallRelease,
                    LockToRelease
    <2>2. Asking' = Asking
        BY <1>2 DEF PoolInv, PoolTypeOK, Asking, Asked, LockToAcquire, Block,
                    SpuriousWakeup, SeeConn, CallRelease, LockToRelease
    <2> QED
        BY <2>1, <2>2, InvisibleStep
<1>3. CASE PoolNext
    <2>1. PICK w \in Workers :
              \/ CallAcquire(w) \/ LockToAcquire(w) \/ Block(w) \/ SpuriousWakeup(w)
              \/ SeeConn(w)     \/ TakeFront(w)
              \/ CallRelease(w) \/ LockToRelease(w) \/ Push(w)
              \/ Unwind(w)
        BY <1>3 DEF PoolNext
    <2> QED
        BY <2>1, <1>2, AskImplements, TakeImplements, PushImplements, UnwindImplements
<1> QED
    BY <1>1, <1>3

(* The pool with its mutex, condition variable and queue is a ResourcePool *)
(* to its users: only a worker that asked is granted a connection, only a  *)
(* free one, and only its owner gives it back.                             *)
THEOREM PoolImplementsResourcePool ==
    PoolSpec => Abstract!Init /\ [][Abstract!Next]_(Abstract!poolVars)
<1>1. PoolSpec => [](PoolInv)
    BY PoolSafety, PTL DEF PoolSpec
<1> QED
    BY <1>1, InitialImplements, StepImplements, PTL DEF PoolSpec
=============================================================================
