-------------------------- MODULE SchedulingProofs ---------------------------
(***************************************************************************)
(* Proofs about what everything else is scheduled by: SignerStore's lanes  *)
(* and Poller's loop.                                                      *)
(*                                                                         *)
(* SignerStore, for any callers, keys and updaters: the lanes are first-in *)
(* first-out, no update is lost, and the store implements AtomicStore.     *)
(*                                                                         *)
(* A lane keeps only its last promise, so that a lane is a chain is itself *)
(* what has to be shown.  The ghost `place` numbers the unsettled          *)
(* operations of a lane in order of arrival; LaneInv says that each waits  *)
(* for the one numbered just before it, that only the first is free, and   *)
(* that the promise the map holds is the highest numbered one's.           *)
(*                                                                         *)
(* Poller, for any ticks and any number of steps: there is one loop.       *)
(***************************************************************************)
EXTENDS SignerStore, Poller, FiniteSetTheorems, TLAPS

(* The numbers of a lane's unsettled operations are 1 .. how many there    *)
(* are, each once.                                                         *)
Numbered ==
    /\ \A o \in Ops : Unsettled(o) =>
           place[o] >= 1 /\ place[o] <= Cardinality(Waiting(key[o]))
    /\ \A o, p \in Ops :
           Unsettled(o) /\ Unsettled(p) /\ key[o] = key[p] /\ place[o] = place[p] => o = p

(* An unsettled operation is the first of its lane, free to run, or waits  *)
(* for the unsettled operation just before it.                             *)
Chained ==
    /\ \A o \in Ops : Unsettled(o) /\ Free(o) => place[o] = 1
    /\ \A o \in Ops : Unsettled(o) /\ ~Free(o) =>
           /\ after[o] \in Ops /\ Unsettled(after[o]) /\ key[after[o]] = key[o]
           /\ place[after[o]] = place[o] - 1
    /\ \A o \in Ops : phase[o] \in {"inside", "writing"} => Free(o)
    /\ \A o \in Ops : phase[o] = "idle" => after[o] = NoOp

(* The map holds the last operation to arrive; a lane whose entry is gone, *)
(* or whose last operation has settled, has no unsettled operation.        *)
TailLast ==
    \A k \in Keys :
        /\ tail[k] \in Ops =>
               /\ phase[tail[k]] # "idle" /\ key[tail[k]] = k
               /\ Unsettled(tail[k]) => place[tail[k]] = Cardinality(Waiting(k))
               /\ ~Unsettled(tail[k]) => Waiting(k) = {}
        /\ tail[k] = NoOp => Waiting(k) = {}

(* What the phases say of an operation's key and of what it will write. *)
PhasesOK ==
    /\ \A o \in Ops : phase[o] = "writing" =>
           /\ key[o] \in Records
           /\ upd[o][loaded[o]] \in Values
    /\ \A o \in Ops : phase[o] = "inside" => o \in Clients /\ key[o] = BalanceKey
    /\ \A o \in Bodies : phase[o] # "idle" => key[o] \in Records

LaneInv == Numbered /\ Chained /\ TailLast

IInv == TypeOK /\ LaneInv /\ PhasesOK /\ NoLostUpdate

-----------------------------------------------------------------------------
(* The unsettled operations of a lane are finitely many. *)
LEMMA WaitingFinite ==
    ASSUME NEW k
    PROVE  IsFiniteSet(Waiting(k)) /\ Cardinality(Waiting(k)) \in Nat
<1>1. Waiting(k) \subseteq Ops
  BY DEF Waiting
<1> QED
  BY <1>1, StoreAssumption, FS_Subset, FS_CardinalityType

(* Joining a lane (serialize) keeps it a chain. *)
LEMMA JoinLane ==
    ASSUME IInv, NEW o \in Ops, NEW k \in Keys, NEW u \in Updaters, Join(o, k, u)
    PROVE  LaneInv'
<1> USE DEF IInv, LaneInv, TypeOK, Phases
<1>1. Waiting(k)' = Waiting(k) \cup {o} /\ o \notin Waiting(k)
  BY DEF Join, Waiting, Unsettled
<1>2. Cardinality(Waiting(k)') = Cardinality(Waiting(k)) + 1
  BY <1>1, WaitingFinite, FS_AddElement
<1>3. \A j \in Keys : j # k => Waiting(j)' = Waiting(j)
  BY DEF Join, Waiting, Unsettled
<1>4. Cardinality(Waiting(k)) \in Nat
  BY WaitingFinite
<1>5. \A p \in Ops : p # o => (Unsettled(p)' <=> Unsettled(p)) /\ key'[p] = key[p]
                               /\ place'[p] = place[p] /\ after'[p] = after[p] /\ phase'[p] = phase[p]
  BY DEF Join, Unsettled
<1>6. Unsettled(o)' /\ key'[o] = k /\ place'[o] = Cardinality(Waiting(k)) + 1 /\ after'[o] = tail[k]
      /\ phase'[o] = "queued" /\ phase[o] = "idle" /\ ~Unsettled(o)
  BY DEF Join, Unsettled
<1>7. Numbered'
  <2>1. ASSUME NEW p \in Ops, Unsettled(p)'
        PROVE  place'[p] >= 1 /\ place'[p] <= Cardinality(Waiting(key[p]))'
    <3>1. CASE p = o
      BY <3>1, <1>2, <1>4, <1>6
    <3>2. CASE p # o
      <4>1. Unsettled(p) /\ place[p] >= 1 /\ place[p] <= Cardinality(Waiting(key[p]))
        BY <2>1, <3>2, <1>5 DEF Numbered
      <4>2. CASE key[p] = k
        BY <4>1, <4>2, <3>2, <1>2, <1>4, <1>5
      <4>3. CASE key[p] # k
        BY <4>1, <4>3, <3>2, <1>3, <1>5
      <4> QED BY <4>2, <4>3
    <3> QED BY <3>1, <3>2
  <2>2. ASSUME NEW p \in Ops, NEW q \in Ops, Unsettled(p)', Unsettled(q)', key'[p] = key'[q],
               place'[p] = place'[q]
        PROVE  p = q
    <3>1. \A r \in Ops : r # o /\ Unsettled(r) /\ key[r] = k => place[r] <= Cardinality(Waiting(k))
      BY DEF Numbered
    <3>2. CASE p # o /\ q # o
      BY <2>2, <3>2, <1>5 DEF Numbered
    <3>3. CASE p = o \/ q = o
      BY <2>2, <3>1, <3>3, <1>4, <1>5, <1>6
    <3> QED BY <3>2, <3>3
  <2> QED BY <2>1, <2>2 DEF Numbered
<1>8. Chained'
  <2>1. \A p \in Ops : p # o => (Free(p)' <=> Free(p)) \/ ~Unsettled(p)
    BY <1>5, <1>6 DEF Free, Chained, Unsettled
  <2>2. Free(o)' => place'[o] = 1
    <3>0. Waiting(k) = {} => Cardinality(Waiting(k)) = 0
      BY FS_EmptySet
    <3>1. CASE tail[k] = NoOp
      BY <3>0, <3>1, <1>6 DEF TailLast
    <3>2. CASE tail[k] \in Ops /\ ~Unsettled(tail[k])
      BY <3>0, <3>2, <1>6 DEF TailLast
    <3>3. CASE tail[k] \in Ops /\ Unsettled(tail[k])
      BY <3>3, <1>5, <1>6 DEF Free, Unsettled
    <3> QED BY <3>1, <3>2, <3>3
  <2>3. ~Free(o)' => /\ after'[o] \in Ops /\ Unsettled(after[o])' /\ (key[after[o]] = key[o])'
                     /\ (place[after[o]] = place[o] - 1)'
    <3> SUFFICES ASSUME ~Free(o)'
                 PROVE  /\ after'[o] \in Ops /\ Unsettled(after[o])' /\ (key[after[o]] = key[o])'
                        /\ (place[after[o]] = place[o] - 1)'
      OBVIOUS
    <3>1. tail[k] \in Ops /\ phase'[tail[k]] # "settled"
      BY <1>6 DEF Free
    <3>2. tail[k] # o
      BY <3>1, <1>6 DEF TailLast
    <3>3. Unsettled(tail[k])
      BY <3>1, <3>2, <1>5 DEF TailLast, Unsettled
    <3> QED BY <3>1, <3>2, <3>3, <1>4, <1>5, <1>6 DEF TailLast
  <2>4. ASSUME NEW p \in Ops, p # o, Unsettled(p)', ~Free(p)'
        PROVE  /\ after'[p] \in Ops /\ Unsettled(after[p])' /\ (key[after[p]] = key[p])'
               /\ (place[after[p]] = place[p] - 1)'
    BY <2>1, <2>4, <1>5, <1>6 DEF Chained
  <2>5. \A p \in Ops : Unsettled(p)' /\ Free(p)' => place'[p] = 1
    BY <2>1, <2>2, <1>5 DEF Chained
  <2>6. \A p \in Ops : phase'[p] \in {"inside", "writing"} => Free(p)'
    BY <2>1, <1>5, <1>6 DEF Chained, Unsettled
  <2>7. \A p \in Ops : phase'[p] = "idle" => after'[p] = NoOp
    BY <1>5, <1>6 DEF Chained
  <2> QED BY <2>2, <2>3, <2>4, <2>5, <2>6, <2>7 DEF Chained
<1>9. TailLast'
  <2> SUFFICES ASSUME NEW j \in Keys
               PROVE  /\ tail'[j] \in Ops =>
                          /\ (phase[tail[j]] # "idle")' /\ (key[tail[j]] = j)'
                          /\ Unsettled(tail[j])' => (place[tail[j]] = Cardinality(Waiting(j)))'
                          /\ ~Unsettled(tail[j])' => Waiting(j)' = {}
                      /\ tail'[j] = NoOp => Waiting(j)' = {}
    BY DEF TailLast
  <2>1. CASE j = k
    <3>1. tail'[k] = o
      BY DEF Join
    <3> QED BY <2>1, <3>1, <1>2, <1>6, StoreAssumption
  <2>2. CASE j # k
    <3>1. tail'[j] = tail[j] /\ tail[j] # o
      BY <2>2, <1>6 DEF Join, TailLast
    <3> QED BY <2>2, <3>1, <1>3, <1>5 DEF TailLast
  <2> QED BY <2>1, <2>2
<1> QED BY <1>7, <1>8, <1>9

(* The first operation of a lane settles: the lane stays a chain, one      *)
(* shorter.                                                                *)
LEMMA SettleLane ==
    ASSUME IInv, NEW o \in Ops, Unsettled(o), Free(o), NEW f, Settle(o, f),
           UNCHANGED <<tail, key, after>>
    PROVE  LaneInv'
<1> USE DEF IInv, LaneInv, TypeOK, Phases
<1> DEFINE k == key[o]
<1>1. k \in Keys /\ place[o] = 1 /\ o \in Waiting(k) /\ phase'[o] = "settled" /\ ~Unsettled(o)'
  BY DEF Chained, Waiting, Settle, Unsettled
<1>a. \A p \in Ops : key'[p] = key[p] /\ (p # o => (Unsettled(p)' <=> Unsettled(p)))
  BY DEF Settle, Unsettled
<1>2. Waiting(k)' = Waiting(k) \ {o}
  BY <1>1, <1>a DEF Waiting
<1>b. IsFiniteSet(Waiting(k)) /\ Cardinality(Waiting(k)) \in Nat
  BY WaitingFinite
<1>3. Cardinality(Waiting(k)') = Cardinality(Waiting(k)) - 1 /\ Cardinality(Waiting(k)) \in Nat
  <2> HIDE DEF k
  <2> QED BY <1>1, <1>2, <1>b, FS_RemoveElement
<1>4. \A j \in Keys : j # k => Waiting(j)' = Waiting(j)
  BY <1>1, <1>a DEF Waiting
<1>5. \A p \in Ops : p # o => phase'[p] = phase[p] /\ (Unsettled(p)' <=> Unsettled(p))
  BY DEF Settle, Unsettled
<1>6. \A p \in Ops : p # o /\ Unsettled(p) /\ key[p] = k => place[p] > 1 /\ place'[p] = place[p] - 1
  <2>1. \A p \in Ops : p # o /\ Unsettled(p) /\ key[p] = k => place[p] > 1
    <3>1. \A p \in Ops : Unsettled(p) => place[p] >= 1
      BY DEF Numbered
    <3>2. \A p \in Ops : p # o /\ Unsettled(p) /\ key[p] = k => place[p] # place[o]
      BY DEF Numbered
    <3> QED BY <1>1, <3>1, <3>2
  <2> QED BY <1>1, <2>1 DEF Settle, Waiting
<1>7. \A p \in Ops : p # o /\ ~(Unsettled(p) /\ key[p] = k) => place'[p] = place[p]
  BY DEF Settle, Waiting
<1>8. Numbered'
  <2>1. ASSUME NEW p \in Ops, Unsettled(p)'
        PROVE  place'[p] >= 1 /\ place'[p] <= Cardinality(Waiting(key[p]))'
    <3>1. p # o /\ Unsettled(p) /\ place[p] >= 1 /\ place[p] <= Cardinality(Waiting(key[p]))
      BY <2>1, <1>1, <1>5 DEF Numbered
    <3>2. CASE key[p] = k
      BY <3>1, <3>2, <1>3, <1>6
    <3>3. CASE key[p] # k
      BY <3>1, <3>3, <1>4, <1>7
    <3> QED BY <3>2, <3>3
  <2>2. ASSUME NEW p \in Ops, NEW q \in Ops, Unsettled(p)', Unsettled(q)', key'[p] = key'[q],
               place'[p] = place'[q]
        PROVE  p = q
    BY <2>2, <1>1, <1>5, <1>6, <1>7 DEF Numbered
  <2> QED BY <2>1, <2>2 DEF Numbered
<1>9. Chained'
  <2>1. \A p \in Ops : Free(p)' <=> Free(p) \/ after[p] = o
    BY <1>1, <1>5 DEF Free
  <2>2. \A p \in Ops : Unsettled(p)' /\ Free(p)' => place'[p] = 1
    <3> SUFFICES ASSUME NEW p \in Ops, Unsettled(p)', Free(p)'
                 PROVE  place'[p] = 1
      OBVIOUS
    <3>1. p # o /\ Unsettled(p)
      BY <1>1, <1>5
    <3>2. CASE Free(p)
      BY <3>1, <3>2, <1>6, <1>7 DEF Chained
    <3>3. CASE ~Free(p)
      <4>1. after[p] = o /\ key[p] = k /\ place[p] - 1 = 1
        BY <3>1, <3>3, <2>1, <1>1 DEF Chained
      <4> QED BY <3>1, <4>1, <1>6
    <3> QED BY <3>2, <3>3
  <2>3. ASSUME NEW p \in Ops, Unsettled(p)', ~Free(p)'
        PROVE  /\ after'[p] \in Ops /\ Unsettled(after[p])' /\ (key[after[p]] = key[p])'
               /\ (place[after[p]] = place[p] - 1)'
    <3>1. p # o /\ Unsettled(p) /\ ~Free(p) /\ after[p] # o
      BY <2>3, <2>1, <1>1, <1>5
    <3>2. after[p] \in Ops /\ Unsettled(after[p]) /\ key[after[p]] = key[p]
          /\ place[after[p]] = place[p] - 1
      BY <3>1 DEF Chained
    <3> QED BY <3>1, <3>2, <1>5, <1>6, <1>7
  <2>4. \A p \in Ops : phase'[p] \in {"inside", "writing"} => Free(p)'
    BY <2>1, <1>1, <1>5 DEF Chained
  <2>5. \A p \in Ops : phase'[p] = "idle" => after'[p] = NoOp
    BY <1>1, <1>5 DEF Chained
  <2> QED BY <2>2, <2>3, <2>4, <2>5 DEF Chained
<1>10. TailLast'
  <2> SUFFICES ASSUME NEW j \in Keys
               PROVE  /\ tail'[j] \in Ops =>
                          /\ (phase[tail[j]] # "idle")' /\ (key[tail[j]] = j)'
                          /\ Unsettled(tail[j])' => (place[tail[j]] = Cardinality(Waiting(j)))'
                          /\ ~Unsettled(tail[j])' => Waiting(j)' = {}
                      /\ tail'[j] = NoOp => Waiting(j)' = {}
    BY DEF TailLast
  <2>1. CASE j # k
    <3>1. tail[j] # o
      BY <2>1 DEF TailLast
    <3> QED BY <2>1, <3>1, <1>4, <1>5, <1>7 DEF TailLast
  <2>2. CASE j = k
    <3>1. tail[k] \in Ops
      BY <1>1 DEF TailLast
    <3>2. Unsettled(tail[k]) /\ key[tail[k]] = k /\ place[tail[k]] = Cardinality(Waiting(k))
      BY <1>1, <3>1 DEF TailLast
    <3>3. CASE tail[k] = o
      <4>1. Waiting(k)' = {}
        <5>1. \A p \in Waiting(k) : place[p] = 1
          BY <1>1, <1>3, <3>2, <3>3 DEF Numbered, Waiting
        <5>2. \A p \in Waiting(k) : p = o
          BY <5>1, <1>1 DEF Numbered, Waiting
        <5> QED BY <5>2, <1>2
      <4> QED BY <2>2, <3>3, <4>1, <1>1, StoreAssumption
    <3>4. CASE tail[k] # o
      BY <2>2, <3>1, <3>2, <3>4, <1>3, <1>5, <1>6, StoreAssumption DEF Unsettled
    <3> QED BY <3>3, <3>4
  <2> QED BY <2>1, <2>2
<1> QED BY <1>8, <1>9, <1>10

(* A free operation starts to run: nothing moves in its lane. *)
LEMMA RunLane ==
    ASSUME IInv, NEW o \in Ops, phase[o] = "queued", Free(o), NEW r \in {"inside", "writing"},
           phase' = [phase EXCEPT ![o] = r], UNCHANGED <<tail, key, after, place>>
    PROVE  LaneInv'
<1> USE DEF IInv, LaneInv, TypeOK, Phases
<1>1. \A p \in Ops : (Unsettled(p)' <=> Unsettled(p)) /\ (phase'[p] = "settled" <=> phase[p] = "settled")
                      /\ (phase'[p] = "idle" <=> phase[p] = "idle")
  BY DEF Unsettled
<1>2. \A k \in Keys : Waiting(k)' = Waiting(k)
  BY <1>1 DEF Waiting
<1>3. \A p \in Ops : Free(p)' <=> Free(p)
  BY <1>1 DEF Free
<1>4. Numbered'
  BY <1>1, <1>2 DEF Numbered
<1>5. Chained'
  <2>1. \A p \in Ops : phase'[p] \in {"inside", "writing"} => Free(p)'
    BY <1>3 DEF Chained
  <2> QED BY <2>1, <1>1, <1>3 DEF Chained
<1>6. TailLast'
  BY <1>1, <1>2 DEF TailLast
<1> QED BY <1>4, <1>5, <1>6

(* An operation returns, and drops the lane if it is still the last on it. *)
LEMMA ReturnLane ==
    ASSUME IInv, NEW o \in Ops, Return(o)
    PROVE  LaneInv'
<1> USE DEF IInv, LaneInv, TypeOK, Phases
<1>1. phase[o] = "settled" /\ phase'[o] = "idle" /\ ~Unsettled(o) /\ ~Unsettled(o)' /\ after'[o] = NoOp
  BY DEF Return, Unsettled
<1>2. \A p \in Ops : p # o => phase'[p] = phase[p] /\ key'[p] = key[p] /\ (Unsettled(p)' <=> Unsettled(p))
  BY DEF Return, Unsettled
<1>3. \A k \in Keys : Waiting(k)' = Waiting(k)
  BY <1>1, <1>2 DEF Waiting
<1>4. \A p \in Ops : p # o => (Free(p)' <=> Free(p)) /\ (after'[p] = after[p] \/ after[p] = o)
  BY <1>1, <1>2, StoreAssumption DEF Return, Free
<1>5. Numbered'
  BY <1>1, <1>2, <1>3 DEF Numbered, Return
<1>6. Chained'
  <2>1. \A p \in Ops : Unsettled(p)' /\ Free(p)' => place'[p] = 1
    BY <1>1, <1>2, <1>4 DEF Chained, Return
  <2>2. ASSUME NEW p \in Ops, Unsettled(p)', ~Free(p)'
        PROVE  /\ after'[p] \in Ops /\ Unsettled(after[p])' /\ (key[after[p]] = key[p])'
               /\ (place[after[p]] = place[p] - 1)'
    <3>1. p # o /\ Unsettled(p) /\ ~Free(p)
      BY <2>2, <1>1, <1>2, <1>4
    <3>2. after[p] \in Ops /\ Unsettled(after[p]) /\ after[p] # o /\ key[after[p]] = key[p]
          /\ place[after[p]] = place[p] - 1
      BY <3>1, <1>1 DEF Chained
    <3> QED BY <3>1, <3>2, <1>2, <1>4 DEF Return
  <2>3. \A p \in Ops : phase'[p] \in {"inside", "writing"} => Free(p)'
    BY <1>1, <1>2, <1>4 DEF Chained
  <2>4. \A p \in Ops : phase'[p] = "idle" => after'[p] = NoOp
    BY <1>1, <1>2 DEF Chained, Return
  <2> QED BY <2>1, <2>2, <2>3, <2>4 DEF Chained
<1>7. TailLast'
  <2> SUFFICES ASSUME NEW j \in Keys
               PROVE  /\ tail'[j] \in Ops =>
                          /\ (phase[tail[j]] # "idle")' /\ (key[tail[j]] = j)'
                          /\ Unsettled(tail[j])' => (place[tail[j]] = Cardinality(Waiting(j)))'
                          /\ ~Unsettled(tail[j])' => Waiting(j)' = {}
                      /\ tail'[j] = NoOp => Waiting(j)' = {}
    BY DEF TailLast
  <2>1. CASE tail[j] = o
    <3>1. key[o] = j /\ Waiting(j) = {}
      BY <2>1, <1>1 DEF TailLast
    <3>2. tail'[j] = NoOp
      BY <2>1, <3>1 DEF Return, DropLane
    <3> QED BY <3>1, <3>2, <1>3, StoreAssumption
  <2>2. CASE tail[j] # o
    <3>1. tail'[j] = tail[j]
      BY <2>2 DEF Return, DropLane
    <3> QED BY <2>2, <3>1, <1>2, <1>3 DEF TailLast, Return
  <2> QED BY <2>1, <2>2
<1> QED BY <1>5, <1>6, <1>7

(* No operation is under way: the lanes are empty. *)
LEMMA EmptyLanes ==
    ASSUME tail = [k \in Keys |-> NoOp], phase = [o \in Ops |-> "idle"],
           after = [o \in Ops |-> NoOp]
    PROVE  LaneInv
<1>1. \A o \in Ops : ~Unsettled(o)
  BY DEF Unsettled
<1>2. \A k \in Keys : Waiting(k) = {}
  BY <1>1 DEF Waiting
<1> QED BY <1>1, <1>2, StoreAssumption DEF LaneInv, Numbered, Chained, TailLast

-----------------------------------------------------------------------------
(* Every key holds a value and every operation has a phase: initially. *)
LEMMA InitIInv == Init => IInv
<1> SUFFICES ASSUME Init PROVE IInv
  OBVIOUS
<1>1. TypeOK
  BY StoreAssumption DEF Init, TypeOK, Phases, Keys, Read
<1>2. LaneInv
  BY EmptyLanes DEF Init
<1>3. PhasesOK /\ NoLostUpdate
  BY StoreAssumption DEF Init, PhasesOK, NoLostUpdate, Ops
<1> QED BY <1>1, <1>2, <1>3 DEF IInv

(* A free operation is the only one of its lane that can be running. *)
LEMMA RunsAlone ==
    ASSUME IInv, NEW o \in Ops, NEW p \in Ops, Unsettled(o), Free(o),
           phase[p] \in {"inside", "writing"}, key[o] = key[p]
    PROVE  o = p
BY DEF IInv, LaneInv, Chained, Numbered, Unsettled

(* Joining a lane keeps the invariant. *)
LEMMA JoinIInv ==
    ASSUME IInv, NEW o \in Ops, NEW k \in Keys, NEW u \in Updaters, Join(o, k, u),
           o \in Bodies => k \in Records
    PROVE  IInv'
<1>1. LaneInv'
  BY JoinLane
<1>2. TypeOK'
  BY WaitingFinite DEF IInv, TypeOK, Join, Phases
<1>3. PhasesOK' /\ NoLostUpdate'
  BY DEF IInv, TypeOK, Join, PhasesOK, NoLostUpdate, Phases
<1> QED BY <1>1, <1>2, <1>3 DEF IInv

(* Every step keeps the invariant. *)
LEMMA NextIInv == IInv /\ [Next]_vars => IInv'
<1> SUFFICES ASSUME IInv, [Next]_vars PROVE IInv'
  OBVIOUS
<1> USE DEF IInv
<1>t. TypeOK /\ LaneInv /\ PhasesOK /\ NoLostUpdate
  OBVIOUS
<1>1. ASSUME NEW c \in Clients, CallRecord(c) PROVE IInv'
  BY <1>1, JoinIInv, StoreAssumption DEF CallRecord, Ops, Keys
<1>2. ASSUME NEW c \in Clients, CallBalance(c) PROVE IInv'
  BY <1>2, JoinIInv, StoreAssumption DEF CallBalance, Ops, Keys, Read
<1>3. ASSUME NEW c \in Clients, CallNested(c) PROVE IInv'
  BY <1>3, JoinIInv, StoreAssumption DEF CallNested, Ops, Keys
<1>4. ASSUME NEW c \in Clients, EnterBalance(c) PROVE IInv'
  <2>1. c \in Ops
    BY DEF Ops
  <2>2. LaneInv'
    BY <1>4, <2>1, RunLane DEF EnterBalance
  <2>3. TypeOK' /\ PhasesOK' /\ NoLostUpdate'
    BY <1>4, <1>t, <2>1, StoreAssumption DEF EnterBalance, TypeOK, PhasesOK, NoLostUpdate, Phases
  <2> QED BY <2>2, <2>3
<1>5. ASSUME NEW c \in Clients, LeaveBalance(c) PROVE IInv'
  <2>1. PICK f \in BOOLEAN : Settle(c, f)
    BY <1>5 DEF LeaveBalance
  <2>2. c \in Ops /\ Unsettled(c) /\ Free(c)
    BY <1>5 DEF Ops, LeaveBalance, Unsettled, LaneInv, Chained
  <2>3. LaneInv'
    BY <1>5, <2>1, <2>2, SettleLane DEF LeaveBalance
  <2>4. TypeOK' /\ PhasesOK' /\ NoLostUpdate'
    BY <1>5, <1>t, <2>1, <2>2 DEF LeaveBalance, Settle, TypeOK, PhasesOK, NoLostUpdate, Phases
  <2> QED BY <2>3, <2>4
<1>6. ASSUME NEW o \in Ops, Load(o) PROVE IInv'
  <2> DEFINE next == upd[o][storage[key[o]]]
  <2>1. Unsettled(o) /\ Free(o) /\ key[o] \in Records /\ key[o] \in Keys /\ storage[key[o]] \in Values
        /\ next \in Values \cup {Throws} /\ next = upd[o][storage[key[o]]]
    BY <1>6, <1>t, StoreAssumption DEF Load, Unsettled, TypeOK
  <2> HIDE DEF next
  <2>2. CASE next \in {Throws, storage[key[o]]}
    <3>1. Settle(o, next = Throws)
      BY <1>6, <2>1, <2>2 DEF Load
    <3>2. LaneInv'
      BY <1>6, <2>1, <3>1, SettleLane DEF Load
    <3>3. TypeOK'
      BY <1>6, <1>t, <2>1, <3>1 DEF Load, Settle, TypeOK, Phases
    <3>4. PhasesOK' /\ NoLostUpdate'
      BY <1>6, <1>t, <2>1, <3>1 DEF Load, Settle, TypeOK, PhasesOK, NoLostUpdate, Phases
    <3> QED BY <3>2, <3>3, <3>4
  <2>3. CASE next \notin {Throws, storage[key[o]]}
    <3>1. phase' = [phase EXCEPT ![o] = "writing"] /\ UNCHANGED <<failed, place>>
      BY <1>6, <2>1, <2>3 DEF Load
    <3>2. LaneInv'
      BY <1>6, <2>1, <3>1, RunLane DEF Load
    <3>3. TypeOK' /\ PhasesOK' /\ NoLostUpdate'
      BY <1>6, <1>t, <2>1, <2>3, <3>1 DEF Load, TypeOK, PhasesOK, NoLostUpdate, Phases
    <3> QED BY <3>2, <3>3
  <2> QED BY <2>2, <2>3
<1>7. ASSUME NEW o \in Ops, LoadFails(o) PROVE IInv'
  <2>1. LaneInv'
    BY <1>7, SettleLane DEF LoadFails, Unsettled
  <2>2. TypeOK' /\ PhasesOK' /\ NoLostUpdate'
    BY <1>7, <1>t DEF LoadFails, Settle, TypeOK, PhasesOK, NoLostUpdate, Phases
  <2> QED BY <2>1, <2>2
<1>8. ASSUME NEW o \in Ops, Write(o) \/ WriteFails(o) PROVE IInv'
  <2>1. PICK f \in BOOLEAN : Settle(o, f)
    BY <1>8 DEF Write, WriteFails
  <2>2. Unsettled(o) /\ Free(o) /\ phase[o] = "writing" /\ UNCHANGED <<tail, key, upd, loaded, after>>
    BY <1>8 DEF Write, WriteFails, Unsettled, LaneInv, Chained
  <2>3. LaneInv'
    BY <2>1, <2>2, SettleLane
  <2>4. upd[o][loaded[o]] \in Values /\ key[o] \in Records /\ key[o] \in Keys
    BY <2>2 DEF PhasesOK, TypeOK
  <2>5. storage' \in {storage, [storage EXCEPT ![key[o]] = upd[o][loaded[o]]]}
    BY <1>8 DEF Write, WriteFails
  <2>6. TypeOK'
    BY <1>t, <2>1, <2>2, <2>4, <2>5 DEF Settle, TypeOK, Phases
  <2>7. PhasesOK'
    BY <1>t, <2>1, <2>2 DEF Settle, TypeOK, PhasesOK, Phases
  <2>8. NoLostUpdate'
    <3> SUFFICES ASSUME NEW p \in Ops, phase'[p] = "writing"
                 PROVE  storage'[key[p]] = loaded[p]
      BY <2>2 DEF NoLostUpdate
    <3>1. p # o /\ phase[p] = "writing"
      BY <1>t, <2>1 DEF Settle, TypeOK
    <3>2. key[p] # key[o]
      BY <2>2, <3>1, RunsAlone
    <3>3. storage[key[p]] = loaded[p] /\ key[p] \in Keys
      BY <1>t, <3>1 DEF NoLostUpdate, TypeOK
    <3> QED BY <1>t, <2>5, <3>2, <3>3 DEF TypeOK
  <2> QED BY <2>3, <2>6, <2>7, <2>8
<1>9. ASSUME NEW o \in Ops, Return(o) PROVE IInv'
  <2>1. LaneInv'
    BY <1>9, ReturnLane
  <2>2. TypeOK'
    BY <1>9, <1>t, StoreAssumption DEF Return, DropLane, TypeOK, Phases, Keys, Read
  <2>3. PhasesOK' /\ NoLostUpdate'
    BY <1>9, <1>t DEF Return, TypeOK, PhasesOK, NoLostUpdate, Phases, Ops
  <2> QED BY <2>1, <2>2, <2>3
<1>10. CASE Crash
  <2>1. LaneInv'
    <3>1. \A o \in Ops : ~Unsettled(o)'
      BY <1>10 DEF Crash, Unsettled
    <3>2. \A k \in Keys : Waiting(k)' = {}
      BY <3>1 DEF Waiting
    <3> QED BY <1>10, <3>1, <3>2, StoreAssumption DEF Crash, LaneInv, Numbered, Chained, TailLast
  <2>2. TypeOK'
    BY <1>10, <1>t, StoreAssumption DEF Crash, TypeOK, Phases, Keys, Read
  <2>3. PhasesOK' /\ NoLostUpdate'
    BY <1>10 DEF Crash, PhasesOK, NoLostUpdate, Ops
  <2> QED BY <2>1, <2>2, <2>3
<1>11. CASE UNCHANGED vars
  <2>1. \A o \in Ops : (Unsettled(o)' <=> Unsettled(o)) /\ (Free(o)' <=> Free(o))
    BY <1>11 DEF vars, Unsettled, Free
  <2>2. \A k \in Keys : Waiting(k)' = Waiting(k)
    BY <1>11, <2>1 DEF vars, Waiting
  <2>3. LaneInv'
    BY <1>11, <1>t, <2>1, <2>2 DEF vars, LaneInv, Numbered, Chained, TailLast, TypeOK
  <2> QED BY <1>11, <1>t, <2>3 DEF vars, TypeOK, PhasesOK, NoLostUpdate
<1> QED BY <1>1, <1>2, <1>3, <1>4, <1>5, <1>6, <1>7, <1>8, <1>9, <1>10, <1>11 DEF Next, Step

-----------------------------------------------------------------------------
(* The inductive invariant of SignerStore's lanes holds in every behaviour. *)
THEOREM StoreInvariant == Spec => []IInv
BY InitIInv, NextIInv, PTL DEF Spec

(* SignerStore's state stays well typed. *)
THEOREM StoreTypeOK == Spec => []TypeOK
<1>1. IInv => TypeOK
  BY DEF IInv
<1> QED BY <1>1, StoreInvariant, PTL

(* serialize runs the operations of a lane in the order they joined it. *)
THEOREM StoreFifo == Spec => []Fifo
<1>1. IInv => Fifo
  BY DEF IInv, LaneInv, Chained, Fifo, Unsettled
<1> QED BY <1>1, StoreInvariant, PTL

(* updateAt writes a value only over the one it was computed from. *)
THEOREM StoreNoLostUpdate == Spec => []NoLostUpdate
<1>1. IInv => NoLostUpdate
  BY DEF IInv
<1> QED BY <1>1, StoreInvariant, PTL

-----------------------------------------------------------------------------
(* The status AtomicStore sees. *)
Status == [o \in Ops |->
    CASE phase[o] \in {"queued", "writing"} -> "called"
      [] phase[o] = "settled" -> "done"
      [] OTHER -> phase[o]]

(* The status of each operation, phase by phase. *)
LEMMA StatusOf ==
    ASSUME NEW o \in Ops
    PROVE  /\ phase[o] = "idle" => Status[o] = "idle"
           /\ phase[o] \in {"queued", "writing"} => Status[o] = "called"
           /\ phase[o] = "settled" => Status[o] = "done"
           /\ phase[o] = "inside" => Status[o] = "inside"
BY DEF Status

(* A step that changes the phase of one operation changes its status only. *)
LEMMA StatusStep ==
    ASSUME TypeOK, NEW o \in Ops, NEW a \in Phases, phase' = [phase EXCEPT ![o] = a]
    PROVE  Status' = [Status EXCEPT ![o] =
               CASE a \in {"queued", "writing"} -> "called" [] a = "settled" -> "done" [] OTHER -> a]
BY DEF Status, TypeOK

(* serialize, updateAt and withBalanceLock implement AtomicStore: each     *)
(* operation on a record takes effect when `set` answers, or when the      *)
(* updater runs if nothing is written.                                     *)
THEOREM StoreImplementsAtomicStore == Spec => ImplementsAtomicStore
<1> USE DEF Keys, Ops
<1>1. Init => Atomic!Init
  BY DEF Init, Atomic!Init, Read, Atomic!Read
<1>2. IInv /\ [Next]_vars => [Atomic!Next]_(Atomic!vars)
  <2> SUFFICES ASSUME IInv, [Next]_vars
               PROVE  Atomic!Next \/ UNCHANGED Atomic!vars
    OBVIOUS
  <2>t. TypeOK /\ PhasesOK /\ NoLostUpdate
    BY DEF IInv
  <2>s. \A o \in Ops, k \in Keys, u \in Updaters : Join(o, k, u) => Atomic!Call(o, k, u)
    <3> SUFFICES ASSUME NEW o \in Ops, NEW k \in Keys, NEW u \in Updaters, Join(o, k, u)
                 PROVE  Atomic!Call(o, k, u)
      OBVIOUS
    <3>1. Status[o] = "idle" /\ Status' = [Status EXCEPT ![o] = "called"]
      BY <2>t, StatusOf, StatusStep DEF Join, Phases
    <3> QED BY <3>1 DEF Join, Atomic!Call, Status
  <2>1. ASSUME NEW c \in Clients, CallRecord(c) \/ CallBalance(c) \/ CallNested(c)
        PROVE  Atomic!Next
    BY <2>1, <2>s, StoreAssumption DEF CallRecord, CallBalance, CallNested, Atomic!Next, Read
  <2>2. ASSUME NEW c \in Clients, EnterBalance(c) PROVE Atomic!Next
    <3>1. Status[c] = "called" /\ Status' = [Status EXCEPT ![c] = "inside"]
      BY <2>2, <2>t, StatusOf, StatusStep DEF EnterBalance, Phases
    <3>2. \A p \in Ops : phase[p] # "inside"
      BY <2>2, <2>t, RunsAlone DEF EnterBalance, PhasesOK, Unsettled
    <3>3. \A p \in Ops : Status[p] # "inside"
      BY <3>2, <2>t DEF Status, TypeOK, Phases
    <3> QED BY <2>2, <3>1, <3>3 DEF EnterBalance, Atomic!Enter, Atomic!Next, Status
  <2>3. ASSUME NEW c \in Clients, LeaveBalance(c) PROVE Atomic!Next
    <3>1. Status[c] = "inside" /\ Status' = [Status EXCEPT ![c] = "done"]
      BY <2>3, <2>t, StatusOf, StatusStep DEF LeaveBalance, Settle, Phases
    <3> QED BY <2>3, <3>1 DEF LeaveBalance, Settle, Atomic!Leave, Atomic!Next, Status
  <2>4. ASSUME NEW o \in Ops, Load(o) PROVE Atomic!Next \/ UNCHANGED Atomic!vars
    <3> DEFINE next == upd[o][storage[key[o]]]
    <3>1. Status[o] = "called" /\ key[o] # BalanceKey
      BY <2>4, StatusOf, StoreAssumption DEF Load
    <3>2. CASE next \in {Throws, storage[key[o]]}
      <4>1. Status' = [Status EXCEPT ![o] = "done"] /\ failed' = [failed EXCEPT ![o] = (next = Throws)]
        BY <2>4, <3>2, <2>t, StatusStep DEF Load, Settle, Phases
      <4>2. CASE next = Throws
        BY <2>4, <3>1, <4>1, <4>2 DEF Load, Atomic!Reject, Atomic!Next, Status
      <4>3. CASE next # Throws
        <5>1. failed' = [failed EXCEPT ![o] = FALSE]
          BY <4>1, <4>3
        <5>2. storage' = [storage EXCEPT ![key[o]] = upd[o][@]]
          BY <2>4, <3>2, <4>3, <2>t DEF Load, TypeOK
        <5> QED BY <2>4, <3>1, <4>1, <4>3, <5>1, <5>2 DEF Load, Atomic!Commit, Atomic!Next, Status
      <4> QED BY <4>2, <4>3
    <3>3. CASE next \notin {Throws, storage[key[o]]}
      <4>1. Status' = Status
        BY <2>4, <3>3, <2>t DEF Load, Status, TypeOK
      <4> QED BY <2>4, <3>3, <4>1 DEF Load, Atomic!vars, Status
    <3> QED BY <3>2, <3>3
  <2>5. ASSUME NEW o \in Ops, LoadFails(o) PROVE Atomic!Next
    <3>1. Status[o] = "called" /\ Status' = [Status EXCEPT ![o] = "done"]
      BY <2>5, <2>t, StatusOf, StatusStep DEF LoadFails, Settle, Phases
    <3> QED BY <2>5, <3>1, StoreAssumption DEF LoadFails, Settle, Atomic!Reject, Atomic!Next, Status
  <2>6. ASSUME NEW o \in Ops, Write(o) \/ WriteFails(o) PROVE Atomic!Next
    <3>1. Status[o] = "called" /\ Status' = [Status EXCEPT ![o] = "done"]
      BY <2>6, <2>t, StatusOf, StatusStep DEF Write, WriteFails, Settle, Phases
    <3>2. storage[key[o]] = loaded[o] /\ key[o] # BalanceKey /\ upd[o][loaded[o]] # Throws /\ key[o] \in Keys
      <4>1. phase[o] = "writing"
        BY <2>6 DEF Write, WriteFails
      <4> QED BY <4>1, <2>t, StoreAssumption DEF NoLostUpdate, PhasesOK
    <3>3. [storage EXCEPT ![key[o]] = upd[o][loaded[o]]] = [storage EXCEPT ![key[o]] = upd[o][@]]
      BY <3>2, <2>t DEF TypeOK
    <3>4. CASE Write(o)
      <4>1. failed' = [failed EXCEPT ![o] = FALSE]
        BY <3>4 DEF Write, Settle
      <4> QED BY <3>1, <3>2, <3>3, <3>4, <4>1 DEF Write, Atomic!Commit, Atomic!Next, Status
    <3>5. CASE WriteFails(o)
      <4>1. failed' = [failed EXCEPT ![o] = TRUE] /\ UNCHANGED <<key, upd>>
        BY <3>5 DEF WriteFails, Settle
      <4>2. CASE storage' = storage
        BY <3>1, <3>2, <4>1, <4>2 DEF Atomic!Reject, Atomic!Next, Status
      <4>3. CASE storage' = [storage EXCEPT ![key[o]] = upd[o][loaded[o]]]
        BY <3>1, <3>2, <3>3, <4>1, <4>3 DEF Atomic!Commit, Atomic!Next, Status
      <4> QED BY <3>5, <4>2, <4>3 DEF WriteFails
    <3> QED BY <2>6, <3>4, <3>5
  <2>7. ASSUME NEW o \in Ops, Return(o) PROVE Atomic!Next
    <3>1. Status[o] = "done" /\ Status' = [Status EXCEPT ![o] = "idle"]
      BY <2>7, <2>t, StatusOf, StatusStep DEF Return, Phases
    <3> QED BY <2>7, <3>1 DEF Return, Atomic!Return, Atomic!Next, Status, Read, Atomic!Read
  <2>8. CASE Crash
    <3>1. Status' = [o \in Ops |-> "idle"]
      BY <2>8 DEF Crash, Status
    <3> QED BY <2>8, <3>1 DEF Crash, Atomic!Crash, Atomic!Next, Status, Read, Atomic!Read
  <2>9. CASE UNCHANGED vars
    BY <2>9 DEF vars, Atomic!vars
  <2> QED BY <2>1, <2>2, <2>3, <2>4, <2>5, <2>6, <2>7, <2>8, <2>9 DEF Next, Step
<1> QED BY <1>1, <1>2, StoreInvariant, PTL DEF Spec, ImplementsAtomicStore, Atomic!Spec

-----------------------------------------------------------------------------
(* The poller *)

(* The inductive invariant: a loop at a tick has `ticking` set, which is   *)
(* what lets pollNow begin a tick only where there is none.                *)
LoopIsTicking == \A t \in Ticks : Looping(t) => ticking

LoopInv == PollerTypeOK /\ OneLoop /\ LiveIsInFlight /\ LoopIsTicking

(* tick, up to its first await, keeps the types of what it changes. *)
LEMMA RunStepTyped ==
    ASSUME PollerTypeOK, NEW t \in Ticks, NEW i \in 1 .. Steps, RunStep(t, i)
    PROVE  /\ at' \in [Ticks -> 1 .. Steps]
           /\ pc' \in [Ticks -> {"free", "await", "woken"}]
           /\ inFlight' \in Ticks \cup {None}
BY DEF PollerTypeOK, RunStep

(* A tick begun where no other loops, and no timer is held, is the loop. *)
LEMMA TickIsTheLoop ==
    ASSUME LoopInv, NEW t \in Ticks, Tick(t), running', "held" \notin timers',
           \A u \in Ticks \ {t} : ~Looping(u)
    PROVE  OneLoop' /\ LiveIsInFlight' /\ LoopIsTicking'
<1>1. /\ pc' \in [Ticks -> {"free", "await", "woken"}]
      /\ pc'[t] # "free" /\ current'[t] /\ ticking'
      /\ pc'[t] = "await" => inFlight' = t
      /\ \A u \in Ticks \ {t} : pc'[u] = pc[u] /\ current'[u] = current[u]
  BY DEF LoopInv, PollerTypeOK, Tick, RunStep
<1>2. \A u \in Ticks \ {t} : ~Looping(u)' /\ pc'[u] # "await"
  BY <1>1 DEF LoopInv, LiveIsInFlight, Looping
<1>3. Looping(t)'
  BY <1>1 DEF Looping
<1> QED BY <1>1, <1>2, <1>3 DEF OneLoop, LiveIsInFlight, LoopIsTicking

(* A poller just made has no loop, as it does not run. *)
LEMMA LoopBegins == PollerInit => LoopInv
<1> SUFFICES ASSUME PollerInit PROVE LoopInv
  OBVIOUS
<1>1. 1 \in 1 .. Steps
  BY PollerAssumption
<1>2. PollerTypeOK
  BY <1>1 DEF PollerInit, PollerTypeOK
<1>3. \A t \in Ticks : pc[t] = "free"
  BY DEF PollerInit
<1>4. OneLoop /\ LiveIsInFlight /\ LoopIsTicking
  BY <1>3 DEF PollerInit, OneLoop, LiveIsInFlight, LoopIsTicking, Looping
<1> QED BY <1>2, <1>4 DEF LoopInv

(* Every step of the poller, its timers and its host keeps the types. *)
LEMMA LoopTypeKept ==
    ASSUME LoopInv, [PollerNext]_pollerVars
    PROVE  PollerTypeOK'
<1> USE DEF LoopInv
<1>1. 1 \in 1 .. Steps
  BY PollerAssumption
<1>2. ASSUME NEW t \in Ticks, Tick(t), running' \in BOOLEAN, again' \in BOOLEAN,
             timers' \in SUBSET {"held", "dropped"}, stray' \in BOOLEAN
      PROVE  PollerTypeOK'
  <2>1. RunStep(t, 1) /\ current' \in [Ticks -> BOOLEAN] /\ ticking' \in BOOLEAN
    BY <1>2 DEF Tick, PollerTypeOK
  <2> QED BY <1>1, <1>2, <2>1, RunStepTyped DEF PollerTypeOK
<1>3. ASSUME NEW t \in Ticks, Start(t) \/ PollNow(t) \/ Fire(t) \/ TickAgain(t)
      PROVE  PollerTypeOK'
  BY <1>2, <1>3 DEF Start, PollNow, Fire, TickAgain, Clear, PollerTypeOK
<1>4. ASSUME NEW t \in Ticks, NextStep(t)
      PROVE  PollerTypeOK'
  <2>1. at[t] + 1 \in 1 .. Steps
    BY <1>4, PollerAssumption DEF NextStep, AtLastStep, PollerTypeOK
  <2> QED BY <1>4, <2>1, RunStepTyped DEF NextStep, PollerTypeOK
<1>5. ASSUME NEW t \in Ticks, StepSettles(t) \/ Deadline(t) \/ Outdated(t) \/ TickEnds(t)
      PROVE  PollerTypeOK'
  BY <1>5 DEF StepSettles, Deadline, Outdated, TickEnds, Released, PollerTypeOK
<1>6. CASE Stop
  BY <1>6 DEF Stop, NewGeneration, Clear, PollerTypeOK
<1>7. CASE PollAgain \/ FireDropped \/ StraySettles \/ UNCHANGED pollerVars
  BY <1>7 DEF PollAgain, FireDropped, StraySettles, Released, pollerVars, PollerTypeOK
<1> QED BY <1>3, <1>4, <1>5, <1>6, <1>7 DEF PollerNext, Resume

(* Every step keeps the one loop. *)
LEMMA LoopKept ==
    ASSUME LoopInv, [PollerNext]_pollerVars
    PROVE  OneLoop' /\ LiveIsInFlight' /\ LoopIsTicking'
<1>1. ASSUME NEW t \in Ticks, Start(t) \/ PollNow(t) \/ Fire(t) \/ TickAgain(t)
      PROVE  OneLoop' /\ LiveIsInFlight' /\ LoopIsTicking'
  <2>1. Tick(t)
    BY <1>1 DEF Start, PollNow, Fire, TickAgain
  <2>2. running' /\ "held" \notin timers'
    BY <1>1 DEF Start, PollNow, Fire, TickAgain, Clear, LoopInv, OneLoop, Looping
  <2>3. \A u \in Ticks \ {t} : ~Looping(u)
    BY <1>1 DEF Start, PollNow, Fire, TickAgain, LoopInv, OneLoop, LoopIsTicking, Looping
  <2> QED BY <2>1, <2>2, <2>3, TickIsTheLoop
<1>2. ASSUME NEW t \in Ticks, NextStep(t)
      PROVE  OneLoop' /\ LiveIsInFlight' /\ LoopIsTicking'
  <2>1. /\ Looping(t) /\ Looping(t)'
        /\ pc'[t] = "await" => inFlight' = t
        /\ \A u \in Ticks \ {t} : pc'[u] = pc[u]
        /\ UNCHANGED <<running, ticking, current, timers>>
    BY <1>2 DEF NextStep, RunStep, Looping, LoopInv, PollerTypeOK
  <2>2. \A u \in Ticks \ {t} : ~Looping(u) /\ ~Looping(u)' /\ pc'[u] # "await"
    BY <2>1 DEF LoopInv, OneLoop, LiveIsInFlight, Looping
  <2> QED BY <2>1, <2>2 DEF LoopInv, OneLoop, LiveIsInFlight, LoopIsTicking, Looping
<1>3. ASSUME NEW t \in Ticks, StepSettles(t) \/ Deadline(t)
      PROVE  OneLoop' /\ LiveIsInFlight' /\ LoopIsTicking'
  <2>1. /\ UNCHANGED <<running, ticking, current, timers>>
        /\ \A u \in Ticks : pc'[u] # "free" <=> pc[u] # "free"
        /\ \A u \in Ticks : pc'[u] # "await"
    BY <1>3 DEF StepSettles, Deadline, Overdue, LoopInv, PollerTypeOK, LiveIsInFlight
  <2> QED BY <2>1 DEF LoopInv, OneLoop, LiveIsInFlight, LoopIsTicking, Looping
<1>4. ASSUME NEW t \in Ticks, Outdated(t)
      PROVE  OneLoop' /\ LiveIsInFlight' /\ LoopIsTicking'
  <2>1. /\ UNCHANGED <<running, ticking, inFlight, current, timers>>
        /\ \A u \in Ticks : Looping(u)' <=> Looping(u)
        /\ \A u \in Ticks : pc'[u] = "await" => pc[u] = "await"
    BY <1>4 DEF Outdated, Looping, LoopInv, PollerTypeOK
  <2> QED BY <2>1 DEF LoopInv, OneLoop, LiveIsInFlight, LoopIsTicking
<1>5. ASSUME NEW t \in Ticks, TickEnds(t)
      PROVE  OneLoop' /\ LiveIsInFlight' /\ LoopIsTicking'
  <2>1. Looping(t) /\ running /\ "held" \notin timers
    BY <1>5 DEF TickEnds, Looping, LoopInv, OneLoop
  <2>2. \A u \in Ticks : ~Looping(u)' /\ pc'[u] # "await"
    BY <1>5, <2>1 DEF TickEnds, Looping, LoopInv, PollerTypeOK, OneLoop, LiveIsInFlight
  <2>3. running' <=> "held" \in timers'
    BY <1>5, <2>1 DEF TickEnds, LoopInv, PollerTypeOK
  <2> QED BY <2>2, <2>3 DEF OneLoop, LiveIsInFlight, LoopIsTicking
<1>6. CASE Stop
  <2>1. /\ ~running' /\ "held" \notin timers'
        /\ \A u \in Ticks : ~Looping(u)' /\ pc'[u] # "await"
    BY <1>6 DEF Stop, NewGeneration, Clear, Looping, LoopInv, LiveIsInFlight
  <2> QED BY <2>1 DEF OneLoop, LiveIsInFlight, LoopIsTicking
<1>7. CASE PollAgain \/ FireDropped \/ StraySettles \/ UNCHANGED pollerVars
  <2>1. /\ UNCHANGED <<running, ticking, inFlight, pc, current>>
        /\ "held" \in timers' <=> "held" \in timers
    BY <1>7 DEF PollAgain, FireDropped, StraySettles, Released, pollerVars, LoopInv, PollerTypeOK
  <2> QED BY <2>1 DEF LoopInv, OneLoop, LiveIsInFlight, LoopIsTicking, Looping
<1> QED BY <1>1, <1>2, <1>3, <1>4, <1>5, <1>6, <1>7 DEF PollerNext, Resume

LEMMA LoopInductive == PollerSpec => []LoopInv
<1>1. LoopInv /\ [PollerNext]_pollerVars => LoopInv'
  BY LoopTypeKept, LoopKept DEF LoopInv
<1> QED BY <1>1, LoopBegins, PTL DEF PollerSpec

(* Poller keeps its types: a tick never goes past the last step. *)
THEOREM PollerTypes == PollerSpec => []PollerTypeOK
<1>1. LoopInv => PollerTypeOK
  BY DEF LoopInv
<1> QED BY <1>1, LoopInductive, PTL

(* While it runs, the poller has exactly one loop: stop() and start() in   *)
(* any order, over any ticks still unwinding, neither fork nor lose it.    *)
THEOREM PollerOneLoop == PollerSpec => []OneLoop
<1>1. LoopInv => OneLoop
  BY DEF LoopInv
<1> QED BY <1>1, LoopInductive, PTL

(* The run being waited for is always the one stop() would abandon. *)
THEOREM PollerLiveIsInFlight == PollerSpec => []LiveIsInFlight
<1>1. LoopInv => LiveIsInFlight
  BY DEF LoopInv
<1> QED BY <1>1, LoopInductive, PTL

=============================================================================
