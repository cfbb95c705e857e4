-------------------------- MODULE WritePathProofs ---------------------------
(* Proofs about WritePath, for every control mode, set of callers, set of  *)
(* currents and phase setting.                                             *)
EXTENDS WritePath, TLAPS

-----------------------------------------------------------------------------
(* The queue operators *)

LEMMA EnqueueType ==
  ASSUME NEW q \in Queues, NEW item \in QueuedWrite, item.key \in Keys
  PROVE  Enqueue(q, item) \in Queues
  BY DEF Enqueue, Queues

LEMMA WithoutType ==
  ASSUME NEW q \in Queues, NEW k \in Keys
  PROVE  Without(q, k) \in Queues
  BY DEF Without, Queues

(* A queue with a waiting write has a most urgent one.                     *)
LEMMA MostUrgentPending ==
  ASSUME NEW q \in Queues, Pending(q) # {}
  PROVE  MostUrgent(q) \in Pending(q)
<1>1. \A k \in Keys : q[k].priority \in Int
  BY DEF Queues, QueuedWrite, NoItem, Priorities, CONTROL, KEEPALIVE, CURRENT
<1>2. \E k \in Pending(q) : \A l \in Pending(q) : q[k].priority <= q[l].priority
  BY <1>1 DEF Pending, Keys
<1> QED
  BY <1>2 DEF MostUrgent

LEMMA PendingType ==
  ASSUME NEW q \in Queues, NEW k \in Pending(q)
  PROVE  k \in Keys /\ q[k] \in QueuedWrite
  BY DEF Pending, Queues

LEMMA WithKeepaliveType ==
  ASSUME NEW q \in Queues
  PROVE  WithKeepalive(q) \in Queues
<1>1. KeepaliveWrite \in QueuedWrite /\ KeepaliveWrite.key \in Keys
  BY DEF KeepaliveWrite, QueuedWrite, Registers, Keys, Priorities, Reasons, KEEPALIVE
<1> QED
  BY <1>1, EnqueueType DEF WithKeepalive

LEMMA WritesTyped ==
  /\ ControlPause \in QueuedWrite /\ ControlPause.key \in Keys
  /\ \A v \in Nat : CurrentWrite(v) \in QueuedWrite /\ CurrentWrite(v).key \in Keys
  /\ \A v \in Nat : ExternalWrite(v) \in QueuedWrite
  /\ PhaseWrite \in QueuedWrite
  /\ EmptyQueue \in Queues
  BY DEF ControlPause, CurrentWrite, ExternalWrite, PhaseWrite, EmptyQueue, Queues,
     QueuedWrite, Registers, Keys, Priorities, Reasons, CONTROL, CURRENT

LEMMA EnqueueDecisionType ==
  ASSUME NEW q \in Queues, NEW eff, NEW allowed, NEW conn \in BOOLEAN,
         NEW d \in Decisions(eff, conn)
  PROVE  EnqueueDecision(q, d, eff, allowed, conn) \in Queues
<1>1. d.write => d.value \in Nat
  BY ConstantsAssumption DEF Decisions
<1>2. WithKeepalive(q) \in Queues /\ WithKeepalive(EmptyQueue) \in Queues
  BY WithKeepaliveType, WritesTyped
<1>3. \A p \in Queues : Enqueue(p, ControlPause) \in Queues
  BY EnqueueType, WritesTyped
<1>4. \A p \in Queues : d.write => Enqueue(p, CurrentWrite(d.value)) \in Queues
  BY <1>1, EnqueueType, WritesTyped
<1>5. ASSUME NEW p \in Queues
      PROVE  WithKeepalive(p) \in Queues
  BY WithKeepaliveType
<1> QED
  BY <1>2, <1>3, <1>4, <1>5 DEF EnqueueDecision

-----------------------------------------------------------------------------
(* The flush lock.  LockOK is LockDiscipline, with the types it needs, as  *)
(* a predicate of any lock and any program counters; the lemmas say what   *)
(* joining, leaving and moving within the lock preserve.                   *)

LockPCs == {"flush", "direct", "writing", "landed"}

LockOK(l, p) ==
  /\ l \in Seq(Actors)
  /\ p \in [Actors -> PCs]
  /\ \A i, j \in DOMAIN l : l[i] = l[j] => i = j
  /\ \A a \in Actors : (\E i \in DOMAIN l : l[i] = a) <=> p[a] \in LockPCs
  /\ \A a \in Actors : p[a] \in {"writing", "landed"} => Head(l) = a

LEMMA Join ==
  ASSUME NEW l, NEW p, LockOK(l, p),
         NEW b \in Actors, p[b] \notin LockPCs, NEW w \in {"flush", "direct"}
  PROVE  LockOK(Append(l, b), [p EXCEPT ![b] = w])
<1> DEFINE m == Append(l, b)
           q == [p EXCEPT ![b] = w]
<1>1. /\ m \in Seq(Actors) /\ q \in [Actors -> PCs]
      /\ DOMAIN l = 1..Len(l) /\ DOMAIN m = 1..(Len(l) + 1) /\ Len(l) \in Nat
      /\ \A i \in 1..Len(l) : m[i] = l[i]
      /\ m[Len(l) + 1] = b
      /\ l # <<>> => Head(m) = Head(l)
  BY DEF LockOK, PCs
<1>2. \A i \in DOMAIN l : l[i] # b
  BY DEF LockOK
<1>3. \A i, j \in DOMAIN m : m[i] = m[j] => i = j
  BY <1>1, <1>2 DEF LockOK
<1>4. ASSUME NEW a \in Actors
      PROVE  (\E i \in DOMAIN m : m[i] = a) <=> q[a] \in LockPCs
  <2>1. CASE a = b
    BY <1>1, <2>1 DEF LockOK, LockPCs
  <2>2. CASE a # b
    <3>1. q[a] = p[a]
      BY <2>2 DEF LockOK
    <3>2. (\E i \in DOMAIN m : m[i] = a) <=> (\E i \in DOMAIN l : l[i] = a)
      BY <1>1, <2>2
    <3> QED
      BY <3>1, <3>2 DEF LockOK
  <2> QED
    BY <2>1, <2>2
<1>5. ASSUME NEW a \in Actors, q[a] \in {"writing", "landed"}
      PROVE  Head(m) = a
  <2>1. a # b /\ p[a] \in {"writing", "landed"}
    BY <1>5 DEF LockOK
  <2>2. Head(l) = a /\ l # <<>>
    BY <2>1 DEF LockOK, LockPCs
  <2> QED
    BY <2>2, <1>1
<1> HIDE DEF m, q
<1>6. LockOK(m, q)
  BY <1>1, <1>3, <1>4, <1>5 DEF LockOK
<1> QED
  BY <1>6 DEF m, q

LEMMA Leave ==
  ASSUME NEW l, NEW p, LockOK(l, p),
         NEW b \in Actors, l # <<>>, Head(l) = b, NEW w \in PCs \ LockPCs
  PROVE  LockOK(Tail(l), [p EXCEPT ![b] = w])
<1> DEFINE m == Tail(l)
           q == [p EXCEPT ![b] = w]
<1>1. /\ m \in Seq(Actors) /\ q \in [Actors -> PCs]
      /\ DOMAIN l = 1..Len(l) /\ DOMAIN m = 1..(Len(l) - 1) /\ Len(l) \in Nat \ {0}
      /\ \A i \in 1..(Len(l) - 1) : m[i] = l[i + 1]
      /\ l[1] = b
  BY DEF LockOK
<1>2. \A i, j \in DOMAIN m : m[i] = m[j] => i = j
  BY <1>1 DEF LockOK
<1>3. \A i \in DOMAIN m : m[i] # b
  BY <1>1 DEF LockOK
<1>4. ASSUME NEW a \in Actors
      PROVE  (\E i \in DOMAIN m : m[i] = a) <=> q[a] \in LockPCs
  <2>1. CASE a = b
    BY <1>1, <1>3, <2>1 DEF LockOK
  <2>2. CASE a # b
    <3>1. q[a] = p[a]
      BY <2>2 DEF LockOK
    <3>2. ASSUME NEW i \in DOMAIN l, l[i] = a
          PROVE  i - 1 \in DOMAIN m /\ m[i - 1] = a
      BY <1>1, <2>2, <3>2
    <3>3. ASSUME NEW i \in DOMAIN m, m[i] = a
          PROVE  i + 1 \in DOMAIN l /\ l[i + 1] = a
      BY <1>1, <3>3
    <3>4. (\E i \in DOMAIN m : m[i] = a) <=> (\E i \in DOMAIN l : l[i] = a)
      BY <3>2, <3>3
    <3> QED
      BY <3>1, <3>4 DEF LockOK
  <2> QED
    BY <2>1, <2>2
<1>5. \A a \in Actors : q[a] \notin {"writing", "landed"}
  BY <1>1 DEF LockOK, LockPCs
<1> HIDE DEF m, q
<1>6. LockOK(m, q)
  BY <1>1, <1>2, <1>4, <1>5 DEF LockOK
<1> QED
  BY <1>6 DEF m, q

LEMMA MoveInside ==
  ASSUME NEW l, NEW p, LockOK(l, p),
         NEW b \in Actors, p[b] \in LockPCs, Head(l) = b, NEW w \in LockPCs
  PROVE  LockOK(l, [p EXCEPT ![b] = w])
  BY DEF LockOK, LockPCs, PCs

LEMMA MoveOutside ==
  ASSUME NEW l, NEW p, LockOK(l, p),
         NEW b \in Actors, p[b] \notin LockPCs, NEW w \in PCs \ LockPCs
  PROVE  LockOK(l, [p EXCEPT ![b] = w])
  BY DEF LockOK, LockPCs

(* A cancelled coroutine leaves from any place.                            *)
LEMMA Abandon ==
  ASSUME NEW p, LockOK(lock, p), NEW i \in DOMAIN lock, NEW w \in PCs \ LockPCs
  PROVE  LockOK(LockWithout(i), [p EXCEPT ![lock[i]] = w])
<1> DEFINE m == LockWithout(i)
           b == lock[i]
           q == [p EXCEPT ![b] = w]
<1>1. /\ b \in Actors /\ q \in [Actors -> PCs]
      /\ DOMAIN lock = 1..Len(lock) /\ Len(lock) \in Nat \ {0}
      /\ lock \in Seq(Actors)
  BY DEF LockOK
<1>2. /\ DOMAIN m = 1..(Len(lock) - 1)
      /\ \A j \in 1..(Len(lock) - 1) : m[j] = IF j < i THEN lock[j] ELSE lock[j + 1]
  BY DEF LockWithout
<1>3. \A j \in 1..(Len(lock) - 1) : m[j] \in Actors
  BY <1>1, <1>2
<1>4. m \in Seq(Actors) /\ Len(m) = Len(lock) - 1
  BY <1>1, <1>2, <1>3 DEF LockWithout
<1> DEFINE f(j) == IF j < i THEN j ELSE j + 1
<1>f. ASSUME NEW j \in DOMAIN m
      PROVE  f(j) \in DOMAIN lock /\ f(j) # i /\ m[j] = lock[f(j)] /\ j \in Int
  BY <1>1, <1>2
<1>g. \A j, k \in DOMAIN m : f(j) = f(k) => j = k
  BY <1>1, <1>2
<1> HIDE DEF m, f
<1>5. \A j, k \in DOMAIN m : m[j] = m[k] => j = k
  BY <1>f, <1>g DEF LockOK
<1>6. \A j \in DOMAIN m : m[j] # b
  BY <1>f DEF LockOK
<1>7. ASSUME NEW a \in Actors
      PROVE  (\E j \in DOMAIN m : m[j] = a) <=> q[a] \in LockPCs
  <2>1. CASE a = b
    BY <1>1, <1>6, <2>1 DEF LockOK
  <2>2. CASE a # b
    <3>1. q[a] = p[a]
      BY <2>2 DEF LockOK
    <3>2. ASSUME NEW j \in DOMAIN lock, lock[j] = a
          PROVE  \E k \in DOMAIN m : m[k] = a
      <4>1. CASE j < i
        BY <1>1, <1>2, <3>2, <4>1
      <4>2. CASE j > i
        <5>1. j - 1 \in DOMAIN m /\ m[j - 1] = a
          BY <1>1, <1>2, <3>2, <4>2
        <5> QED
          BY <5>1
      <4> QED
        BY <1>1, <2>2, <3>2, <4>1, <4>2
    <3>3. (\E j \in DOMAIN m : m[j] = a) <=> (\E j \in DOMAIN lock : lock[j] = a)
      BY <1>f, <3>2
    <3> QED
      BY <3>1, <3>3 DEF LockOK
  <2> QED
    BY <2>1, <2>2
<1>8. ASSUME NEW a \in Actors, q[a] \in {"writing", "landed"}
      PROVE  Head(m) = a
  <2>1. a # b /\ Head(lock) = a /\ lock # <<>>
    BY <1>1, <1>8 DEF LockOK, LockPCs
  <2>2. i # 1 /\ Len(lock) > 1
    BY <1>1, <2>1
  <2>3. m # <<>> /\ Head(m) = m[1]
    BY <1>4, <2>2
  <2> QED
    BY <1>1, <1>2, <2>1, <2>2, <2>3
<1> HIDE DEF q
<1>9. LockOK(m, q)
  BY <1>1, <1>4, <1>5, <1>7, <1>8 DEF LockOK
<1> QED
  BY <1>9 DEF m, q

-----------------------------------------------------------------------------
(* Types and the lock: the inductive invariant.  The types need the lock   *)
(* (leaving an empty lock would not be typed), and the lock the types.     *)

LockInv == TypeOK /\ LockOK(lock, pc)

(* What RequestCurrent, RequestRegister and AfterPending may change.       *)
Coroutines ==
  /\ LockOK(lock, pc)
  /\ running \in Actors \cup {"loop"}
  /\ job \in [Actors -> QueuedWrite \cup {NoItem}]
  /\ task \in [kind: {"manual", "automatic", "restore", "user_restore"},
               stage: {"try", "finally"}, conn: BOOLEAN]

LEMMA InvCoroutines == LockInv => Coroutines
  BY DEF LockInv, Coroutines, TypeOK

LEMMA ActorsKnown ==
  /\ "poll" \in Actors /\ "keepalive" \in Actors /\ "phase" \in Actors
  /\ Callers \subseteq Actors /\ "phase" \notin Callers
  BY ConstantsAssumption DEF Actors, Flushers

LEMMA EnterOK ==
  ASSUME Coroutines, NEW b \in Actors, pc[b] \notin LockPCs,
         NEW w \in {"flush", "direct"}, Enter(b, w)
  PROVE  LockOK(lock', pc') /\ running' \in Actors \cup {"loop"}
  BY Join DEF Enter, Coroutines

LEMMA RequestCurrentOK ==
  ASSUME LockInv, NEW c \in Callers, pc[c] \notin LockPCs, NEW v \in Nat,
         RequestCurrent(c, v), UNCHANGED task
  PROVE  Coroutines' /\ pendingA' \in Amps /\ externalA' \in Nat
<1>1. Coroutines /\ c \in Actors
  BY InvCoroutines, ActorsKnown
<1>2. externalA' \in Nat /\ pendingA' \in Amps
  BY DEF RequestCurrent, LockInv, TypeOK, Amps
<1>3. CASE pc' = [pc EXCEPT ![c] = "idle"] /\ UNCHANGED <<lock, running, job>>
  BY <1>1, <1>2, <1>3, MoveOutside DEF Coroutines, PCs, LockPCs
<1>4. CASE Enter(c, "direct") /\ job' = [job EXCEPT ![c] = ExternalWrite(v)]
  BY <1>1, <1>2, <1>4, EnterOK, WritesTyped DEF Coroutines
<1> QED
  BY <1>2, <1>3, <1>4 DEF RequestCurrent

LEMMA RequestRegisterOK ==
  ASSUME LockInv, pc["phase"] \notin LockPCs, NEW ok \in BOOLEAN,
         RequestRegister(ok)
  PROVE  Coroutines'
<1>1. Coroutines /\ "phase" \in Actors
  BY InvCoroutines, ActorsKnown
<1>2. CASE ok
  BY <1>1, <1>2, EnterOK, WritesTyped DEF RequestRegister, Coroutines
<1>3. CASE ~ok
  BY <1>1, <1>3, MoveOutside DEF RequestRegister, Coroutines, PCs, LockPCs
<1> QED
  BY <1>2, <1>3

(* AfterPending moves the phase task from w, outside the lock it has left. *)
LEMMA AfterPendingOK ==
  ASSUME Coroutines, pc["phase"] \notin LockPCs, AfterPending, UNCHANGED <<lock, job>>
  PROVE  Coroutines'
  BY ActorsKnown, MoveOutside DEF AfterPending, Coroutines, PCs, LockPCs

LEMMA AfterPendingLeaves ==
  ASSUME Coroutines, OnWire("phase"), AfterPending, ReleaseLock,
         job' = [job EXCEPT !["phase"] = NoItem]
  PROVE  Coroutines'
<1>1. lock # <<>> /\ Head(lock) = "phase"
  BY ActorsKnown DEF OnWire, Coroutines, LockOK, LockPCs
<1>2. \A w \in {"pend", "refresh"} : LockOK(Tail(lock), [pc EXCEPT !["phase"] = w])
  BY <1>1, ActorsKnown, Leave DEF Coroutines, PCs, LockPCs
<1> QED
  BY <1>2, ActorsKnown DEF AfterPending, ReleaseLock, Coroutines

LEMMA InitLockInv == Init => LockInv
<1> SUFFICES ASSUME Init PROVE LockInv
  OBVIOUS
<1>1. LockOK(lock, pc)
  BY DEF Init, LockOK, LockPCs, PCs
<1>2. EmptyQueue \in Queues
  BY WritesTyped
<1>3. limit \in Nat /\ mode \in {"off", "normal", "solar"}
  BY ConstantsAssumption DEF Init
<1> QED
  BY <1>1, <1>2, <1>3
  DEF LockInv, TypeOK, LockOK, Init, NoTask, Amps, NoAmps, Reasons

LEMMA LockOKTyped ==
  ASSUME LockOK(lock, pc)'
  PROVE  lock' \in Seq(Actors) /\ pc' \in [Actors -> PCs]
  BY DEF LockOK

LEMMA UnrecordedType ==
  ASSUME NEW a, Unrecorded(a)
  PROVE  unconfirmed' \in BOOLEAN
  BY DEF Unrecorded

LEMMA RecordType ==
  ASSUME TypeOK, NEW a \in Actors, Record(job[a])
  PROVE  /\ due' \in BOOLEAN
         /\ lastWrite' \in [value: Amps, reason: Reasons]
         /\ unconfirmed' \in BOOLEAN
<1>1. due' \in BOOLEAN
  BY DEF Record
<1>2. CASE job[a].key = "current_limit"
  <2>1. job[a].value \in Amps /\ job[a].reason \in Reasons
    BY DEF TypeOK, QueuedWrite, NoItem, Amps, Reasons
  <2>2. unconfirmed' \in BOOLEAN
    BY <1>2 DEF Record
  <2> QED
    BY <1>1, <1>2, <2>1, <2>2 DEF Record
<1>3. CASE job[a].key # "current_limit"
  BY <1>1, <1>3 DEF Record, record, TypeOK
<1> QED
  BY <1>2, <1>3

(* A coroutine with a write on the wire is the holder of the lock.         *)
LEMMA WireHolds ==
  ASSUME LockOK(lock, pc), NEW a \in Actors, OnWire(a)
  PROVE  lock # <<>> /\ Head(lock) = a /\ pc[a] \in LockPCs
  BY DEF OnWire, LockOK, LockPCs

(* The poll cycle keeps the invariant.                                     *)
LEMMA PollStepLockInv ==
  ASSUME LockInv, PollStep
  PROVE  LockInv'
<1> USE ActorsKnown
<1>0. LockOK(lock, pc) /\ TypeOK
  BY DEF LockInv
<1>1. CASE PollRead
  <2>1. LockOK(lock', pc')
    BY <1>0, <1>1, MoveOutside DEF PollRead, PCs, LockPCs
  <2>2. TypeOK'
    BY <1>0, <1>1, <2>1, LockOKTyped
    DEF PollRead, TypeOK, charger, user, session, record
  <2> QED
    BY <2>1, <2>2 DEF LockInv
<1>2. CASE PollReadFails
  <2>1. LockOK(lock', pc')
    BY <1>0, <1>2, MoveOutside DEF PollReadFails, PCs, LockPCs
  <2>2. seen' \in BOOLEAN
    BY <1>2 DEF PollReadFails
  <2>3. TypeOK'
    BY <1>0, <1>2, <2>1, <2>2, LockOKTyped
    DEF PollReadFails, TypeOK, charger, user, session, record
  <2> QED
    BY <2>1, <2>3 DEF LockInv
<1>3. CASE PollDecide
  <2> DEFINE eff == Effective(mode')
             may == IF seen /\ ~PhaseInProgress THEN Schedulable(eff) ELSE {}
             allowed(act) == AutomaticWritesAllowed(PhaseInProgress \/ act # "none")
  <2>1. PICK d \in Decisions(eff, seen), act \in {"none"} \cup may :
          /\ queue' = EnqueueDecision(queue, d, eff, allowed(act), seen)
          /\ verdict' = Wanted(d, eff, allowed(act), seen)
          /\ task' = IF act = "none" THEN task
                     ELSE [kind |-> act, stage |-> "try", conn |-> TRUE]
          /\ \/ /\ pc' = [pc EXCEPT !["poll"] = "flush",
                            !["phase"] = IF act = "none" THEN @ ELSE "queued"]
                /\ lock' = Append(lock, "poll")
                /\ running' = IF lock = <<>> THEN "poll" ELSE "loop"
                /\ UNCHANGED job
             \/ /\ act = "automatic"
                /\ pc' = [pc EXCEPT !["poll"] = "flush", !["phase"] = "direct"]
                /\ lock' = lock \o <<"phase", "poll">>
                /\ running' = IF lock = <<>> THEN "phase" ELSE "loop"
                /\ job' = [job EXCEPT !["phase"] = PhaseWrite]
    BY <1>3 DEF PollDecide
  <2>2. act # "none" => pc["phase"] = "idle" /\ act \in {"restore", "automatic"}
    BY DEF PhaseInProgress, Schedulable
  <2>3. queue' \in Queues
    BY <1>0, <2>1, EnqueueDecisionType DEF TypeOK
  <2>4. verdict' \in Amps
    <3>1. d.value \in Amps
      BY ConstantsAssumption DEF Decisions, Amps
    <3> QED
      BY <2>1, <3>1 DEF Wanted, Amps
  <2>5. mode' \in {"off", "normal", "solar"} /\ lastSeen' \in {"none", "connected", "empty"}
    BY <1>0, <1>3, ConstantsAssumption DEF PollDecide, TypeOK
  <2>6. task' \in [kind: {"manual", "automatic", "restore", "user_restore"},
                   stage: {"try", "finally"}, conn: BOOLEAN]
    BY <1>0, <2>1, <2>2 DEF TypeOK
  <2>7. job' \in [Actors -> QueuedWrite \cup {NoItem}] /\ running' \in Actors \cup {"loop"}
    <3>1. job \in [Actors -> QueuedWrite \cup {NoItem}] /\ PhaseWrite \in QueuedWrite
      BY <1>0, WritesTyped DEF TypeOK
    <3>2. job' = job \/ job' = [job EXCEPT !["phase"] = PhaseWrite]
      BY <2>1
    <3>3. running' \in {"poll", "phase", "loop"}
      BY <2>1
    <3> QED
      BY <3>1, <3>2, <3>3
  <2>8. LockOK(lock', pc')
    <3>1. pc["poll"] = "read" /\ pc \in [Actors -> PCs]
      BY <1>0, <1>3 DEF PollDecide, TypeOK
    <3> DEFINE early == [pc EXCEPT !["phase"] = IF act = "none" THEN @ ELSE "queued"]
               eager == [pc EXCEPT !["phase"] = "direct"]
    <3>2. LockOK(lock, early)
      BY <1>0, <2>2, <3>1, MoveOutside DEF PCs, LockPCs
    <3>3. LockOK(Append(lock, "poll"), [early EXCEPT !["poll"] = "flush"])
      BY <3>1, <3>2, Join DEF LockPCs
    <3>4. CASE act = "automatic"
      <4>1. LockOK(Append(lock, "phase"), eager)
        BY <1>0, <2>2, <3>4, Join DEF LockPCs
      <4>2. LockOK(Append(Append(lock, "phase"), "poll"), [eager EXCEPT !["poll"] = "flush"])
        BY <3>1, <4>1, Join DEF LockPCs
      <4>3. Append(Append(lock, "phase"), "poll") = lock \o <<"phase", "poll">>
        BY <1>0 DEF TypeOK
      <4>4. [eager EXCEPT !["poll"] = "flush"]
              = [pc EXCEPT !["poll"] = "flush", !["phase"] = "direct"]
        BY <3>1
      <4>5. [early EXCEPT !["poll"] = "flush"]
              = [pc EXCEPT !["poll"] = "flush",
                           !["phase"] = IF act = "none" THEN @ ELSE "queued"]
        BY <3>1
      <4> QED
        BY <2>1, <3>3, <4>2, <4>3, <4>4, <4>5
    <3>5. CASE act # "automatic"
      <4>1. [early EXCEPT !["poll"] = "flush"]
              = [pc EXCEPT !["poll"] = "flush",
                           !["phase"] = IF act = "none" THEN @ ELSE "queued"]
        BY <3>1
      <4> QED
        BY <2>1, <3>3, <3>5, <4>1
    <3> QED
      BY <3>4, <3>5
  <2> QED
    BY <1>0, <1>3, <2>3, <2>4, <2>5, <2>6, <2>7, <2>8, LockOKTyped
    DEF PollDecide, LockInv, TypeOK, charger, user, session, record
<1>4. CASE PollPublish
  <2>1. LockOK(lock', pc')
    BY <1>0, <1>4, MoveOutside DEF PollPublish, PCs, LockPCs
  <2>2. TypeOK'
    BY <1>0, <1>4, <2>1, LockOKTyped
    DEF PollPublish, TypeOK, charger, user, session, record, Amps
  <2> QED
    BY <2>1, <2>2 DEF LockInv
<1>5. CASE PollCancelled
  <2>1. LockOK(lock', pc')
    <3>1. CASE pc["poll"] \in {"read", "publish"} /\ UNCHANGED lock
      BY <1>0, <1>5, <3>1, MoveOutside DEF PollCancelled, PCs, LockPCs
    <3>2. CASE \E i \in DOMAIN lock : lock[i] = "poll" /\ lock' = LockWithout(i)
      BY <1>0, <1>5, <3>2, Abandon DEF PollCancelled, PCs, LockPCs
    <3> QED
      BY <1>5, <3>1, <3>2 DEF PollCancelled
  <2>2. seen' \in BOOLEAN /\ unconfirmed' \in BOOLEAN
    BY <1>5, UnrecordedType DEF PollCancelled
  <2>3. verdict' \in Amps /\ job' \in [Actors -> QueuedWrite \cup {NoItem}]
    BY <1>0, <1>5 DEF PollCancelled, TypeOK, Amps
  <2>4. TypeOK'
    BY <1>0, <1>5, <2>1, <2>2, <2>3, LockOKTyped
    DEF PollCancelled, TypeOK, charger, user, session
  <2> QED
    BY <2>1, <2>4 DEF LockInv
<1> QED
  BY <1>1, <1>2, <1>3, <1>4, <1>5 DEF PollStep

(* So do the keepalive loop and the writes of every coroutine.             *)
LEMMA KeepaliveLockInv ==
  ASSUME LockInv, KeepaliveDue \/ KeepaliveIteration
  PROVE  LockInv'
<1> USE ActorsKnown
<1>0. LockOK(lock, pc) /\ TypeOK /\ Coroutines
  BY InvCoroutines DEF LockInv
<1>1. CASE KeepaliveDue
  <2>1. due' \in BOOLEAN
    BY <1>1 DEF KeepaliveDue
  <2> QED
    BY <1>0, <1>1, <2>1
    DEF KeepaliveDue, LockInv, TypeOK, charger, user, session, record
<1>2. CASE KeepaliveIteration
  <2>1. LockOK(lock', pc') /\ running' \in Actors \cup {"loop"}
    BY <1>0, <1>2, EnterOK DEF KeepaliveIteration, LockPCs
  <2>2. queue' \in Queues
    BY <1>0, <1>2, WithKeepaliveType DEF KeepaliveIteration, TypeOK
  <2>3. TypeOK'
    BY <1>0, <1>2, <2>1, <2>2, LockOKTyped
    DEF KeepaliveIteration, TypeOK, charger, user, session, record
  <2> QED
    BY <2>1, <2>3 DEF LockInv
<1> QED
  BY <1>1, <1>2

LEMMA WriteStepLockInv ==
  ASSUME LockInv, NEW a \in Actors, WriteStep(a)
  PROVE  LockInv'
<1> USE ActorsKnown
<1>0. LockOK(lock, pc) /\ TypeOK
  BY DEF LockInv
<1>1. CASE FlushNext(a)
  <2>1. CASE Pending(queue) = {}
    <3>1. LockOK(lock', pc')
      <4> DEFINE w == IF a = "poll" THEN "publish" ELSE "idle"
      <4>1. w \in PCs \ LockPCs
        BY DEF PCs, LockPCs
      <4>2. lock # <<>> /\ Head(lock) = a /\ lock' = Tail(lock)
            /\ pc' = [pc EXCEPT ![a] = w]
        BY <1>1, <2>1 DEF FlushNext, HoldsLock, ReleaseLock
      <4> HIDE DEF w
      <4> QED
        BY <1>0, <4>1, <4>2, Leave
    <3>2. TypeOK'
      BY <1>0, <1>1, <2>1, <3>1, LockOKTyped
      DEF FlushNext, TypeOK, charger, user, session, record
    <3> QED
      BY <3>1, <3>2 DEF LockInv
  <2>2. CASE Pending(queue) # {}
    <3> DEFINE k == MostUrgent(queue)
    <3>1. k \in Keys /\ queue[k] \in QueuedWrite
      BY <1>0, <2>2, MostUrgentPending, PendingType DEF TypeOK
    <3>2. queue' \in Queues /\ job' \in [Actors -> QueuedWrite \cup {NoItem}]
      BY <1>0, <1>1, <2>2, <3>1, WithoutType DEF FlushNext, TypeOK
    <3>3. LockOK(lock', pc')
      <4>1. Head(lock) = a /\ pc[a] = "flush" /\ lock' = lock
            /\ pc' = [pc EXCEPT ![a] = "writing"]
        BY <1>1, <2>2 DEF FlushNext, HoldsLock
      <4> QED
        BY <1>0, <4>1, MoveInside DEF LockPCs
    <3>4. TypeOK'
      BY <1>0, <1>1, <3>2, <3>3, LockOKTyped
      DEF FlushNext, TypeOK, charger, user, session, record
    <3> QED
      BY <3>3, <3>4 DEF LockInv
  <2> QED
    BY <2>1, <2>2
<1>2. CASE DirectStart(a)
  <2>1. LockOK(lock', pc')
    BY <1>0, <1>2, MoveInside DEF DirectStart, HoldsLock, LockPCs
  <2>2. TypeOK'
    BY <1>0, <1>2, <2>1, LockOKTyped, WritesTyped
    DEF DirectStart, TypeOK, charger, user, session, record
  <2> QED
    BY <2>1, <2>2 DEF LockInv
<1>3. CASE Land(a)
  <2>1. LockOK(lock', pc')
    BY <1>0, <1>3, WireHolds, MoveInside DEF Land, OnWire, LockPCs
  <2>2. limit' \in Nat
    BY <1>0, <1>3 DEF Land, TypeOK, QueuedWrite, NoItem
  <2>3. TypeOK'
    BY <1>0, <1>3, <2>1, <2>2, LockOKTyped
    DEF Land, TypeOK, user, session, record
  <2> QED
    BY <2>1, <2>3 DEF LockInv
<1>4. CASE FlushWriteOk(a)
  <2>1. LockOK(lock', pc')
    BY <1>0, <1>4, WireHolds, MoveInside DEF FlushWriteOk, OnWire, LockPCs
  <2>2. job' \in [Actors -> QueuedWrite \cup {NoItem}] /\ running' \in Actors
    BY <1>0, <1>4 DEF FlushWriteOk, TypeOK
  <2>3. TypeOK'
    BY <1>0, <1>4, <2>1, <2>2, LockOKTyped, RecordType
    DEF FlushWriteOk, TypeOK, charger, user, session
  <2> QED
    BY <2>1, <2>3 DEF LockInv
<1>5. CASE CallerWriteOk(a)
  <2>1. LockOK(lock', pc')
    BY <1>0, <1>5, WireHolds, Leave DEF CallerWriteOk, OnWire, ReleaseLock, PCs, LockPCs
  <2>2. job' \in [Actors -> QueuedWrite \cup {NoItem}]
    BY <1>0, <1>5 DEF CallerWriteOk, TypeOK
  <2>3. TypeOK'
    BY <1>0, <1>5, <2>1, <2>2, LockOKTyped, RecordType
    DEF CallerWriteOk, TypeOK, charger, user, session
  <2> QED
    BY <2>1, <2>3 DEF LockInv
<1>6. CASE WriteFails(a)
  <2>1. LockOK(lock', pc')
    BY <1>0, <1>6, WireHolds, Leave DEF WriteFails, ReleaseLock, PCs, LockPCs
  <2>2. job' \in [Actors -> QueuedWrite \cup {NoItem}] /\ unconfirmed' \in BOOLEAN
    BY <1>0, <1>6, UnrecordedType DEF WriteFails, TypeOK
  <2>3. verdict' \in Amps
    BY <1>0, <1>6 DEF WriteFails, TypeOK, Amps
  <2>4. TypeOK'
    BY <1>0, <1>6, <2>1, <2>2, <2>3, LockOKTyped
    DEF WriteFails, TypeOK, charger, user, session
  <2> QED
    BY <2>1, <2>4 DEF LockInv
<1> QED
  BY <1>1, <1>2, <1>3, <1>4, <1>5, <1>6 DEF WriteStep

LEMMA CallerStepLockInv ==
  ASSUME LockInv, NEW c \in Callers, CallerStep(c)
  PROVE  LockInv'
<1> USE ActorsKnown
<1>0. LockOK(lock, pc) /\ TypeOK
  BY DEF LockInv
<1>1. CASE SetExternalCurrent(c)
  <2>1. PICK v \in Requests : RequestCurrent(c, v)
    BY <1>1 DEF SetExternalCurrent
  <2>2. Coroutines' /\ pendingA' \in Amps /\ externalA' \in Nat
    BY <1>1, <2>1, RequestCurrentOK, ConstantsAssumption DEF SetExternalCurrent, LockPCs
  <2>3. TypeOK'
    BY <1>0, <1>1, <2>2, LockOKTyped
    DEF SetExternalCurrent, TypeOK, Coroutines, charger, session, record
  <2> QED
    BY <2>2, <2>3 DEF LockInv, Coroutines
<1>2. CASE SetChargingEnabled(c)
  <2>1. PICK enabled \in BOOLEAN :
          /\ paused' = ~enabled
          /\ pc' = [pc EXCEPT ![c] = IF enabled THEN "saving_on" ELSE "saving_off"]
    BY <1>2 DEF SetChargingEnabled
  <2>2. paused' \in BOOLEAN
    BY <2>1
  <2>3. LockOK(lock', pc')
    <3> DEFINE w == IF enabled THEN "saving_on" ELSE "saving_off"
    <3>1. w \in PCs \ LockPCs
      BY DEF PCs, LockPCs
    <3>2. pc' = [pc EXCEPT ![c] = w] /\ lock' = lock /\ pc[c] \notin LockPCs
      BY <1>2, <2>1 DEF SetChargingEnabled, LockPCs
    <3> HIDE DEF w
    <3> QED
      BY <1>0, <3>1, <3>2, MoveOutside
  <2>4. TypeOK'
    BY <1>0, <1>2, <2>2, <2>3, LockOKTyped
    DEF SetChargingEnabled, TypeOK, charger, session, record
  <2> QED
    BY <2>3, <2>4 DEF LockInv
<1>3. CASE ChargingEnabledSaved(c)
  <2> DEFINE v == IF pc[c] = "saving_off" THEN 0
                  ELSE IF externalA > 0 THEN externalA ELSE MinCurrent
  <2>1. v \in Nat
    BY <1>0, ConstantsAssumption DEF TypeOK
  <2>2. RequestCurrent(c, v) /\ pc[c] \notin LockPCs /\ UNCHANGED task
    BY <1>3 DEF ChargingEnabledSaved, LockPCs
  <2> HIDE DEF v
  <2>3. Coroutines' /\ pendingA' \in Amps /\ externalA' \in Nat
    BY <2>1, <2>2, RequestCurrentOK
  <2>4. TypeOK'
    BY <1>0, <1>3, <2>3, LockOKTyped
    DEF ChargingEnabledSaved, TypeOK, Coroutines, charger, session, record
  <2> QED
    BY <2>3, <2>4 DEF LockInv, Coroutines
<1> QED
  BY <1>1, <1>2, <1>3 DEF CallerStep

LEMMA UserStepLockInv ==
  ASSUME LockInv, UserStep
  PROVE  LockInv'
<1>0. LockOK(lock, pc) /\ TypeOK
  BY DEF LockInv
<1>1. CASE PlugOrUnplug
  <2>1. plugged' \in BOOLEAN
    BY <1>1 DEF PlugOrUnplug
  <2> QED
    BY <1>0, <1>1, <2>1 DEF PlugOrUnplug, LockInv, TypeOK, user, session, record
<1>2. CASE SetMode
  BY <1>0, <1>2, ConstantsAssumption
  DEF SetMode, LockInv, TypeOK, charger, session, record
<1>3. CASE PauseOrResume
  <2>1. paused' \in BOOLEAN
    BY <1>3 DEF PauseOrResume
  <2> QED
    BY <1>0, <1>3, <2>1 DEF PauseOrResume, LockInv, TypeOK, charger, session, record
<1> QED
  BY <1>1, <1>2, <1>3 DEF UserStep

(* And so does the phase task.                                             *)
LEMMA PhaseStepLockInv ==
  ASSUME LockInv, PhaseStep
  PROVE  LockInv'
<1> USE ActorsKnown
<1>0. LockOK(lock, pc) /\ TypeOK /\ Coroutines
  BY InvCoroutines DEF LockInv
<1>1. ASSUME NEW kind \in PhaseRequests, RequestPhase(kind)
      PROVE  LockInv'
  <2>1. LockOK(lock', pc')
    BY <1>0, <1>1, MoveOutside DEF RequestPhase, PhaseInProgress, PCs, LockPCs
  <2>2. task' \in [kind: {"manual", "automatic", "restore", "user_restore"},
                   stage: {"try", "finally"}, conn: BOOLEAN]
    BY <1>1, ConstantsAssumption DEF RequestPhase
  <2>3. running' \in Actors \cup {"loop"}
    BY <1>1 DEF RequestPhase
  <2>4. TypeOK'
    BY <1>0, <1>1, <2>1, <2>2, <2>3, LockOKTyped
    DEF RequestPhase, TypeOK, charger, user, session, record
  <2> QED
    BY <2>1, <2>4 DEF LockInv
<1>2. CASE SwitchStart
  <2> DEFINE ok == PhaseWritesAllowed /\ (task.kind = "automatic" \/ data = "connected")
  <2>1. ok \in BOOLEAN /\ RequestRegister(ok) /\ pc["phase"] \notin LockPCs
    BY <1>2 DEF SwitchStart, LockPCs
  <2> HIDE DEF ok
  <2>2. Coroutines'
    BY <2>1, RequestRegisterOK
  <2>3. TypeOK'
    BY <1>0, <1>2, <2>2, LockOKTyped
    DEF SwitchStart, TypeOK, Coroutines, charger, user, session, record
  <2> QED
    BY <2>2, <2>3 DEF LockInv, Coroutines
<1>3. CASE RestoreRead
  <2>1. LockOK(lock', pc')
    BY <1>0, <1>3, MoveOutside DEF RestoreRead, PCs, LockPCs
  <2>2. task' \in [kind: {"manual", "automatic", "restore", "user_restore"},
                   stage: {"try", "finally"}, conn: BOOLEAN]
    BY <1>0, <1>3 DEF RestoreRead, TypeOK
  <2>3. TypeOK'
    BY <1>0, <1>3, <2>1, <2>2, LockOKTyped
    DEF RestoreRead, TypeOK, charger, user, session, record
  <2> QED
    BY <2>1, <2>3 DEF LockInv
<1>4. CASE RestoreDecide
  <2>1. PICK needed \in BOOLEAN :
          RequestRegister(task.conn /\ needed /\ PhaseWritesAllowed)
    BY <1>4 DEF RestoreDecide
  <2>2. pc["phase"] \notin LockPCs
    BY <1>4 DEF RestoreDecide, LockPCs
  <2>3. Coroutines'
    BY <2>1, <2>2, RequestRegisterOK
  <2>4. TypeOK'
    BY <1>0, <1>4, <2>3, LockOKTyped
    DEF RestoreDecide, TypeOK, Coroutines, charger, user, session, record
  <2> QED
    BY <2>3, <2>4 DEF LockInv, Coroutines
<1>5. CASE FlushPending
  <2>1. pendingA' \in Amps /\ pc["phase"] \notin LockPCs
    BY <1>5 DEF FlushPending, Amps, LockPCs
  <2>2. Coroutines'
    <3>1. CASE pendingA # NoAmps /\ Accepted(pendingA)
      <4>1. pendingA \in Nat
        BY <1>0, <3>1 DEF TypeOK, Amps
      <4>2. ExternalWrite(pendingA) \in QueuedWrite
        BY <4>1, WritesTyped
      <4>3. /\ Enter("phase", "direct") /\ UNCHANGED task
            /\ job' = [job EXCEPT !["phase"] = ExternalWrite(pendingA)]
        BY <1>5, <3>1 DEF FlushPending
      <4> QED
        BY <1>0, <2>1, <4>2, <4>3, EnterOK DEF Coroutines
    <3>2. CASE AfterPending /\ UNCHANGED <<lock, job>>
      BY <1>0, <2>1, <3>2, AfterPendingOK
    <3> QED
      BY <1>5, <3>1, <3>2 DEF FlushPending
  <2>3. TypeOK'
    BY <1>0, <1>5, <2>1, <2>2, LockOKTyped
    DEF FlushPending, TypeOK, Coroutines, charger, user, session, record
  <2> QED
    BY <2>2, <2>3 DEF LockInv, Coroutines
<1>6. CASE PhaseRegisterOk
  <2>1. LockOK(lock', pc')
    BY <1>0, <1>6, WireHolds, Leave DEF PhaseRegisterOk, OnWire, ReleaseLock, PCs, LockPCs
  <2>2. job' \in [Actors -> QueuedWrite \cup {NoItem}] /\ running' \in Actors
    BY <1>0, <1>6 DEF PhaseRegisterOk, TypeOK
  <2>3. TypeOK'
    BY <1>0, <1>6, <2>1, <2>2, LockOKTyped
    DEF PhaseRegisterOk, TypeOK, charger, user, session, record
  <2> QED
    BY <2>1, <2>3 DEF LockInv
<1>7. CASE PhaseCurrentOk
  <2>1. OnWire("phase")
    BY <1>7 DEF PhaseCurrentOk, OnWire
  <2>2. Coroutines'
    BY <1>0, <1>7, <2>1, AfterPendingLeaves DEF PhaseCurrentOk
  <2>3. TypeOK'
    BY <1>0, <1>7, <2>2, LockOKTyped, RecordType
    DEF PhaseCurrentOk, TypeOK, Coroutines, charger, user, session
  <2> QED
    BY <2>2, <2>3 DEF LockInv, Coroutines
<1>8. CASE PhaseWriteFails
  <2>1. unconfirmed' \in BOOLEAN
    BY <1>8, UnrecordedType DEF PhaseWriteFails
  <2>2. Coroutines'
    <3>1. CASE task.stage = "try"
      BY <1>0, <1>8, <3>1, AfterPendingLeaves DEF PhaseWriteFails
    <3>2. CASE task.stage # "try"
      <4>1. LockOK(lock', pc')
        BY <1>0, <1>8, <3>2, WireHolds, Leave DEF PhaseWriteFails, ReleaseLock, PCs, LockPCs
      <4>2. job' \in [Actors -> QueuedWrite \cup {NoItem}]
        BY <1>0, <1>8 DEF PhaseWriteFails, Coroutines
      <4>3. task' = NoTask /\ running' = running
        BY <1>8, <3>2 DEF PhaseWriteFails
      <4> QED
        BY <1>0, <4>1, <4>2, <4>3 DEF Coroutines, NoTask
    <3> QED
      BY <3>1, <3>2
  <2>3. TypeOK'
    BY <1>0, <1>8, <2>1, <2>2, LockOKTyped
    DEF PhaseWriteFails, TypeOK, Coroutines, charger, user, session
  <2> QED
    BY <2>2, <2>3 DEF LockInv, Coroutines
<1>9. CASE PhaseTaskEnds
  <2>1. LockOK(lock', pc')
    BY <1>0, <1>9, MoveOutside DEF PhaseTaskEnds, PCs, LockPCs
  <2>2. TypeOK'
    BY <1>0, <1>9, <2>1, LockOKTyped
    DEF PhaseTaskEnds, TypeOK, NoTask, charger, user, session, record
  <2> QED
    BY <2>1, <2>2 DEF LockInv
<1> QED
  BY <1>1, <1>2, <1>3, <1>4, <1>5, <1>6, <1>7, <1>8, <1>9 DEF PhaseStep, PhaseTaskStep

LEMMA StepLockInv == LockInv /\ [Next]_vars => LockInv'
<1> SUFFICES ASSUME LockInv, [Next]_vars PROVE LockInv'
  OBVIOUS
<1>1. CASE UNCHANGED vars
  BY <1>1 DEF LockInv, TypeOK, vars, charger, user, session, record
<1>2. CASE Next
  BY <1>2, PollStepLockInv, KeepaliveLockInv, PhaseStepLockInv, CallerStepLockInv,
     WriteStepLockInv, UserStepLockInv DEF Next
<1> QED
  BY <1>1, <1>2

THEOREM LockInvariant == Spec => []LockInv
  BY InitLockInv, StepLockInv, PTL DEF Spec

(* Every variable keeps its type.                                          *)
THEOREM TypeCorrect == Spec => []TypeOK
  BY LockInvariant, PTL DEF LockInv

(* flush_lock serialises the Modbus writes of any number of callers.       *)
THEOREM LockSafety == Spec => []LockDiscipline
<1>1. LockInv => LockDiscipline
  BY DEF LockInv, LockOK, LockDiscipline, LockPCs, OnWire
<1> QED
  BY <1>1, LockInvariant, PTL

-----------------------------------------------------------------------------
(* One owner for every write.  What waits or is being written may be       *)
(* written; the writes still to be made, by a caller that is saving the    *)
(* flag or for a deferred request, exist only under an external controller.*)

Sendable(item)   == item = NoItem \/ MayBeSent(item)
SendableQueue(q) == \A k \in Keys : Sendable(q[k])

OwnerOK ==
  /\ SendableQueue(queue)
  /\ \A a \in Actors : Sendable(job[a])
  /\ \A c \in Callers : pc[c] \in {"saving_on", "saving_off"} => ControlMode = "external"
  /\ pendingA # NoAmps => ControlMode = "external"

OwnerInv == LockInv /\ OwnerOK

LEMMA WritesOwned ==
  /\ Sendable(KeepaliveWrite)
  /\ ControlMode = "managed" => Sendable(ControlPause) /\ \A v : Sendable(CurrentWrite(v))
  /\ ControlMode = "external" => \A v : Sendable(ExternalWrite(v))
  /\ PhaseWritesAllowed => Sendable(PhaseWrite)
  /\ SendableQueue(EmptyQueue)
BY DEF Sendable, SendableQueue, MayBeSent, KeepaliveWrite, ControlPause, CurrentWrite,
       ExternalWrite, PhaseWrite, PhaseWritesAllowed, EmptyQueue, Registers, Keys

LEMMA EnqueueOwned ==
  ASSUME NEW q \in Queues, NEW item \in QueuedWrite, item.key \in Keys,
         SendableQueue(q), Sendable(item)
  PROVE  SendableQueue(Enqueue(q, item))
BY DEF SendableQueue, Enqueue, Queues

LEMMA WithKeepaliveOwned ==
  ASSUME NEW q \in Queues, SendableQueue(q)
  PROVE  SendableQueue(WithKeepalive(q))
<1>1. KeepaliveWrite \in QueuedWrite /\ KeepaliveWrite.key \in Keys
  BY DEF KeepaliveWrite, QueuedWrite, Registers, Keys, Priorities, Reasons, KEEPALIVE
<1> QED
  BY <1>1, EnqueueOwned, WritesOwned DEF WithKeepalive

LEMMA EnqueueDecisionOwned ==
  ASSUME NEW q \in Queues, SendableQueue(q), NEW eff, NEW busy, NEW conn \in BOOLEAN,
         NEW d \in Decisions(eff, conn)
  PROVE  SendableQueue(EnqueueDecision(q, d, eff, AutomaticWritesAllowed(busy), conn))
<1> DEFINE fresh   == WithKeepalive(EmptyQueue)
           cleared == IF d.why = "off" THEN fresh ELSE q
<1>1. fresh \in Queues /\ SendableQueue(fresh)
  BY WithKeepaliveType, WithKeepaliveOwned, WritesTyped, WritesOwned
<1>2. cleared \in Queues /\ SendableQueue(cleared)
  BY <1>1
<1>3. WithKeepalive(cleared) \in Queues /\ SendableQueue(WithKeepalive(cleared))
  BY <1>2, WithKeepaliveType, WithKeepaliveOwned
<1>4. ControlMode = "managed" => SendableQueue(Enqueue(fresh, ControlPause))
  BY <1>1, EnqueueOwned, WritesTyped, WritesOwned
<1>5. d.write => d.value \in Nat
  BY ConstantsAssumption DEF Decisions
<1>6. ControlMode = "managed" /\ d.write =>
        SendableQueue(Enqueue(cleared, CurrentWrite(d.value)))
  BY <1>2, <1>5, EnqueueOwned, WritesTyped, WritesOwned
<1> HIDE DEF fresh
<1>7. EnqueueDecision(q, d, eff, AutomaticWritesAllowed(busy), conn)
        = IF ~AutomaticWritesAllowed(busy) THEN cleared
          ELSE IF ~conn THEN WithKeepalive(cleared)
          ELSE IF MustPause(d, eff) THEN Enqueue(fresh, ControlPause)
          ELSE IF d.write THEN Enqueue(cleared, CurrentWrite(d.value))
          ELSE cleared
  BY DEF EnqueueDecision, fresh
<1> HIDE DEF cleared
<1>8. AutomaticWritesAllowed(busy) => ControlMode = "managed"
  BY DEF AutomaticWritesAllowed
<1> QED
  BY <1>2, <1>3, <1>4, <1>6, <1>7, <1>8

LEMMA RequestCurrentOwned ==
  ASSUME OwnerInv, NEW c \in Callers, NEW v \in Nat, ControlMode = "external",
         RequestCurrent(c, v), UNCHANGED queue
  PROVE  OwnerOK'
<1>1. \A a \in Actors : Sendable(job'[a])
  BY ActorsKnown, WritesOwned
  DEF RequestCurrent, OwnerInv, OwnerOK, LockInv, TypeOK
<1> QED
  BY <1>1 DEF OwnerInv, OwnerOK, SendableQueue, Sendable, MayBeSent

LEMMA InitOwner == Init => OwnerInv
<1> SUFFICES ASSUME Init PROVE OwnerOK
  BY InitLockInv DEF OwnerInv
<1> QED
  BY WritesOwned, ActorsKnown DEF Init, OwnerOK, Sendable, SendableQueue

LEMMA PollStepOwner ==
  ASSUME OwnerInv, PollStep
  PROVE  OwnerOK'
<1> USE ActorsKnown
<1>0. OwnerOK /\ TypeOK
  BY DEF OwnerInv, LockInv
<1>p. pc \in [Actors -> PCs] /\ "poll" \notin Callers /\ "phase" \notin Callers
  BY <1>0, ConstantsAssumption DEF TypeOK
<1>1. CASE PollRead \/ PollReadFails \/ PollPublish
  BY <1>0, <1>1, <1>p
  DEF PollRead, PollReadFails, PollPublish, OwnerOK, SendableQueue, Sendable, MayBeSent
<1>2. CASE PollDecide
  <2>1. PICK d, act, busy :
          /\ d \in Decisions(Effective(mode'), seen)
          /\ act # "none" => act \in Schedulable(Effective(mode'))
          /\ queue' = EnqueueDecision(queue, d, Effective(mode'),
                                      AutomaticWritesAllowed(busy), seen)
          /\ \/ UNCHANGED job
             \/ act = "automatic" /\ job' = [job EXCEPT !["phase"] = PhaseWrite]
    BY <1>2 DEF PollDecide
  <2>2. SendableQueue(queue')
    BY <1>0, <2>1, EnqueueDecisionOwned DEF OwnerOK, TypeOK
  <2>3. act = "automatic" => PhaseWritesAllowed
    BY <2>1, ConstantsAssumption DEF Schedulable, PhaseWritesAllowed
  <2>4. \A a \in Actors : Sendable(job'[a])
    BY <1>0, <2>1, <2>3, WritesOwned DEF OwnerOK, TypeOK
  <2>5. \A c \in Callers : pc'[c] = pc[c]
    BY <1>2, <1>p DEF PollDecide
  <2> QED
    BY <1>0, <1>2, <2>2, <2>4, <2>5
    DEF PollDecide, OwnerOK, SendableQueue, Sendable, MayBeSent
<1>3. CASE PollCancelled
  <2>1. \A a \in Actors : Sendable(job'[a])
    BY <1>0, <1>3 DEF PollCancelled, OwnerOK, TypeOK, Sendable
  <2> QED
    BY <1>0, <1>3, <1>p, <2>1
    DEF PollCancelled, OwnerOK, SendableQueue, Sendable, MayBeSent
<1> QED
  BY <1>1, <1>2, <1>3 DEF PollStep

LEMMA KeepaliveOwner ==
  ASSUME OwnerInv, KeepaliveDue \/ KeepaliveIteration
  PROVE  OwnerOK'
<1>0. OwnerOK /\ TypeOK
  BY DEF OwnerInv, LockInv
<1>1. CASE KeepaliveDue
  BY <1>0, <1>1 DEF KeepaliveDue, OwnerOK, SendableQueue, Sendable, MayBeSent
<1>2. CASE KeepaliveIteration
  <2>1. SendableQueue(queue')
    BY <1>0, <1>2, WithKeepaliveOwned DEF KeepaliveIteration, OwnerOK, TypeOK
  <2>2. \A c \in Callers : pc'[c] = pc[c]
    BY <1>0, <1>2, ConstantsAssumption, ActorsKnown DEF KeepaliveIteration, Enter, TypeOK
  <2> QED
    BY <1>0, <1>2, <2>1, <2>2 DEF KeepaliveIteration, OwnerOK, SendableQueue, Sendable, MayBeSent
<1> QED
  BY <1>1, <1>2

(* A write step takes a waiting write, forgets writes or keeps them; no    *)
(* caller starts to save the flag in it.                                   *)
LEMMA WriteStepOwner ==
  ASSUME OwnerInv, NEW a \in Actors, WriteStep(a)
  PROVE  OwnerOK'
<1>0. OwnerOK /\ TypeOK
  BY DEF OwnerInv, LockInv
<1>1. SendableQueue(queue')
  <2>1. CASE FlushNext(a)
    <3>1. CASE Pending(queue) = {}
      BY <1>0, <2>1, <3>1 DEF FlushNext, OwnerOK
    <3>2. CASE Pending(queue) # {}
      <4>1. queue' = Without(queue, MostUrgent(queue))
        BY <2>1, <3>2 DEF FlushNext
      <4> QED
        BY <1>0, <4>1 DEF Without, OwnerOK, SendableQueue, Sendable, TypeOK, Queues
    <3> QED
      BY <3>1, <3>2
  <2>2. CASE DirectStart(a)
    BY <2>2, WritesOwned DEF DirectStart
  <2>3. CASE Land(a) \/ FlushWriteOk(a) \/ CallerWriteOk(a) \/ WriteFails(a)
    BY <1>0, <2>3 DEF Land, FlushWriteOk, CallerWriteOk, WriteFails, OwnerOK
  <2> QED
    BY <2>1, <2>2, <2>3 DEF WriteStep
<1>2. \A b \in Actors : Sendable(job'[b])
  <2>1. CASE FlushNext(a) /\ Pending(queue) # {}
    <3>1. MostUrgent(queue) \in Keys
      BY <1>0, <2>1, MostUrgentPending, PendingType DEF TypeOK
    <3>2. job' = [job EXCEPT ![a] = queue[MostUrgent(queue)]]
      BY <2>1 DEF FlushNext
    <3> QED
      BY <1>0, <3>1, <3>2 DEF OwnerOK, SendableQueue, TypeOK
  <2>2. CASE job' = job \/ job' = [job EXCEPT ![a] = NoItem]
    BY <1>0, <2>2 DEF OwnerOK, Sendable, TypeOK
  <2> QED
    BY <2>1, <2>2
    DEF WriteStep, FlushNext, DirectStart, Land, FlushWriteOk, CallerWriteOk, WriteFails
<1>3. \A c \in Callers : pc'[c] \in {"saving_on", "saving_off"} => pc'[c] = pc[c]
  <2>1. \E w \in {"publish", "idle", "writing", "landed", "flush"} : pc' = [pc EXCEPT ![a] = w]
    BY DEF WriteStep, FlushNext, DirectStart, Land, FlushWriteOk, CallerWriteOk, WriteFails
  <2> QED
    BY <1>0, <2>1, ActorsKnown DEF TypeOK
<1>4. pendingA' = pendingA
  BY DEF WriteStep, FlushNext, DirectStart, Land, FlushWriteOk, CallerWriteOk, WriteFails
<1> QED
  BY <1>0, <1>1, <1>2, <1>3, <1>4 DEF OwnerOK, SendableQueue, Sendable, MayBeSent

LEMMA CallerStepOwner ==
  ASSUME OwnerInv, NEW c \in Callers, CallerStep(c)
  PROVE  OwnerOK'
<1>0. OwnerOK /\ TypeOK
  BY DEF OwnerInv, LockInv
<1>1. CASE SetExternalCurrent(c)
  <2>1. PICK v \in Requests : RequestCurrent(c, v)
    BY <1>1 DEF SetExternalCurrent
  <2> QED
    BY <1>1, <2>1, RequestCurrentOwned, ConstantsAssumption DEF SetExternalCurrent
<1>2. CASE SetChargingEnabled(c)
  BY <1>0, <1>2 DEF SetChargingEnabled, OwnerOK, SendableQueue, Sendable, MayBeSent
<1>3. CASE ChargingEnabledSaved(c)
  <2> DEFINE v == IF pc[c] = "saving_off" THEN 0
                  ELSE IF externalA > 0 THEN externalA ELSE MinCurrent
  <2>1. v \in Nat /\ ControlMode = "external"
    BY <1>0, <1>3, ConstantsAssumption DEF TypeOK, OwnerOK, ChargingEnabledSaved
  <2>2. RequestCurrent(c, v) /\ UNCHANGED <<task, queue>>
    BY <1>3 DEF ChargingEnabledSaved
  <2> HIDE DEF v
  <2> QED
    BY <2>1, <2>2, RequestCurrentOwned
<1> QED
  BY <1>1, <1>2, <1>3 DEF CallerStep

LEMMA PhaseStepOwner ==
  ASSUME OwnerInv, PhaseStep
  PROVE  OwnerOK'
<1> USE ActorsKnown
<1>0. OwnerOK /\ TypeOK
  BY DEF OwnerInv, LockInv
<1>1. \A b \in Actors : Sendable(job'[b])
  <2>1. CASE SwitchStart \/ RestoreDecide
    <3>1. PICK ok \in BOOLEAN : RequestRegister(ok) /\ (ok => PhaseWritesAllowed)
      BY <2>1 DEF SwitchStart, RestoreDecide
    <3> QED
      BY <1>0, <3>1, WritesOwned DEF RequestRegister, OwnerOK, TypeOK
  <2>2. CASE FlushPending
    <3>1. pendingA # NoAmps => Sendable(ExternalWrite(pendingA))
      BY <1>0, WritesOwned DEF OwnerOK
    <3> QED
      BY <1>0, <2>2, <3>1 DEF FlushPending, OwnerOK, TypeOK
  <2>3. CASE job' = job \/ job' = [job EXCEPT !["phase"] = NoItem]
    BY <1>0, <2>3 DEF OwnerOK, Sendable, TypeOK
  <2> QED
    BY <2>1, <2>2, <2>3
    DEF PhaseStep, PhaseTaskStep, RequestPhase, RestoreRead, PhaseRegisterOk,
        PhaseCurrentOk, PhaseWriteFails, PhaseTaskEnds
<1>2. queue' = queue
  BY DEF PhaseStep, PhaseTaskStep, RequestPhase, SwitchStart, RestoreRead, RestoreDecide,
         FlushPending, PhaseRegisterOk, PhaseCurrentOk, PhaseWriteFails, PhaseTaskEnds
<1>3. \A c \in Callers : pc'[c] = pc[c]
  <2>1. \E w : pc' = [pc EXCEPT !["phase"] = w]
    BY DEF PhaseStep, PhaseTaskStep, RequestPhase, SwitchStart, RestoreRead,
           RestoreDecide, RequestRegister, Enter, FlushPending, AfterPending,
           PhaseRegisterOk, PhaseCurrentOk, PhaseWriteFails, PhaseTaskEnds
  <2> QED
    BY <1>0, <2>1 DEF TypeOK
<1>4. pendingA' = pendingA \/ pendingA' = NoAmps
  BY DEF PhaseStep, PhaseTaskStep, RequestPhase, SwitchStart, RestoreRead, RestoreDecide,
         FlushPending, PhaseRegisterOk, PhaseCurrentOk, PhaseWriteFails, PhaseTaskEnds
<1> QED
  BY <1>0, <1>1, <1>2, <1>3, <1>4 DEF OwnerOK, SendableQueue, Sendable, MayBeSent

LEMMA StepOwner == OwnerInv /\ [Next]_vars => OwnerInv'
<1> SUFFICES ASSUME OwnerInv, [Next]_vars PROVE OwnerOK'
  BY StepLockInv DEF OwnerInv
<1>1. CASE UNCHANGED vars
  BY <1>1 DEF OwnerInv, OwnerOK, SendableQueue, Sendable, MayBeSent, vars
<1>2. CASE UserStep
  BY <1>2 DEF OwnerInv, OwnerOK, SendableQueue, Sendable, MayBeSent,
              UserStep, PlugOrUnplug, SetMode, PauseOrResume
<1>3. CASE Next
  BY <1>2, <1>3, PollStepOwner, KeepaliveOwner, PhaseStepOwner, CallerStepOwner,
     WriteStepOwner DEF Next
<1> QED
  BY <1>1, <1>3

(* One owner for every write, in every control mode: in particular no      *)
(* target and no register 405 is ever queued or sent in monitoring mode.   *)
THEOREM OwnerSafety == Spec => []OwnerOnly
<1>1. OwnerInv => OwnerOnly
  BY DEF OwnerInv, OwnerOK, SendableQueue, Sendable, OwnerOnly
<1> QED
  BY <1>1, InitOwner, StepOwner, PTL DEF Spec

-----------------------------------------------------------------------------
(* Around a write of register 405 no target waits in the queue: the write  *)
(* starts by clearing it, and until the phase task is done polls may only  *)
(* enqueue keepalives.                                                     *)

NoTargetInv == LockInv /\ pc["phase"] # "flush" /\ PhaseWriteLeavesNoTarget

LEMMA KeepaliveLeavesNoTarget ==
  ASSUME NEW q \in Queues
  PROVE  WithKeepalive(q)["current_limit"] = q["current_limit"]
BY DEF WithKeepalive, Enqueue, KeepaliveWrite, Queues, Keys

LEMMA DeniedLeavesNoTarget ==
  ASSUME NEW q \in Queues, q["current_limit"] = NoItem, NEW d, NEW eff, NEW conn
  PROVE  EnqueueDecision(q, d, eff, FALSE, conn)["current_limit"] = NoItem
<1>1. EmptyQueue["current_limit"] = NoItem
  BY DEF EmptyQueue, Keys
<1> QED
  BY <1>1, WritesTyped, KeepaliveLeavesNoTarget DEF EnqueueDecision

(* The phase task comes to the wire only by a direct write.                *)
LEMMA PhaseReachesWire ==
  ASSUME NoTargetInv, Next, OnWire("phase")'
  PROVE  OnWire("phase") \/ DirectStart("phase")
<1> USE ActorsKnown
<1>0. pc \in [Actors -> PCs] /\ pc["phase"] # "flush"
  BY DEF NoTargetInv, LockInv, TypeOK
<1>1. ASSUME NEW a \in Actors, WriteStep(a)
      PROVE  OnWire("phase") \/ DirectStart("phase")
  <2>1. CASE a # "phase"
    <3>1. \E w : pc' = [pc EXCEPT ![a] = w]
      BY <1>1 DEF WriteStep, FlushNext, DirectStart, Land, FlushWriteOk, CallerWriteOk,
                  WriteFails
    <3> QED
      BY <1>0, <2>1, <3>1 DEF OnWire
  <2>2. CASE a = "phase"
    BY <1>0, <1>1, <2>2
    DEF WriteStep, FlushNext, DirectStart, Land, FlushWriteOk, CallerWriteOk, WriteFails,
        OnWire
  <2> QED
    BY <2>1, <2>2
<1>2. CASE PollStep
  BY <1>0, <1>2
  DEF PollStep, PollRead, PollReadFails, PollDecide, PollPublish, PollCancelled, OnWire
<1>3. CASE KeepaliveDue \/ KeepaliveIteration \/ UserStep
  BY <1>0, <1>3 DEF KeepaliveDue, KeepaliveIteration, Enter, UserStep, PlugOrUnplug,
                    SetMode, PauseOrResume, OnWire
<1>4. CASE PhaseStep
  BY <1>0, <1>4
  DEF PhaseStep, PhaseTaskStep, RequestPhase, SwitchStart, RestoreRead, RestoreDecide,
      RequestRegister, Enter, FlushPending, AfterPending, PhaseRegisterOk,
      PhaseCurrentOk, PhaseWriteFails, PhaseTaskEnds, OnWire
<1>5. ASSUME NEW c \in Callers, CallerStep(c)
      PROVE  OnWire("phase")
  <2>1. \E w : pc' = [pc EXCEPT ![c] = w]
    BY <1>5 DEF CallerStep, SetExternalCurrent, SetChargingEnabled, ChargingEnabledSaved,
                RequestCurrent, Enter
  <2> QED
    BY <1>0, <2>1 DEF OnWire
<1> QED
  BY <1>1, <1>2, <1>3, <1>4, <1>5 DEF Next

(* It never flushes the queue.                                             *)
LEMMA PhaseNeverFlushes ==
  ASSUME NoTargetInv, Next
  PROVE  pc'["phase"] # "flush"
<1> USE ActorsKnown
<1>0. pc \in [Actors -> PCs] /\ pc["phase"] # "flush" /\ "phase" \notin Flushers
  BY DEF NoTargetInv, LockInv, TypeOK, Flushers
<1>1. ASSUME NEW a \in Actors, WriteStep(a)
      PROVE  pc'["phase"] # "flush"
  <2>1. (\E w : pc' = [pc EXCEPT ![a] = w])
        /\ (a \notin Flushers => \E w \in PCs \ {"flush"} : pc' = [pc EXCEPT ![a] = w])
    BY <1>1 DEF WriteStep, FlushNext, DirectStart, Land, FlushWriteOk, CallerWriteOk,
                WriteFails, PCs
  <2> QED
    BY <1>0, <2>1
<1>2. CASE PollStep
  BY <1>0, <1>2
  DEF PollStep, PollRead, PollReadFails, PollDecide, PollPublish, PollCancelled
<1>3. CASE KeepaliveDue \/ KeepaliveIteration \/ UserStep
  BY <1>0, <1>3 DEF KeepaliveDue, KeepaliveIteration, Enter, UserStep, PlugOrUnplug,
                    SetMode, PauseOrResume
<1>4. CASE PhaseStep
  BY <1>0, <1>4
  DEF PhaseStep, PhaseTaskStep, RequestPhase, SwitchStart, RestoreRead, RestoreDecide,
      RequestRegister, Enter, FlushPending, AfterPending, PhaseRegisterOk,
      PhaseCurrentOk, PhaseWriteFails, PhaseTaskEnds
<1>5. ASSUME NEW c \in Callers, CallerStep(c)
      PROVE  pc'["phase"] # "flush"
  <2>1. \E w : pc' = [pc EXCEPT ![c] = w]
    BY <1>5 DEF CallerStep, SetExternalCurrent, SetChargingEnabled, ChargingEnabledSaved,
                RequestCurrent, Enter
  <2> QED
    BY <1>0, <2>1
<1> QED
  BY <1>1, <1>2, <1>3, <1>4, <1>5 DEF Next

LEMMA StepNoTarget ==
  ASSUME NoTargetInv, Next, OnWire("phase")'
  PROVE  queue'["current_limit"] = NoItem
<1>0. TypeOK /\ (OnWire("phase") \/ DirectStart("phase"))
  BY PhaseReachesWire DEF NoTargetInv, LockInv
<1>1. CASE DirectStart("phase")
  BY <1>1 DEF DirectStart, EmptyQueue, Keys
<1>2. CASE OnWire("phase")
  <2>1. queue["current_limit"] = NoItem /\ queue \in Queues
    BY <1>0, <1>2 DEF NoTargetInv, PhaseWriteLeavesNoTarget, TypeOK
  <2>2. CASE queue' = queue
    BY <2>1, <2>2
  <2>3. CASE PollDecide
    <3>1. PICK d, act :
            queue' = EnqueueDecision(queue, d, Effective(mode'),
                       AutomaticWritesAllowed(PhaseInProgress \/ act # "none"), seen)
      BY <2>3 DEF PollDecide
    <3>2. AutomaticWritesAllowed(PhaseInProgress \/ act # "none") = FALSE
      BY <1>2 DEF OnWire, PhaseInProgress, AutomaticWritesAllowed
    <3> QED
      BY <2>1, <3>1, <3>2, DeniedLeavesNoTarget
  <2>4. CASE KeepaliveIteration
    BY <2>1, <2>4, KeepaliveLeavesNoTarget DEF KeepaliveIteration
  <2>5. ASSUME NEW a \in Actors, WriteStep(a)
        PROVE  queue'["current_limit"] = NoItem
    <3>1. queue' = queue \/ queue' = Without(queue, MostUrgent(queue)) \/ queue' = EmptyQueue
      BY <2>5 DEF WriteStep, FlushNext, DirectStart, Land, FlushWriteOk, CallerWriteOk,
                  WriteFails
    <3> QED
      BY <2>1, <3>1 DEF Without, Queues, EmptyQueue, Keys
  <2>6. CASE PollRead \/ PollReadFails \/ PollPublish \/ PollCancelled
    BY <2>1, <2>6 DEF PollRead, PollReadFails, PollPublish, PollCancelled
  <2>7. CASE KeepaliveDue \/ UserStep
    BY <2>1, <2>7 DEF KeepaliveDue, UserStep, PlugOrUnplug, SetMode, PauseOrResume
  <2>8. CASE PhaseStep
    BY <2>1, <2>8
    DEF PhaseStep, PhaseTaskStep, RequestPhase, SwitchStart, RestoreRead, RestoreDecide,
        FlushPending, PhaseRegisterOk, PhaseCurrentOk, PhaseWriteFails, PhaseTaskEnds
  <2>9. ASSUME NEW c \in Callers, CallerStep(c)
        PROVE  queue' = queue
    BY <2>9 DEF CallerStep, SetExternalCurrent, SetChargingEnabled, ChargingEnabledSaved
  <2> QED
    BY <2>2, <2>3, <2>4, <2>5, <2>6, <2>7, <2>8, <2>9 DEF Next, PollStep
<1> QED
  BY <1>0, <1>1, <1>2

(* While the phase task writes, no current of the previous phase waits.    *)
THEOREM PhaseWriteSafety == Spec => []PhaseWriteLeavesNoTarget
<1>1. Init => NoTargetInv
  BY InitLockInv, ActorsKnown DEF Init, NoTargetInv, PhaseWriteLeavesNoTarget, OnWire
<1>2. NoTargetInv /\ [Next]_vars => NoTargetInv'
  <2>1. NoTargetInv /\ Next => NoTargetInv'
    BY StepLockInv, PhaseNeverFlushes, StepNoTarget DEF NoTargetInv, PhaseWriteLeavesNoTarget
  <2>2. NoTargetInv /\ UNCHANGED vars => NoTargetInv'
    BY StepLockInv DEF NoTargetInv, PhaseWriteLeavesNoTarget, OnWire, vars
  <2> QED
    BY <2>1, <2>2
<1>3. NoTargetInv => PhaseWriteLeavesNoTarget
  BY DEF NoTargetInv
<1> QED
  BY <1>1, <1>2, <1>3, PTL DEF Spec

-----------------------------------------------------------------------------
(* The record and the register.  A current that has landed is in the       *)
(* register until its writer records it: nobody else lands a write before. *)

HasLanded(a) == pc[a] = "landed" /\ job[a].key = "current_limit"

RecordOK ==
  /\ \A a \in Actors : HasLanded(a) => limit = job[a].value
  /\ \/ unconfirmed
     \/ lastWrite.value = NoAmps
     \/ \E a \in Actors : HasLanded(a)
     \/ limit = lastWrite.value

RecordInv == LockInv /\ RecordOK

(* What the others have landed stays.                                      *)
Others(S) ==
  \A b \in Actors \ S : /\ pc'[b] = "landed" <=> pc[b] = "landed"
                        /\ pc[b] = "landed" => job'[b] = job[b]

(* A step that lands nothing and ends no write.                            *)
LEMMA Undisturbed ==
  ASSUME RecordOK, Others({}), UNCHANGED <<limit, record>>
  PROVE  RecordOK'
BY DEF RecordOK, HasLanded, Others, record

(* A write ends: it is recorded, or given up, or was not of a current.     *)
LEMMA Ended ==
  ASSUME RecordOK, NEW a \in Actors, Others({a}), pc'[a] # "landed", limit' = limit,
         \/ Record(job[a]) /\ pc[a] = "landed"
         \/ lastWrite' = lastWrite /\ Unrecorded(a)
  PROVE  RecordOK'
<1>1. \A b \in Actors : HasLanded(b)' <=> b # a /\ HasLanded(b)
  BY DEF HasLanded, Others
<1>2. \A b \in Actors : HasLanded(b)' => limit' = job'[b].value
  BY <1>1 DEF RecordOK, HasLanded, Others
<1>3. CASE Record(job[a]) /\ pc[a] = "landed" /\ job[a].key = "current_limit"
  <2>1. lastWrite'.value = job[a].value /\ limit = job[a].value
    BY <1>3 DEF Record, RecordOK, HasLanded
  <2> QED
    BY <1>2, <2>1 DEF RecordOK
<1>4. CASE Record(job[a]) /\ job[a].key # "current_limit"
  BY <1>1, <1>2, <1>4 DEF RecordOK, Record, record, HasLanded
<1>5. CASE lastWrite' = lastWrite /\ Unrecorded(a)
  BY <1>1, <1>2, <1>5 DEF RecordOK, Unrecorded, HasLanded, OnWire
<1> QED
  BY <1>3, <1>4, <1>5

LEMMA LandRecord ==
  ASSUME RecordInv, NEW a \in Actors, Land(a)
  PROVE  RecordOK'
<1>1. pc \in [Actors -> PCs] /\ LockOK(lock, pc)
  BY DEF RecordInv, LockInv, TypeOK
<1>2. \A b \in Actors : pc[b] # "landed"
  BY <1>1 DEF Land, LockOK
<1>3. pc' = [pc EXCEPT ![a] = "landed"] /\ job' = job /\ UNCHANGED record
      /\ limit' = IF job[a].key = "current_limit" THEN job[a].value ELSE limit
  BY DEF Land
<1> QED
  BY <1>1, <1>2, <1>3 DEF RecordInv, RecordOK, HasLanded, record

LEMMA WriteStepRecord ==
  ASSUME RecordInv, NEW a \in Actors, WriteStep(a)
  PROVE  RecordOK'
<1>0. pc \in [Actors -> PCs] /\ job \in [Actors -> QueuedWrite \cup {NoItem}] /\ RecordOK
  BY DEF RecordInv, LockInv, TypeOK
<1>1. CASE FlushNext(a) \/ DirectStart(a)
  BY <1>0, <1>1, Undisturbed DEF FlushNext, DirectStart, Others, charger
<1>2. CASE Land(a)
  BY <1>2, LandRecord
<1>3. CASE FlushWriteOk(a) \/ CallerWriteOk(a)
  BY <1>0, <1>3, Ended DEF FlushWriteOk, CallerWriteOk, Others, charger
<1>4. CASE WriteFails(a)
  BY <1>0, <1>4, Ended DEF WriteFails, Others, charger
<1> QED
  BY <1>1, <1>2, <1>3, <1>4 DEF WriteStep

LEMMA PollStepRecord ==
  ASSUME RecordInv, PollStep
  PROVE  RecordOK'
<1> USE ActorsKnown
<1>0. pc \in [Actors -> PCs] /\ job \in [Actors -> QueuedWrite \cup {NoItem}] /\ RecordOK
  BY DEF RecordInv, LockInv, TypeOK
<1>1. CASE PollRead \/ PollReadFails \/ PollPublish
  BY <1>0, <1>1, Undisturbed DEF PollRead, PollReadFails, PollPublish, Others, charger
<1>2. CASE PollDecide
  <2>1. PICK act :
          /\ act # "none" => pc["phase"] = "idle"
          /\ \/ /\ pc' = [pc EXCEPT !["poll"] = "flush",
                            !["phase"] = IF act = "none" THEN @ ELSE "queued"]
                /\ UNCHANGED job
             \/ /\ act = "automatic"
                /\ pc' = [pc EXCEPT !["poll"] = "flush", !["phase"] = "direct"]
                /\ job' = [job EXCEPT !["phase"] = PhaseWrite]
    BY <1>2 DEF PollDecide, PhaseInProgress
  <2>2. pc["poll"] = "read" /\ UNCHANGED <<limit, record>>
    BY <1>2 DEF PollDecide, charger
  <2>3. Others({})
    BY <1>0, <2>1, <2>2 DEF Others
  <2> QED
    BY <1>0, <2>2, <2>3, Undisturbed
<1>3. CASE PollCancelled
  BY <1>0, <1>3, Ended DEF PollCancelled, Others, charger
<1> QED
  BY <1>1, <1>2, <1>3 DEF PollStep

LEMMA CallerStepRecord ==
  ASSUME RecordInv, NEW c \in Callers, CallerStep(c)
  PROVE  RecordOK'
<1>0. pc \in [Actors -> PCs] /\ job \in [Actors -> QueuedWrite \cup {NoItem}] /\ RecordOK
  BY DEF RecordInv, LockInv, TypeOK
<1>1. pc[c] # "landed" /\ UNCHANGED <<limit, record>>
  BY DEF CallerStep, SetExternalCurrent, SetChargingEnabled, ChargingEnabledSaved, charger
<1>2. /\ \E w \in {"idle", "direct", "saving_on", "saving_off"} : pc' = [pc EXCEPT ![c] = w]
      /\ job' = job \/ \E x : job' = [job EXCEPT ![c] = x]
  BY DEF CallerStep, SetExternalCurrent, SetChargingEnabled, ChargingEnabledSaved,
         RequestCurrent, Enter
<1>3. Others({})
  BY <1>0, <1>1, <1>2, ActorsKnown DEF Others
<1> QED
  BY <1>0, <1>1, <1>3, Undisturbed

LEMMA PhaseStepRecord ==
  ASSUME RecordInv, PhaseStep
  PROVE  RecordOK'
<1> USE ActorsKnown
<1>0. pc \in [Actors -> PCs] /\ job \in [Actors -> QueuedWrite \cup {NoItem}] /\ RecordOK
  BY DEF RecordInv, LockInv, TypeOK
<1>1. CASE SwitchStart \/ RestoreRead \/ RestoreDecide \/ FlushPending \/ PhaseTaskEnds
           \/ \E kind \in PhaseRequests : RequestPhase(kind)
  <2>1. pc["phase"] # "landed" /\ UNCHANGED <<limit, record>>
    BY <1>1 DEF SwitchStart, RestoreRead, RestoreDecide, FlushPending, PhaseTaskEnds,
                RequestPhase, PhaseInProgress, charger
  <2>2. /\ \E w \in PCs \ {"landed"} : pc' = [pc EXCEPT !["phase"] = w]
        /\ job' = job \/ \E x : job' = [job EXCEPT !["phase"] = x]
    BY <1>1 DEF SwitchStart, RestoreRead, RestoreDecide, RequestRegister, FlushPending,
                AfterPending, PhaseTaskEnds, RequestPhase, Enter, PCs
  <2>3. Others({})
    BY <1>0, <2>1, <2>2 DEF Others
  <2> QED
    BY <1>0, <2>1, <2>3, Undisturbed
<1>2. CASE PhaseRegisterOk \/ PhaseCurrentOk \/ PhaseWriteFails
  <2>1. /\ \E w \in {"pend", "refresh", "idle"} : pc' = [pc EXCEPT !["phase"] = w]
        /\ job' = [job EXCEPT !["phase"] = NoItem]
        /\ limit' = limit
    BY <1>2 DEF PhaseRegisterOk, PhaseCurrentOk, PhaseWriteFails, AfterPending, charger
  <2>2. Others({"phase"}) /\ pc'["phase"] # "landed"
    BY <1>0, <2>1 DEF Others
  <2>3. CASE PhaseRegisterOk
    <3>1. unconfirmed \in BOOLEAN
      BY DEF RecordInv, LockInv, TypeOK
    <3>2. Unrecorded("phase") /\ lastWrite' = lastWrite
      BY <2>3, <3>1 DEF PhaseRegisterOk, Unrecorded, record
    <3> QED
      BY <1>0, <2>1, <2>2, <3>2, Ended
  <2>4. CASE PhaseCurrentOk
    BY <1>0, <2>1, <2>2, <2>4, Ended DEF PhaseCurrentOk
  <2>5. CASE PhaseWriteFails
    BY <1>0, <2>1, <2>2, <2>5, Ended DEF PhaseWriteFails
  <2> QED
    BY <1>2, <2>3, <2>4, <2>5
<1> QED
  BY <1>1, <1>2 DEF PhaseStep, PhaseTaskStep

LEMMA StepRecord == RecordInv /\ [Next]_vars => RecordInv'
<1> SUFFICES ASSUME RecordInv, [Next]_vars PROVE RecordOK'
  BY StepLockInv DEF RecordInv
<1>0. pc \in [Actors -> PCs] /\ RecordOK
  BY DEF RecordInv, LockInv, TypeOK
<1>1. CASE UNCHANGED vars
  BY <1>0, <1>1, Undisturbed DEF vars, Others, charger
<1>2. CASE UserStep \/ KeepaliveDue
  BY <1>0, <1>2, Undisturbed
  DEF UserStep, PlugOrUnplug, SetMode, PauseOrResume, KeepaliveDue, Others, charger
<1>3. CASE KeepaliveIteration
  BY <1>0, <1>3, ActorsKnown, Undisturbed DEF KeepaliveIteration, Enter, Others, charger
<1>4. CASE Next
  BY <1>2, <1>3, <1>4, PollStepRecord, PhaseStepRecord, CallerStepRecord, WriteStepRecord
  DEF Next
<1> QED
  BY <1>1, <1>4

(* Unless a write failed since, the recorded current is the charger's.     *)
THEOREM RecordSafety == Spec => []RegisterMatchesRecord
<1>1. Init => RecordInv
  <2> SUFFICES ASSUME Init PROVE RecordOK
    BY InitLockInv DEF RecordInv
  <2> QED
    BY DEF Init, RecordOK, HasLanded
<1>2. RecordInv => RegisterMatchesRecord
  BY DEF RecordInv, RecordOK, HasLanded, RegisterMatchesRecord
<1> QED
  BY <1>1, <1>2, StepRecord, PTL DEF Spec

-----------------------------------------------------------------------------
(* What a poll decided is what was last recorded.  Only the managed mode   *)
(* decides on currents; in it no caller writes, only polls enqueue         *)
(* currents, and one waits for at most one poll.                           *)

PollPCs      == {"idle", "read", "flush", "writing", "landed", "publish"}
KeepalivePCs == {"idle", "flush", "writing", "landed"}

(* Who does what in the managed mode.                                      *)
Roles ==
  /\ pendingA = NoAmps
  /\ \A c \in Callers : pc[c] = "idle"
  /\ pc["phase"] # "flush" /\ job["phase"] \in {NoItem, PhaseWrite}
  /\ pc["poll"] \in PollPCs /\ pc["keepalive"] \in KeepalivePCs

CurrentWrites == {item \in QueuedWrite : item.key = "current_limit" /\ item.priority = CURRENT}

Waiting(q) ==
  /\ q["keepalive"] \in {NoItem, KeepaliveWrite}
  /\ q["current_limit"] \in {NoItem, ControlPause} \cup CurrentWrites

(* Unless polls are cancelled, a pause in the queue is that of a poll that *)
(* is still to flush it.                                                   *)
PauseIsFlushed ==
  SensorsTracked \/ pc["poll"] = "flush" \/ queue["current_limit"] # ControlPause

PollFirst(l) == \A i, j \in DOMAIN l : l[i] = "poll" /\ l[j] = "phase" => i < j

CurrentOnWire(a) == OnWire(a) /\ job[a].key = "current_limit"

(* The decided current waits, or is on the wire, or has been recorded.  An *)
(* older current may still be on the wire while it waits.  The phase task, *)
(* which empties the queue, is behind the poll in the lock.                *)
UnderWay ==
  /\ queue["current_limit"] # NoItem =>
       pc["poll"] # "publish" /\ Answers(queue["current_limit"].value)
  /\ pc["poll"] = "publish" => \A a \in Actors : ~CurrentOnWire(a)
  /\ queue["current_limit"] = NoItem =>
       /\ \A a \in Actors : CurrentOnWire(a) => Answers(job[a].value)
       /\ \/ unconfirmed
          \/ Answers(lastWrite.value)
          \/ \E a \in Actors : CurrentOnWire(a)

Landing ==
  verdict # NoAmps =>
    pc["poll"] \in LockPCs \cup {"publish"} /\ PollFirst(lock) /\ UnderWay

LandInv ==
  /\ LockInv
  /\ IF ControlMode = "managed"
     THEN Roles /\ Waiting(queue) /\ PauseIsFlushed /\ Landing
     ELSE verdict = NoAmps

(* The invariant in the managed mode, the one that matters.                *)
ManagedInv ==
  /\ ControlMode = "managed"
  /\ LockInv /\ Roles /\ Waiting(queue) /\ PauseIsFlushed /\ Landing

(* Whoever writes is one of the three coroutines, at its own place.        *)
LEMMA Writers ==
  ASSUME ManagedInv, NEW a \in Actors, WriteStep(a)
  PROVE  /\ a \in {"poll", "keepalive", "phase"}
         /\ pc[a] \in LockPCs
         /\ a = "phase" => pc["phase"] # "flush"
         /\ a \in Flushers => pc[a] # "direct"
<1>1. pc[a] \in LockPCs
  BY DEF WriteStep, FlushNext, DirectStart, Land, FlushWriteOk, CallerWriteOk,
         WriteFails, OnWire, LockPCs
<1>2. a \notin Callers
  BY <1>1 DEF ManagedInv, Roles, LockPCs
<1> QED
  BY <1>1, <1>2 DEF ManagedInv, Roles, PollPCs, KeepalivePCs, Actors, Flushers

LEMMA NoCallerSteps ==
  ASSUME ManagedInv, NEW c \in Callers, CallerStep(c)
  PROVE  FALSE
BY DEF ManagedInv, Roles, CallerStep, SetExternalCurrent, SetChargingEnabled,
       ChargingEnabledSaved

LEMMA RolesLater ==
  ASSUME ManagedInv, Next
  PROVE  Roles'
<1> USE ActorsKnown
<1>0. /\ pc \in [Actors -> PCs] /\ job \in [Actors -> QueuedWrite \cup {NoItem}]
      /\ Roles /\ ControlMode = "managed" /\ "poll" \notin Callers
      /\ "keepalive" \notin Callers
  BY ConstantsAssumption DEF ManagedInv, LockInv, TypeOK
<1>1. CASE PollStep
  <2>1. CASE PollRead \/ PollReadFails \/ PollPublish
    BY <1>0, <2>1 DEF PollRead, PollReadFails, PollPublish, Roles, PollPCs
  <2>2. CASE PollCancelled
    BY <1>0, <2>2 DEF PollCancelled, Roles, PollPCs
  <2>3. CASE PollDecide
    <3>1. pendingA' = pendingA
      BY <2>3 DEF PollDecide
    <3>2. \E w \in {pc["phase"], "queued", "direct"} :
            pc' = [pc EXCEPT !["poll"] = "flush", !["phase"] = w]
      <4>1. [pc EXCEPT !["poll"] = "flush", !["phase"] = @]
              = [pc EXCEPT !["poll"] = "flush", !["phase"] = pc["phase"]]
        BY <1>0
      <4> QED
        BY <1>0, <2>3, <4>1 DEF PollDecide
    <3>3. job' = job \/ job' = [job EXCEPT !["phase"] = PhaseWrite]
      BY <2>3 DEF PollDecide
    <3> QED
      BY <1>0, <3>1, <3>2, <3>3 DEF Roles, PollPCs
  <2> QED
    BY <1>1, <2>1, <2>2, <2>3 DEF PollStep
<1>2. CASE KeepaliveDue \/ KeepaliveIteration \/ UserStep
  BY <1>0, <1>2 DEF KeepaliveDue, KeepaliveIteration, Enter, UserStep, PlugOrUnplug,
                    SetMode, PauseOrResume, Roles, KeepalivePCs
<1>3. CASE PhaseStep
  <2>1. /\ \E w \in PCs \ {"flush"} : pc' = [pc EXCEPT !["phase"] = w]
        /\ pendingA' = NoAmps
        /\ job' \in {job, [job EXCEPT !["phase"] = NoItem], [job EXCEPT !["phase"] = PhaseWrite]}
    BY <1>0, <1>3
    DEF PhaseStep, PhaseTaskStep, RequestPhase, SwitchStart, RestoreRead, RestoreDecide,
        RequestRegister, Enter, FlushPending, AfterPending, PhaseRegisterOk,
        PhaseCurrentOk, PhaseWriteFails, PhaseTaskEnds, Roles, PCs
  <2> QED
    BY <1>0, <2>1 DEF Roles
<1>4. ASSUME NEW a \in Actors, WriteStep(a)
      PROVE  Roles'
  <2>1. a \in {"poll", "keepalive", "phase"} /\ (a = "phase" => pc["phase"] # "flush")
    BY <1>4, Writers
  <2>2. \E w \in {"publish", "idle", "writing", "landed", "flush"} :
          /\ pc' = [pc EXCEPT ![a] = w]
          /\ a = "phase" => w # "flush"
          /\ a = "keepalive" => w # "publish"
    BY <2>1, <1>4
    DEF WriteStep, FlushNext, DirectStart, Land, FlushWriteOk, CallerWriteOk, WriteFails,
        Flushers
  <2>3. a = "phase" => job' = job
    BY <2>1, <1>4, ConstantsAssumption
    DEF WriteStep, FlushNext, DirectStart, Land, FlushWriteOk, CallerWriteOk, WriteFails,
        Flushers
  <2>4. \E v : job' = [job EXCEPT ![a] = v]
    <3>1. job = [job EXCEPT ![a] = job[a]]
      BY <1>0
    <3> QED
      BY <3>1, <1>4
      DEF WriteStep, FlushNext, DirectStart, Land, FlushWriteOk, CallerWriteOk, WriteFails
  <2>5. pendingA' = pendingA
    BY <1>4 DEF WriteStep, FlushNext, DirectStart, Land, FlushWriteOk, CallerWriteOk, WriteFails
  <2> QED
    BY <1>0, <2>1, <2>2, <2>3, <2>4, <2>5 DEF Roles, PollPCs, KeepalivePCs
<1> QED
  BY <1>1, <1>2, <1>3, <1>4, NoCallerSteps DEF Next

(* The queue keeps its shape, and a poll's decision replaces what waits,   *)
(* except a pause.                                                         *)
LEMMA Shapes ==
  /\ Waiting(EmptyQueue) /\ EmptyQueue["current_limit"] = NoItem
  /\ \A v \in Nat : CurrentWrite(v) \in CurrentWrites
  /\ \A i \in CurrentWrites : i # NoItem /\ i # ControlPause /\ i.priority = CURRENT
  /\ ControlPause # NoItem /\ ControlPause.priority = CONTROL /\ ControlPause.value = 0
  /\ KeepaliveWrite # NoItem /\ KeepaliveWrite.priority = KEEPALIVE
  /\ KeepaliveWrite.key = "keepalive" /\ ControlPause.key = "current_limit"
BY DEF Waiting, EmptyQueue, Keys, CurrentWrites, CurrentWrite, QueuedWrite, Registers,
       Priorities, Reasons, ControlPause, KeepaliveWrite, NoItem, CONTROL, KEEPALIVE,
       CURRENT

LEMMA WithKeepaliveWaits ==
  ASSUME NEW q \in Queues, Waiting(q)
  PROVE  Waiting(WithKeepalive(q))
<1>1. WithKeepalive(q) \in {q, [q EXCEPT !["keepalive"] = KeepaliveWrite]}
  BY DEF WithKeepalive, Enqueue, KeepaliveWrite
<1> QED
  BY <1>1 DEF Waiting, Queues, Keys

LEMMA PauseEnters ==
  ASSUME NEW q \in Queues, Waiting(q), q["current_limit"] = NoItem
  PROVE  LET p == Enqueue(q, ControlPause)
         IN  p \in Queues /\ Waiting(p) /\ p["current_limit"] = ControlPause
<1>1. Enqueue(q, ControlPause) = [q EXCEPT !["current_limit"] = ControlPause]
  BY DEF Enqueue, Yields, ControlPause
<1>2. Enqueue(q, ControlPause) \in Queues
  BY EnqueueType, WritesTyped
<1> QED
  BY <1>1, <1>2 DEF Waiting, Queues, Keys

LEMMA CurrentEnters ==
  ASSUME NEW q \in Queues, Waiting(q), NEW v \in Nat
  PROVE  LET p == Enqueue(q, CurrentWrite(v))
         IN  /\ p \in Queues /\ Waiting(p)
             /\ \/ p["current_limit"] = CurrentWrite(v)
                \/ p = q /\ q["current_limit"] = ControlPause
<1> DEFINE p == Enqueue(q, CurrentWrite(v))
<1>1. p \in Queues
  BY EnqueueType, WritesTyped
<1>2. CurrentWrite(v).key = "current_limit" /\ CurrentWrite(v).priority = CURRENT
  BY DEF CurrentWrite
<1>3. p \in {q, [q EXCEPT !["current_limit"] = CurrentWrite(v)]}
  BY <1>2 DEF Enqueue
<1>4. CASE q["current_limit"] # ControlPause
  <2>1. q["current_limit"] = NoItem \/ q["current_limit"].priority = CURRENT
    BY <1>4, Shapes DEF Waiting
  <2>2. Yields(q["current_limit"], CurrentWrite(v))
    BY <1>2, <2>1 DEF Yields, CURRENT
  <2>3. p = [q EXCEPT !["current_limit"] = CurrentWrite(v)]
    BY <1>2, <2>2 DEF Enqueue
  <2> QED
    BY <1>1, <2>3, Shapes DEF Waiting, Queues, Keys
<1>5. CASE q["current_limit"] = ControlPause
  BY <1>1, <1>3, <1>5, Shapes DEF Waiting, Queues, Keys
<1> QED
  BY <1>4, <1>5

(* What enqueueing a decision leaves: what it asked for, unless a pause    *)
(* waits, or at most what was there.                                       *)
LEMMA EnqueueDecisionWaits ==
  ASSUME NEW q \in Queues, Waiting(q), NEW eff, NEW allowed \in BOOLEAN,
         NEW conn \in BOOLEAN, NEW d \in Decisions(eff, conn)
  PROVE  LET p == EnqueueDecision(q, d, eff, allowed, conn)
             w == Wanted(d, eff, allowed, conn)
         IN  /\ Waiting(p)
             /\ w # NoAmps =>
                  /\ allowed
                  /\ p["current_limit"] # NoItem
                  /\ \/ p["current_limit"].value = w
                     \/ p["current_limit"] = ControlPause
                        /\ q["current_limit"] = ControlPause
<1> DEFINE p == EnqueueDecision(q, d, eff, allowed, conn)
           w == Wanted(d, eff, allowed, conn)
           c == IF d.why = "off" THEN WithKeepalive(EmptyQueue) ELSE q
           e == WithKeepalive(EmptyQueue)
<1> SUFFICES /\ Waiting(p)
             /\ w # NoAmps =>
                  /\ allowed
                  /\ p["current_limit"] # NoItem
                  /\ \/ p["current_limit"].value = w
                     \/ p["current_limit"] = ControlPause
                        /\ q["current_limit"] = ControlPause
  OBVIOUS
<1>1. e \in Queues /\ Waiting(e) /\ e["current_limit"] = NoItem
  BY WithKeepaliveType, WithKeepaliveWaits, KeepaliveLeavesNoTarget, WritesTyped, Shapes
<1>2. /\ c \in Queues /\ Waiting(c)
      /\ c["current_limit"] = ControlPause => q["current_limit"] = ControlPause
  BY <1>1, Shapes
<1>3. WithKeepalive(c) \in Queues /\ Waiting(WithKeepalive(c))
  BY <1>2, WithKeepaliveType, WithKeepaliveWaits
<1>4. d.write => d.value \in Nat
  BY ConstantsAssumption DEF Decisions
<1> HIDE DEF c, e
<1>5. p = IF ~allowed THEN c
          ELSE IF ~conn THEN WithKeepalive(c)
          ELSE IF MustPause(d, eff) THEN Enqueue(e, ControlPause)
          ELSE IF d.write THEN Enqueue(c, CurrentWrite(d.value))
          ELSE c
  BY DEF EnqueueDecision, c, e
<1> HIDE DEF p
<1>6. CASE ~allowed \/ ~conn
  BY <1>2, <1>3, <1>5, <1>6 DEF Wanted
<1>7. CASE allowed /\ conn /\ MustPause(d, eff)
  <2>1. p = Enqueue(e, ControlPause) /\ w = 0
    BY <1>5, <1>7 DEF Wanted
  <2> QED
    BY <1>1, <1>7, <2>1, PauseEnters, Shapes
<1>8. CASE allowed /\ conn /\ ~MustPause(d, eff) /\ d.write
  <2>1. p = Enqueue(c, CurrentWrite(d.value)) /\ w = d.value
    BY <1>5, <1>8 DEF Wanted
  <2>2. CurrentWrite(d.value).value = d.value /\ CurrentWrite(d.value) # NoItem
    BY <1>4, <1>8, Shapes DEF CurrentWrite
  <2> QED
    BY <1>2, <1>4, <1>8, <2>1, <2>2, CurrentEnters, Shapes
<1>9. CASE allowed /\ conn /\ ~MustPause(d, eff) /\ ~d.write
  BY <1>2, <1>5, <1>9 DEF Wanted
<1> QED
  BY <1>6, <1>7, <1>8, <1>9

(* A pause is taken before a keepalive.                                    *)
LEMMA PauseIsFirst ==
  ASSUME NEW q \in Queues, Waiting(q), q["current_limit"] = ControlPause
  PROVE  MostUrgent(q) = "current_limit"
<1>1. Pending(q) # {} /\ "current_limit" \in Pending(q)
  BY Shapes DEF Pending, Keys
<1>2. \E k \in Pending(q) : \A l \in Pending(q) : q[k].priority <= q[l].priority
  <2>1. q["current_limit"].priority = CONTROL
    BY Shapes
  <2>2. \A l \in Pending(q) : l = "current_limit" \/ q[l].priority = KEEPALIVE
    BY Shapes DEF Pending, Keys, Waiting
  <2> QED
    BY <1>1, <2>1, <2>2 DEF CONTROL, KEEPALIVE
<1>3. /\ MostUrgent(q) \in Pending(q)
      /\ \A l \in Pending(q) : q[MostUrgent(q)].priority <= q[l].priority
  BY <1>2 DEF MostUrgent
<1>4. CASE MostUrgent(q) = "keepalive"
  <2>1. q["keepalive"] = KeepaliveWrite
    BY <1>3, <1>4 DEF Pending, Waiting
  <2> QED
    BY <1>1, <1>3, <1>4, <2>1, Shapes DEF CONTROL, KEEPALIVE
<1> QED
  BY <1>3, <1>4 DEF Pending, Keys

LEMMA TakenWaits ==
  ASSUME NEW q \in Queues, Waiting(q), NEW k \in Keys
  PROVE  Waiting(Without(q, k))
BY DEF Without, Waiting, Queues, Keys

LEMMA QueueLater ==
  ASSUME ManagedInv, Next
  PROVE  Waiting(queue') /\ PauseIsFlushed'
<1> USE ActorsKnown
<1>0. /\ TypeOK /\ queue \in Queues /\ Waiting(queue) /\ PauseIsFlushed /\ LockInv
      /\ pc \in [Actors -> PCs]
  BY DEF ManagedInv, LockInv, TypeOK
<1>1. ASSUME queue'["current_limit"] = queue["current_limit"],
             pc["poll"] = "flush" => pc'["poll"] = "flush" \/ SensorsTracked
      PROVE  PauseIsFlushed'
  BY <1>0, <1>1 DEF PauseIsFlushed
<1>2. CASE PollDecide
  <2>1. PICK d \in Decisions(Effective(mode'), seen),
             act \in {"none"} \cup Schedulable(Effective(mode')) :
          queue' = EnqueueDecision(queue, d, Effective(mode'),
                     AutomaticWritesAllowed(PhaseInProgress \/ act # "none"), seen)
    BY <1>2 DEF PollDecide
  <2>2. AutomaticWritesAllowed(PhaseInProgress \/ act # "none") \in BOOLEAN
        /\ seen \in BOOLEAN
    BY <1>0 DEF AutomaticWritesAllowed, TypeOK
  <2>3. Waiting(queue')
    BY <1>0, <2>1, <2>2, EnqueueDecisionWaits
  <2>4. pc'["poll"] = "flush"
    BY <1>0, <1>2 DEF PollDecide
  <2> QED
    BY <2>3, <2>4 DEF PauseIsFlushed
<1>3. CASE PollRead \/ PollReadFails \/ PollPublish \/ PollCancelled
  BY <1>0, <1>1, <1>3 DEF PollRead, PollReadFails, PollPublish, PollCancelled
<1>4. CASE KeepaliveDue \/ UserStep
  BY <1>0, <1>1, <1>4 DEF KeepaliveDue, UserStep, PlugOrUnplug, SetMode, PauseOrResume
<1>5. CASE KeepaliveIteration
  <2>1. queue' = WithKeepalive(queue) /\ pc' = [pc EXCEPT !["keepalive"] = "flush"]
    BY <1>5 DEF KeepaliveIteration, Enter
  <2> QED
    BY <1>0, <1>1, <2>1, WithKeepaliveWaits, KeepaliveLeavesNoTarget
<1>6. CASE PhaseStep
  <2>1. queue' = queue /\ \E w : pc' = [pc EXCEPT !["phase"] = w]
    BY <1>6
    DEF PhaseStep, PhaseTaskStep, RequestPhase, SwitchStart, RestoreRead, RestoreDecide,
        RequestRegister, Enter, FlushPending, AfterPending, PhaseRegisterOk,
        PhaseCurrentOk, PhaseWriteFails, PhaseTaskEnds
  <2> QED
    BY <1>0, <1>1, <2>1
<1>7. ASSUME NEW a \in Actors, WriteStep(a)
      PROVE  Waiting(queue') /\ PauseIsFlushed'
  <2>1. CASE FlushNext(a) /\ Pending(queue) = {}
    <3>1. queue' = queue /\ queue["current_limit"] = NoItem
      BY <2>1 DEF FlushNext, Pending, Keys
    <3> QED
      BY <1>0, <3>1, Shapes DEF PauseIsFlushed
  <2>2. CASE FlushNext(a) /\ Pending(queue) # {}
    <3>1. PICK k \in Keys : k = MostUrgent(queue) /\ queue' = Without(queue, k)
      BY <1>0, <2>2, MostUrgentPending, PendingType DEF FlushNext
    <3>2. Waiting(queue')
      BY <1>0, <3>1, TakenWaits
    <3>3. queue'["current_limit"] # ControlPause
      <4>1. CASE queue["current_limit"] = ControlPause
        BY <1>0, <3>1, <4>1, PauseIsFirst, Shapes DEF Without, Queues, Keys
      <4>2. CASE queue["current_limit"] # ControlPause
        BY <1>0, <3>1, <4>2, Shapes DEF Without, Queues, Keys
      <4> QED
        BY <4>1, <4>2
    <3> QED
      BY <3>2, <3>3 DEF PauseIsFlushed
  <2>3. CASE DirectStart(a)
    BY <2>3, Shapes DEF DirectStart, PauseIsFlushed
  <2>4. CASE Land(a) \/ FlushWriteOk(a) \/ CallerWriteOk(a) \/ WriteFails(a)
    <3>1. queue' = queue /\ pc[a] # "flush" /\ \E w : pc' = [pc EXCEPT ![a] = w]
      BY <2>4 DEF Land, FlushWriteOk, CallerWriteOk, WriteFails, OnWire
    <3> QED
      BY <1>0, <1>1, <3>1
  <2> QED
    BY <1>7, <2>1, <2>2, <2>3, <2>4 DEF WriteStep
<1> QED
  BY <1>2, <1>3, <1>4, <1>5, <1>6, <1>7, NoCallerSteps DEF Next, PollStep

(* Who comes after the poll stays after it.                                *)
LEMMA JoinsBehind ==
  ASSUME NEW l \in Seq(Actors), PollFirst(l), NEW a \in Actors,
         a = "poll" => \A i \in DOMAIN l : l[i] # "phase"
  PROVE  PollFirst(Append(l, a))
BY DEF PollFirst

LEMMA LeavesAhead ==
  ASSUME NEW l \in Seq(Actors), l # <<>>, PollFirst(l)
  PROVE  PollFirst(Tail(l))
<1>1. /\ DOMAIN Tail(l) = 1..(Len(l) - 1) /\ DOMAIN l = 1..Len(l) /\ Len(l) \in Nat
      /\ \A i \in 1..(Len(l) - 1) : Tail(l)[i] = l[i + 1]
  OBVIOUS
<1> QED
  BY <1>1 DEF PollFirst

(* The poll starts: what it decided waits, and no phase task is ahead.     *)
LEMMA DecideLanding ==
  ASSUME ManagedInv, PollDecide
  PROVE  Landing'
<1> SUFFICES ASSUME verdict' # NoAmps
             PROVE  Landing'
  BY DEF Landing
<1> USE ActorsKnown
<1>0. /\ TypeOK /\ queue \in Queues /\ Waiting(queue) /\ PauseIsFlushed /\ LockOK(lock, pc)
      /\ pc \in [Actors -> PCs] /\ lock \in Seq(Actors) /\ pc["poll"] = "read"
  BY DEF ManagedInv, LockInv, TypeOK, PollDecide
<1>1. PICK d \in Decisions(Effective(mode'), seen),
           act \in {"none"} \cup Schedulable(Effective(mode')) :
        LET allowed == AutomaticWritesAllowed(PhaseInProgress \/ act # "none")
        IN  /\ queue' = EnqueueDecision(queue, d, Effective(mode'), allowed, seen)
            /\ verdict' = Wanted(d, Effective(mode'), allowed, seen)
            /\ \/ /\ pc' = [pc EXCEPT !["poll"] = "flush",
                              !["phase"] = IF act = "none" THEN @ ELSE "queued"]
                  /\ lock' = Append(lock, "poll")
               \/ act = "automatic"
  <2>1. PICK may : may = IF seen /\ ~PhaseInProgress THEN Schedulable(Effective(mode')) ELSE {}
    OBVIOUS
  <2>2. may \subseteq Schedulable(Effective(mode'))
    BY <2>1
  <2> QED
    BY <2>1, <2>2 DEF PollDecide
<1>2. AutomaticWritesAllowed(PhaseInProgress \/ act # "none") \in BOOLEAN /\ seen \in BOOLEAN
  BY <1>0 DEF AutomaticWritesAllowed, TypeOK
<1>3. /\ AutomaticWritesAllowed(PhaseInProgress \/ act # "none")
      /\ queue'["current_limit"] # NoItem
      /\ \/ queue'["current_limit"].value = verdict'
         \/ queue'["current_limit"] = ControlPause /\ queue["current_limit"] = ControlPause
  BY <1>0, <1>1, <1>2, EnqueueDecisionWaits
<1>4. act = "none" /\ pc["phase"] = "idle"
  BY <1>3 DEF AutomaticWritesAllowed, PhaseInProgress
<1>5. pc'["poll"] = "flush" /\ lock' = Append(lock, "poll")
  BY <1>0, <1>1, <1>4
<1>6. PollFirst(lock')
  <2>1. \A i \in DOMAIN lock : lock[i] # "phase"
    BY <1>0, <1>4 DEF LockOK, LockPCs
  <2>2. PollFirst(lock)
    BY <2>1 DEF PollFirst
  <2> QED
    BY <1>0, <1>5, <2>1, <2>2, JoinsBehind
<1>7. Answers(queue["current_limit"].value)'
  <2>1. CASE queue'["current_limit"].value = verdict'
    BY <2>1 DEF Answers
  <2>2. CASE queue'["current_limit"] = ControlPause /\ queue["current_limit"] = ControlPause
    BY <1>0, <2>2, Shapes DEF PauseIsFlushed, Answers
  <2> QED
    BY <1>3, <2>1, <2>2
<1> QED
  BY <1>3, <1>5, <1>6, <1>7 DEF Landing, UnderWay, LockPCs

(* A step that leaves the poll where it is, the queued current, the        *)
(* currents on the wire and the record.                                    *)
LEMMA Unaffected ==
  ASSUME ManagedInv, verdict' = verdict,
         pc'["poll"] = pc["poll"] \/ {pc["poll"], pc'["poll"]} \subseteq {"writing", "landed"},
         PollFirst(lock) => PollFirst(lock'),
         queue'["current_limit"] = queue["current_limit"],
         \A b \in Actors : /\ CurrentOnWire(b)' <=> CurrentOnWire(b)
                           /\ CurrentOnWire(b) => job'[b] = job[b],
         lastWrite' = lastWrite, unconfirmed => unconfirmed'
  PROVE  Landing'
<1> SUFFICES ASSUME verdict # NoAmps
             PROVE  Landing'
  BY DEF Landing
<1>1. pc["poll"] \in LockPCs \cup {"publish"} /\ PollFirst(lock) /\ UnderWay
  BY DEF ManagedInv, Landing
<1>2. pc'["poll"] \in LockPCs \cup {"publish"}
      /\ (pc'["poll"] = "publish" <=> pc["poll"] = "publish")
  BY <1>1 DEF LockPCs
<1>3. \A v : Answers(v)' <=> v = verdict \/ (SensorsTracked /\ v = 0)
  BY DEF Answers
<1>4. UnderWay'
  BY <1>1, <1>2 DEF UnderWay, Answers
<1> QED
  BY <1>1, <1>2, <1>4 DEF Landing

(* While a coroutine holds the lock and has nothing on the wire, nothing   *)
(* is on the wire.                                                         *)
LEMMA WireIsFree ==
  ASSUME LockOK(lock, pc), NEW a \in Actors, Head(lock) = a, ~OnWire(a)
  PROVE  \A b \in Actors : ~OnWire(b)
BY DEF LockOK, OnWire

(* The holder of the lock takes the next write or leaves.                  *)
LEMMA FlushNextLanding ==
  ASSUME ManagedInv, NEW a \in {"poll", "keepalive"}, FlushNext(a)
  PROVE  Landing'
<1> SUFFICES ASSUME verdict' # NoAmps
             PROVE  Landing'
  BY DEF Landing
<1> USE ActorsKnown
<1>0. /\ TypeOK /\ queue \in Queues /\ Waiting(queue) /\ LockOK(lock, pc)
      /\ pc \in [Actors -> PCs] /\ lock \in Seq(Actors)
      /\ job \in [Actors -> QueuedWrite \cup {NoItem}]
      /\ a \in Actors /\ pc[a] = "flush" /\ lock # <<>> /\ Head(lock) = a
      /\ verdict' = verdict /\ lastWrite' = lastWrite /\ unconfirmed' = unconfirmed
  BY DEF ManagedInv, LockInv, TypeOK, FlushNext, HoldsLock, session, record
<1>1. pc["poll"] \in LockPCs \cup {"publish"} /\ PollFirst(lock) /\ UnderWay
  BY <1>0 DEF ManagedInv, Landing
<1>2. \A b \in Actors : ~OnWire(b)
  BY <1>0, WireIsFree DEF OnWire
<1>3. CASE Pending(queue) = {}
  <2>1. /\ lock' = Tail(lock) /\ queue' = queue /\ job' = job
        /\ queue["current_limit"] = NoItem
        /\ pc' = [pc EXCEPT ![a] = IF a = "poll" THEN "publish" ELSE "idle"]
    BY <1>3 DEF FlushNext, ReleaseLock, Pending, Keys
  <2>2. \A b \in Actors : ~OnWire(b)'
    BY <1>0, <1>2, <2>1 DEF OnWire
  <2>3. PollFirst(lock') /\ pc'["poll"] \in LockPCs \cup {"publish"}
    BY <1>0, <1>1, <2>1, LeavesAhead
  <2>4. unconfirmed \/ Answers(lastWrite.value)
    BY <1>2, <2>1, <1>1 DEF UnderWay, CurrentOnWire
  <2>5. UnderWay'
    BY <1>0, <2>1, <2>2, <2>4 DEF UnderWay, CurrentOnWire, Answers
  <2> QED
    BY <2>3, <2>5 DEF Landing
<1>4. CASE Pending(queue) # {}
  <2>1. PICK k \in Keys : /\ k = MostUrgent(queue) /\ k \in Pending(queue)
                          /\ queue' = Without(queue, k)
                          /\ job' = [job EXCEPT ![a] = queue[k]]
                          /\ pc' = [pc EXCEPT ![a] = "writing"]
                          /\ lock' = lock
    BY <1>0, <1>4, MostUrgentPending, PendingType DEF FlushNext
  <2>2. pc'["poll"] \in LockPCs \cup {"publish"}
        /\ (pc'["poll"] = "publish" <=> pc["poll"] = "publish")
    BY <1>0, <1>1, <2>1 DEF LockPCs
  <2>3. \A b \in Actors : OnWire(b)' <=> b = a
    BY <1>0, <1>2, <2>1 DEF OnWire
  <2>4. job'[a] = queue[k] /\ queue[k] # NoItem
    BY <1>0, <2>1 DEF Pending
  <2>5. CASE k = "keepalive"
    <3>1. job'[a].key = "keepalive"
      BY <1>0, <2>4, <2>5, Shapes DEF Waiting
    <3>2. queue'["current_limit"] = queue["current_limit"]
      BY <1>0, <2>1, <2>5 DEF Without, Queues, Keys
    <3>3. \A b \in Actors : ~CurrentOnWire(b) /\ ~CurrentOnWire(b)'
      BY <1>2, <2>3, <3>1 DEF CurrentOnWire
    <3>4. UnderWay'
      BY <1>0, <1>1, <2>2, <3>2, <3>3 DEF UnderWay, Answers
    <3> QED
      BY <1>1, <2>1, <2>2, <3>4 DEF Landing
  <2>6. CASE k = "current_limit"
    <3>1. job'[a].key = "current_limit"
      BY <1>0, <2>4, <2>6, Shapes DEF Waiting, CurrentWrites
    <3>2. queue'["current_limit"] = NoItem
      BY <1>0, <2>1, <2>6 DEF Without, Queues, Keys
    <3>3. Answers(job'[a].value) /\ pc["poll"] # "publish"
      BY <1>1, <2>4, <2>6 DEF UnderWay
    <3>4. \A b \in Actors : CurrentOnWire(b)' <=> b = a
      BY <2>3, <3>1 DEF CurrentOnWire
    <3>5. UnderWay'
      BY <1>0, <2>2, <3>2, <3>3, <3>4 DEF UnderWay, Answers
    <3> QED
      BY <1>1, <2>1, <2>2, <3>5 DEF Landing
  <2> QED
    BY <2>5, <2>6 DEF Keys
<1> QED
  BY <1>3, <1>4

(* A current recorded was the decided one, unless that still waits.        *)
LEMMA WriteOkLanding ==
  ASSUME ManagedInv, NEW a \in {"poll", "keepalive"}, FlushWriteOk(a)
  PROVE  Landing'
<1> SUFFICES ASSUME verdict' # NoAmps
             PROVE  Landing'
  BY DEF Landing
<1> USE ActorsKnown
<1>0. /\ LockOK(lock, pc) /\ pc \in [Actors -> PCs] /\ a \in Actors
      /\ job \in [Actors -> QueuedWrite \cup {NoItem}]
      /\ pc[a] = "landed" /\ OnWire(a) /\ Record(job[a])
      /\ pc' = [pc EXCEPT ![a] = "flush"] /\ job' = [job EXCEPT ![a] = NoItem]
      /\ verdict' = verdict /\ lock' = lock /\ queue' = queue
  BY DEF ManagedInv, LockInv, TypeOK, FlushWriteOk, session, OnWire
<1>1. pc["poll"] \in LockPCs \cup {"publish"} /\ PollFirst(lock) /\ UnderWay
  BY <1>0 DEF ManagedInv, Landing
<1>2. /\ \A b \in Actors : OnWire(b) => b = a
      /\ \A b \in Actors : ~OnWire(b)'
  BY <1>0 DEF LockOK, OnWire
<1>3. pc'["poll"] \in LockPCs \cup {"publish"}
      /\ (pc'["poll"] = "publish" <=> pc["poll"] = "publish")
  BY <1>0, <1>1 DEF LockPCs
<1>4. queue["current_limit"] = NoItem => unconfirmed' \/ Answers(lastWrite'.value)
  <2>1. CASE job[a].key = "current_limit"
    <3>1. lastWrite'.value = job[a].value /\ CurrentOnWire(a)
      BY <1>0, <2>1 DEF Record, CurrentOnWire
    <3> QED
      BY <1>0, <1>1, <3>1 DEF UnderWay
  <2>2. CASE job[a].key # "current_limit"
    <3>1. lastWrite' = lastWrite /\ unconfirmed' = unconfirmed
      BY <1>0, <2>2 DEF Record, record
    <3>2. \A b \in Actors : ~CurrentOnWire(b)
      BY <1>2, <2>2 DEF CurrentOnWire
    <3> QED
      BY <1>1, <3>1, <3>2 DEF UnderWay
  <2> QED
    BY <2>1, <2>2
<1>5. UnderWay'
  BY <1>0, <1>1, <1>2, <1>3, <1>4 DEF UnderWay, Answers, CurrentOnWire
<1> QED
  BY <1>0, <1>1, <1>3, <1>5 DEF Landing

(* A write that fails leaves the record unconfirmed if it was of a current *)
(* (a failing poll decides nothing any more).                              *)
LEMMA FailureLanding ==
  ASSUME ManagedInv, NEW a \in {"keepalive", "phase"}, OnWire(a), Unrecorded(a),
         ReleaseLock, job' = [job EXCEPT ![a] = NoItem],
         NEW w \in PCs \ LockPCs, pc' = [pc EXCEPT ![a] = w],
         UNCHANGED <<verdict, queue, lastWrite>>
  PROVE  Landing'
<1> SUFFICES ASSUME verdict' # NoAmps
             PROVE  Landing'
  BY DEF Landing
<1> USE ActorsKnown
<1>0. /\ LockOK(lock, pc) /\ pc \in [Actors -> PCs] /\ a \in Actors /\ a # "poll"
      /\ job \in [Actors -> QueuedWrite \cup {NoItem}] /\ lock \in Seq(Actors)
      /\ lock # <<>> /\ Head(lock) = a /\ lock' = Tail(lock)
  BY WireHolds DEF ManagedInv, LockInv, TypeOK, ReleaseLock
<1>1. pc["poll"] \in LockPCs \cup {"publish"} /\ PollFirst(lock) /\ UnderWay
  BY DEF ManagedInv, Landing
<1>2. pc'["poll"] = pc["poll"] /\ PollFirst(lock')
  BY <1>0, <1>1, LeavesAhead
<1>3. /\ \A b \in Actors : OnWire(b) => b = a
      /\ \A b \in Actors : ~OnWire(b)'
  BY <1>0 DEF LockOK, OnWire, LockPCs
<1>4. queue["current_limit"] = NoItem => unconfirmed' \/ Answers(lastWrite.value)
  <2>1. unconfirmed \/ CurrentOnWire(a) => unconfirmed'
    BY Zenon DEF Unrecorded, CurrentOnWire
  <2> QED
    BY <1>1, <1>3, <2>1 DEF UnderWay, CurrentOnWire
<1>5. UnderWay'
  BY <1>1, <1>2, <1>3, <1>4 DEF UnderWay, Answers, CurrentOnWire
<1> QED
  BY <1>1, <1>2, <1>5 DEF Landing

LEMMA WriteStepLanding ==
  ASSUME ManagedInv, NEW a \in Actors, WriteStep(a)
  PROVE  Landing'
<1> USE ActorsKnown
<1>0. /\ LockOK(lock, pc) /\ pc \in [Actors -> PCs] /\ Roles /\ Landing
      /\ job \in [Actors -> QueuedWrite \cup {NoItem}]
  BY DEF ManagedInv, LockInv, TypeOK
<1>1. /\ a \in {"poll", "keepalive", "phase"} /\ a \notin Callers
      /\ a = "phase" => pc["phase"] # "flush" /\ a \notin Flushers
      /\ a \in Flushers => pc[a] # "direct"
  BY Writers, ConstantsAssumption DEF Flushers
<1>2. CASE FlushNext(a)
  BY <1>1, <1>2, FlushNextLanding DEF FlushNext
<1>3. CASE DirectStart(a)
  <2>1. a = "phase" /\ Head(lock) = "phase" /\ lock # <<>> /\ job["phase"] \in {NoItem, PhaseWrite}
    BY <1>0, <1>1, <1>3 DEF DirectStart, HoldsLock, Flushers, Roles
  <2> SUFFICES ASSUME verdict' # NoAmps
               PROVE  Landing'
    BY DEF Landing
  <2>2. /\ verdict' = verdict /\ lastWrite' = lastWrite /\ unconfirmed' = unconfirmed
        /\ lock' = lock /\ job' = job /\ queue' = EmptyQueue
        /\ pc' = [pc EXCEPT !["phase"] = "writing"]
    BY <1>3, <2>1 DEF DirectStart, session, record
  <2>3. pc["poll"] \in LockPCs \cup {"publish"} /\ PollFirst(lock) /\ UnderWay
    BY <1>0, <2>2 DEF Landing
  <2>4. pc["poll"] = "publish"
    <3>1. DOMAIN lock = 1..Len(lock) /\ Len(lock) \in Nat \ {0} /\ lock[1] = "phase"
      BY <1>0, <2>1 DEF LockOK
    <3>2. \A i \in DOMAIN lock : lock[i] # "poll"
      BY <2>3, <3>1 DEF PollFirst
    <3> QED
      BY <1>0, <2>3, <3>2 DEF LockOK
  <2>5. queue["current_limit"] = NoItem /\ queue'["current_limit"] = NoItem
    BY <2>2, <2>3, <2>4, Shapes DEF UnderWay
  <2>6. \A b \in Actors : CurrentOnWire(b)' <=> CurrentOnWire(b)
    <3>1. job["phase"].key # "current_limit"
      BY <2>1 DEF NoItem, PhaseWrite
    <3> QED
      BY <1>0, <2>2, <3>1 DEF CurrentOnWire, OnWire
  <2> QED
    BY <1>0, <2>2, <2>5, <2>6, Unaffected
<1>4. CASE Land(a)
  <2>1. /\ verdict' = verdict /\ lastWrite' = lastWrite /\ unconfirmed' = unconfirmed
        /\ lock' = lock /\ job' = job /\ queue' = queue
        /\ pc[a] = "writing" /\ pc' = [pc EXCEPT ![a] = "landed"]
    BY <1>4 DEF Land, session, record
  <2>2. \A b \in Actors : CurrentOnWire(b)' <=> CurrentOnWire(b)
    BY <1>0, <2>1 DEF CurrentOnWire, OnWire
  <2>3. pc'["poll"] = pc["poll"] \/ {pc["poll"], pc'["poll"]} \subseteq {"writing", "landed"}
    BY <1>0, <2>1
  <2> QED
    BY <2>1, <2>2, <2>3, Unaffected
<1>5. CASE FlushWriteOk(a)
  BY <1>1, <1>5, WriteOkLanding DEF FlushWriteOk, Flushers
<1>6. CASE CallerWriteOk(a)
  BY <1>1, <1>6 DEF CallerWriteOk
<1>7. CASE WriteFails(a)
  <2>1. CASE a = "poll"
    BY <1>7, <2>1 DEF WriteFails, Landing
  <2>2. CASE a = "keepalive"
    <3>1. "idle" \in PCs \ LockPCs
      BY DEF PCs, LockPCs
    <3>2. /\ OnWire(a) /\ Unrecorded(a) /\ ReleaseLock /\ job' = [job EXCEPT ![a] = NoItem]
          /\ pc' = [pc EXCEPT ![a] = "idle"] /\ UNCHANGED <<verdict, queue, lastWrite>>
      BY <1>7, <2>2 DEF WriteFails
    <3> QED
      BY <2>2, <3>1, <3>2, FailureLanding
  <2> QED
    BY <1>1, <1>7, <2>1, <2>2 DEF WriteFails
<1> QED
  BY <1>2, <1>3, <1>4, <1>5, <1>6, <1>7 DEF WriteStep

(* The phase task enters the lock behind the poll, writes no current, and  *)
(* leaves the record alone.                                                *)
LEMMA PhaseStepLanding ==
  ASSUME ManagedInv, PhaseStep
  PROVE  Landing'
<1> USE ActorsKnown
<1>0. /\ LockOK(lock, pc) /\ pc \in [Actors -> PCs] /\ Roles /\ lock \in Seq(Actors)
      /\ job \in [Actors -> QueuedWrite \cup {NoItem}]
  BY DEF ManagedInv, LockInv, TypeOK
<1>1. pendingA = NoAmps /\ job["phase"] \in {NoItem, PhaseWrite}
      /\ job["phase"].key # "current_limit"
  BY <1>0 DEF Roles, NoItem, PhaseWrite
<1>2. CASE PhaseWriteFails
  <2>1. OnWire("phase") /\ Unrecorded("phase") /\ ReleaseLock
        /\ job' = [job EXCEPT !["phase"] = NoItem]
        /\ UNCHANGED <<verdict, queue, lastWrite>>
    BY <1>2 DEF PhaseWriteFails, session
  <2>2. \E w \in {"pend", "refresh", "idle"} : pc' = [pc EXCEPT !["phase"] = w]
    BY <1>2 DEF PhaseWriteFails, AfterPending
  <2>3. {"pend", "refresh", "idle"} \subseteq PCs \ LockPCs
    BY DEF PCs, LockPCs
  <2> QED
    BY <2>1, <2>2, <2>3, FailureLanding
<1>3. CASE PhaseCurrentOk
  BY <1>1, <1>3 DEF PhaseCurrentOk
<1>4. CASE PhaseRegisterOk
  <2>1. /\ pc["phase"] = "landed" /\ lock # <<>> /\ lock' = Tail(lock)
        /\ pc' = [pc EXCEPT !["phase"] = "pend"] /\ job' = [job EXCEPT !["phase"] = NoItem]
        /\ queue' = queue /\ verdict' = verdict /\ UNCHANGED record
    BY <1>0, <1>4 DEF PhaseRegisterOk, ReleaseLock, LockOK, LockPCs, session
  <2>2. \A b \in Actors : CurrentOnWire(b)' <=> CurrentOnWire(b)
    BY <1>0, <1>1, <2>1 DEF CurrentOnWire, OnWire, NoItem
  <2>3. \A b \in Actors : CurrentOnWire(b) => job'[b] = job[b]
    BY <1>0, <1>1, <2>1 DEF CurrentOnWire
  <2>4. PollFirst(lock) => PollFirst(lock')
    BY <1>0, <2>1, LeavesAhead
  <2> QED
    BY <1>0, <2>1, <2>2, <2>3, <2>4, Unaffected DEF record
<1>5. CASE \/ \E kind \in PhaseRequests : RequestPhase(kind)
           \/ SwitchStart \/ RestoreRead \/ RestoreDecide \/ FlushPending \/ PhaseTaskEnds
  <2>1. queue' = queue /\ verdict' = verdict /\ lastWrite' = lastWrite /\ unconfirmed' = unconfirmed
    BY <1>5 DEF RequestPhase, SwitchStart, RestoreRead, RestoreDecide, FlushPending,
                PhaseTaskEnds, session, record
  <2>2. /\ pc["phase"] \notin {"writing", "landed"}
        /\ \E w \in {"queued", "fetch", "pend", "refresh", "idle", "direct"} :
             pc' = [pc EXCEPT !["phase"] = w]
        /\ lock' = lock \/ lock' = Append(lock, "phase")
        /\ job' = job \/ job' = [job EXCEPT !["phase"] = PhaseWrite]
    BY <1>1, <1>5
    DEF RequestPhase, PhaseInProgress, SwitchStart, RestoreRead, RestoreDecide,
        RequestRegister, Enter, FlushPending, AfterPending, PhaseTaskEnds
  <2>3. \A b \in Actors : /\ CurrentOnWire(b)' <=> CurrentOnWire(b)
                          /\ CurrentOnWire(b) => job'[b] = job[b]
    BY <1>0, <2>2 DEF CurrentOnWire, OnWire
  <2>4. PollFirst(lock) => PollFirst(lock')
    <3>1. PollFirst(lock) => PollFirst(Append(lock, "phase"))
      BY <1>0, JoinsBehind
    <3> QED
      BY <2>2, <3>1
  <2>5. pc'["poll"] = pc["poll"]
    BY <1>0, <2>2
  <2> QED
    BY <2>1, <2>3, <2>4, <2>5, Unaffected
<1> QED
  BY <1>2, <1>3, <1>4, <1>5 DEF PhaseStep, PhaseTaskStep

LEMMA LandingLater ==
  ASSUME ManagedInv, Next
  PROVE  Landing'
<1> USE ActorsKnown
<1>0. /\ LockOK(lock, pc) /\ pc \in [Actors -> PCs] /\ lock \in Seq(Actors)
      /\ queue \in Queues /\ Landing /\ pc["keepalive"] \in KeepalivePCs
  BY DEF ManagedInv, LockInv, TypeOK, Roles
<1>1. CASE PollRead \/ PollReadFails
  <2>1. pc["poll"] \in {"idle", "read"} /\ verdict' = verdict
    BY <1>1 DEF PollRead, PollReadFails
  <2> QED
    BY <1>0, <2>1 DEF Landing, LockPCs
<1>2. CASE PollPublish \/ PollCancelled
  BY <1>2 DEF PollPublish, PollCancelled, Landing
<1>3. CASE KeepaliveDue \/ UserStep
  BY <1>3, Unaffected DEF KeepaliveDue, UserStep, PlugOrUnplug, SetMode, PauseOrResume,
                          CurrentOnWire, OnWire, session, record
<1>4. CASE KeepaliveIteration
  <2>1. /\ pc["keepalive"] = "idle" /\ pc' = [pc EXCEPT !["keepalive"] = "flush"]
        /\ lock' = Append(lock, "keepalive") /\ job' = job /\ queue' = WithKeepalive(queue)
        /\ verdict' = verdict /\ lastWrite' = lastWrite /\ unconfirmed' = unconfirmed
    BY <1>4 DEF KeepaliveIteration, Enter, session, record
  <2>2. PollFirst(lock) => PollFirst(lock')
    BY <1>0, <2>1, JoinsBehind
  <2>3. queue'["current_limit"] = queue["current_limit"]
    BY <1>0, <2>1, KeepaliveLeavesNoTarget
  <2>4. \A b \in Actors : CurrentOnWire(b)' <=> CurrentOnWire(b)
    BY <1>0, <2>1 DEF CurrentOnWire, OnWire
  <2>5. pc'["poll"] = pc["poll"]
    BY <1>0, <2>1
  <2> QED
    BY <2>1, <2>2, <2>3, <2>4, <2>5, Unaffected
<1> QED
  BY <1>1, <1>2, <1>3, <1>4, DecideLanding, PhaseStepLanding, WriteStepLanding,
     NoCallerSteps DEF Next, PollStep

(* Under another owner, or none, no poll decides on a current.             *)
LEMMA NothingDecided ==
  ASSUME ControlMode # "managed", verdict = NoAmps, Next
  PROVE  verdict' = NoAmps
<1>1. CASE PollDecide
  BY <1>1 DEF PollDecide, Wanted, AutomaticWritesAllowed
<1>2. CASE PollRead \/ PollReadFails \/ PollPublish \/ PollCancelled
  BY <1>2 DEF PollRead, PollReadFails, PollPublish, PollCancelled
<1>3. CASE KeepaliveDue \/ KeepaliveIteration \/ UserStep
  BY <1>3 DEF KeepaliveDue, KeepaliveIteration, UserStep, PlugOrUnplug, SetMode,
              PauseOrResume, session
<1>4. CASE PhaseStep
  BY <1>4 DEF PhaseStep, PhaseTaskStep, RequestPhase, SwitchStart, RestoreRead,
              RestoreDecide, FlushPending, PhaseRegisterOk, PhaseCurrentOk,
              PhaseWriteFails, PhaseTaskEnds, session
<1>5. ASSUME NEW c \in Callers, CallerStep(c)
      PROVE  verdict' = NoAmps
  BY <1>5 DEF CallerStep, SetExternalCurrent, SetChargingEnabled, ChargingEnabledSaved,
              session
<1>6. ASSUME NEW a \in Actors, WriteStep(a)
      PROVE  verdict' = NoAmps
  BY <1>6 DEF WriteStep, FlushNext, DirectStart, Land, FlushWriteOk, CallerWriteOk,
              WriteFails, session
<1> QED
  BY <1>1, <1>2, <1>3, <1>4, <1>5, <1>6 DEF Next, PollStep

(* What a poll decided is recorded and in the charger's register when it   *)
(* returns, or a pause of a poll that was cancelled is, or a current write *)
(* failed.                                                                 *)
THEOREM DecisionSafety == Spec => []DecisionLands
<1>1. Init => LandInv
  <2> SUFFICES ASSUME Init PROVE LandInv
    OBVIOUS
  <2>1. Roles
    BY ActorsKnown DEF Init, Roles, PollPCs, KeepalivePCs
  <2>2. Waiting(queue) /\ PauseIsFlushed
    BY Shapes DEF Init, PauseIsFlushed
  <2>3. verdict = NoAmps /\ Landing
    BY DEF Init, Landing
  <2> QED
    BY <2>1, <2>2, <2>3, InitLockInv DEF LandInv
<1>2. LandInv /\ [Next]_vars => LandInv'
  <2> SUFFICES ASSUME LandInv, [Next]_vars
               PROVE  LandInv'
    OBVIOUS
  <2>1. LockInv'
    BY StepLockInv DEF LandInv
  <2>2. CASE UNCHANGED vars
    <3>1. Roles' = Roles /\ Waiting(queue') = Waiting(queue)
          /\ PauseIsFlushed' = PauseIsFlushed /\ Landing' = Landing /\ verdict' = verdict
      BY <2>2 DEF vars, session, record, Roles, Waiting, PauseIsFlushed, Landing, PollFirst,
                  UnderWay, CurrentOnWire, OnWire, Answers
    <3> QED
      BY <2>1, <3>1 DEF LandInv
  <2>3. CASE Next /\ ControlMode = "managed"
    <3>1. ManagedInv
      BY <2>3 DEF LandInv, ManagedInv
    <3> QED
      BY <2>1, <2>3, <3>1, RolesLater, QueueLater, LandingLater DEF LandInv
  <2>4. CASE Next /\ ControlMode # "managed"
    BY <2>1, <2>4, NothingDecided DEF LandInv
  <2> QED
    BY <2>2, <2>3, <2>4
<1>3. LandInv /\ RegisterMatchesRecord => DecisionLands
  <2> SUFFICES ASSUME LandInv, RegisterMatchesRecord,
                      pc["poll"] = "publish", verdict # NoAmps, ~unconfirmed
               PROVE  Answers(lastWrite.value) /\ limit = lastWrite.value
    BY DEF DecisionLands
  <2>1. UnderWay
    BY DEF LandInv, Landing
  <2>2. (\A a \in Actors : ~CurrentOnWire(a)) /\ Answers(lastWrite.value)
    BY <2>1 DEF UnderWay
  <2>3. lastWrite.value # NoAmps
    BY <2>2 DEF Answers, NoAmps
  <2> QED
    BY <2>2, <2>3 DEF RegisterMatchesRecord, CurrentOnWire, OnWire
<1> QED
  BY <1>1, <1>2, <1>3, RecordSafety, PTL DEF Spec
=============================================================================
