-------------------------- MODULE ChargerPortProofs -------------------------
(***************************************************************************)
(* WritePath implements ChargerPort, for every control mode, set of        *)
(* callers, set of currents and phase setting.  What the port's wire       *)
(* carries is a function of the program counters and the jobs; it is       *)
(* stated for any of them, so that it can be used before and after a step. *)
(***************************************************************************)
EXTENDS WritePathProofs

WirePCs      == {"writing", "landed"}
WireSet(p)   == {a \in Actors : p[a] \in WirePCs}
ItemOf(p, j) == IF WireSet(p) = {} THEN NoItem ELSE j[CHOOSE a \in WireSet(p) : TRUE]
LandedIn(p)  == \E a \in WireSet(p) : p[a] = "landed"

(* Whoever is about to write, or writes, has a write to make.              *)
JobOK == \A a \in Actors : pc[a] \in {"direct", "writing", "landed"} => job[a] \in QueuedWrite

PortInv == OwnerInv /\ JobOK

(* Whoever is on the wire holds the lock, so it is the only one.           *)
LEMMA WireOf ==
  ASSUME NEW l, NEW p, NEW j, LockOK(l, p), NEW a \in Actors, p[a] \in WirePCs
  PROVE  /\ WireSet(p) = {a}
         /\ ItemOf(p, j) = j[a]
         /\ LandedIn(p) <=> p[a] = "landed"
<1>1. WireSet(p) = {a}
  BY DEF WireSet, LockOK, WirePCs
<1> QED
  BY <1>1 DEF ItemOf, LandedIn

LEMMA WireIdle ==
  ASSUME NEW p, NEW j, \A a \in Actors : p[a] \notin WirePCs
  PROVE  ItemOf(p, j) = NoItem /\ ~LandedIn(p)
BY DEF ItemOf, LandedIn, WireSet

LEMMA NothingIsNoWrite == NoItem \notin QueuedWrite
BY DEF NoItem, QueuedWrite, Registers, Keys

(* The port's actions in these terms.                                      *)
LEMMA IsStutter ==
  ASSUME ItemOf(pc', job') = ItemOf(pc, job), LandedIn(pc') <=> LandedIn(pc),
         UNCHANGED <<limit, record>>
  PROVE  UNCHANGED Port!portVars
BY DEF Port!portVars, ItemOf, LandedIn, WireSet, WirePCs, OnTheWire, OnWire, record

LEMMA PortNothing == Port!NoItem = NoItem
BY DEF Port!NoItem, NoItem, Port!CURRENT, CURRENT

LEMMA IsSend ==
  ASSUME ItemOf(pc, job) = NoItem, ItemOf(pc', job') \in QueuedWrite,
         MayBeSent(ItemOf(pc', job')), LandedIn(pc') <=> LandedIn(pc),
         UNCHANGED <<limit, record>>
  PROVE  Port!Send
BY PortNothing
DEF Port!Send, MayBeSent, ItemOf, LandedIn, WireSet, WirePCs, OnTheWire, OnWire, record

LEMMA IsCarryOut ==
  ASSUME ItemOf(pc, job) # NoItem, ~LandedIn(pc), LandedIn(pc'),
         ItemOf(pc', job') = ItemOf(pc, job), UNCHANGED record,
         limit' = IF ItemOf(pc, job).key = "current_limit" THEN ItemOf(pc, job).value
                  ELSE limit
  PROVE  Port!CarryOut
BY PortNothing DEF Port!CarryOut, Port!IsCurrent, ItemOf, LandedIn, WireSet, WirePCs, OnTheWire,
       OnWire, record

LEMMA IsAcknowledge ==
  ASSUME LandedIn(pc), ItemOf(pc', job') = NoItem, ~LandedIn(pc'), UNCHANGED limit,
         lastWrite' = IF ItemOf(pc, job).key = "current_limit"
                      THEN [value |-> ItemOf(pc, job).value, reason |-> ItemOf(pc, job).reason]
                      ELSE lastWrite,
         unconfirmed' = (unconfirmed /\ ~(ItemOf(pc, job).key = "current_limit"))
  PROVE  Port!Acknowledge
BY PortNothing DEF Port!Acknowledge, Port!IsCurrent, ItemOf, LandedIn, WireSet, WirePCs, OnTheWire,
       OnWire

LEMMA IsGiveUp ==
  ASSUME ItemOf(pc, job) # NoItem, ItemOf(pc', job') = NoItem, ~LandedIn(pc'),
         UNCHANGED <<limit, lastWrite>>,
         unconfirmed' = (unconfirmed \/ ItemOf(pc, job).key = "current_limit")
  PROVE  Port!GiveUp
BY PortNothing
DEF Port!GiveUp, Port!IsCurrent, ItemOf, LandedIn, WireSet, WirePCs, OnTheWire, OnWire

(* The record of an acknowledged write is the port's.                      *)
LEMMA RecordsLimit ==
  ASSUME NEW item, Record(item), unconfirmed \in BOOLEAN
  PROVE  /\ lastWrite' = IF item.key = "current_limit"
                         THEN [value |-> item.value, reason |-> item.reason]
                         ELSE lastWrite
         /\ unconfirmed' = (unconfirmed /\ ~(item.key = "current_limit"))
BY DEF Record, record

(* A step outside the wire: every coroutine stays as it is or is, before   *)
(* and after, not at a write; the charger and the record do not change.    *)
Quiet ==
  /\ \A a \in Actors : \/ pc'[a] = pc[a] /\ job'[a] = job[a]
                       \/ pc[a] \notin WirePCs /\ pc'[a] \notin WirePCs
  /\ UNCHANGED <<limit, record>>

LEMMA QuietIsStutter ==
  ASSUME Quiet
  PROVE  UNCHANGED Port!portVars
<1>1. WireSet(pc') = WireSet(pc)
  BY DEF Quiet, WireSet
<1>2. \A a \in WireSet(pc) : pc'[a] = pc[a] /\ job'[a] = job[a]
  BY DEF Quiet, WireSet
<1>3. ItemOf(pc', job') = ItemOf(pc, job)
  <2>1. CASE WireSet(pc) = {}
    BY <1>1, <2>1 DEF ItemOf
  <2>2. CASE WireSet(pc) # {}
    <3>1. (CHOOSE a \in WireSet(pc) : TRUE) \in WireSet(pc)
      BY <2>2
    <3> QED
      BY <1>1, <1>2, <2>2, <3>1 DEF ItemOf
  <2> QED
    BY <2>1, <2>2
<1>4. LandedIn(pc') <=> LandedIn(pc)
  BY <1>1, <1>2 DEF LandedIn
<1> QED
  BY <1>3, <1>4, IsStutter DEF Quiet


LEMMA PollStepPort ==
  ASSUME PortInv, PollStep
  PROVE  JobOK' /\ (Port!GiveUp \/ UNCHANGED Port!portVars)
<1> USE ActorsKnown
<1>0. /\ JobOK /\ LockOK(lock, pc) /\ TypeOK
      /\ pc \in [Actors -> PCs] /\ job \in [Actors -> QueuedWrite \cup {NoItem}]
      /\ unconfirmed \in BOOLEAN
  BY DEF PortInv, OwnerInv, LockInv, TypeOK
<1>1. CASE PollRead \/ PollReadFails \/ PollPublish
  <2>1. JobOK'
    BY <1>0, <1>1 DEF PollRead, PollReadFails, PollPublish, JobOK
  <2>2. Quiet
    BY <1>0, <1>1
    DEF PollRead, PollReadFails, PollPublish, Quiet, WirePCs, charger, record
  <2> QED
    BY <2>1, <2>2, QuietIsStutter
<1>2. CASE PollDecide
  <2>1. PICK act :
          /\ act # "none" => pc["phase"] = "idle"
          /\ \/ /\ UNCHANGED job
                /\ pc' = [pc EXCEPT !["poll"] = "flush",
                                    !["phase"] = IF act = "none" THEN @ ELSE "queued"]
             \/ /\ act = "automatic"
                /\ pc' = [pc EXCEPT !["poll"] = "flush", !["phase"] = "direct"]
                /\ job' = [job EXCEPT !["phase"] = PhaseWrite]
    BY <1>2 DEF PollDecide, PhaseInProgress
  <2>2. pc["poll"] = "read" /\ UNCHANGED <<limit, record>>
    BY <1>2 DEF PollDecide, charger
  <2>3. JobOK'
    BY <1>0, <2>1, <2>2, WritesTyped DEF JobOK
  <2>4. Quiet
    BY <1>0, <2>1, <2>2 DEF Quiet, WirePCs
  <2> QED
    BY <2>3, <2>4, QuietIsStutter
<1>3. CASE PollCancelled
  <2>1. /\ pc' = [pc EXCEPT !["poll"] = "idle"]
        /\ job' = [job EXCEPT !["poll"] = NoItem]
        /\ UNCHANGED <<limit, lastWrite>>
        /\ Unrecorded("poll")
    BY <1>3 DEF PollCancelled, charger
  <2>2. JobOK'
    BY <1>0, <2>1 DEF JobOK
  <2>3. CASE OnWire("poll")
    <3>1. ItemOf(pc, job) = job["poll"] /\ job["poll"] \in QueuedWrite
      BY <1>0, <2>3, WireOf DEF OnWire, WirePCs, JobOK
    <3>2. \A a \in Actors : pc'[a] \notin WirePCs
      BY <1>0, <2>1, <2>3 DEF OnWire, WirePCs, LockOK
    <3> QED
      BY <1>0, <2>1, <2>2, <2>3, <3>1, <3>2, WireIdle, NothingIsNoWrite, IsGiveUp
      DEF Unrecorded
  <2>4. CASE ~OnWire("poll")
    BY <1>0, <2>1, <2>2, <2>4, QuietIsStutter DEF Quiet, Unrecorded, OnWire, WirePCs, record
  <2> QED
    BY <2>3, <2>4
<1> QED
  BY <1>1, <1>2, <1>3 DEF PollStep

LEMMA KeepalivePort ==
  ASSUME PortInv, KeepaliveDue \/ KeepaliveIteration
  PROVE  JobOK' /\ UNCHANGED Port!portVars
<1> USE ActorsKnown
<1>1. JobOK /\ pc \in [Actors -> PCs]
  BY DEF PortInv, OwnerInv, LockInv, TypeOK
<1>2. JobOK'
  BY <1>1 DEF KeepaliveDue, KeepaliveIteration, Enter, JobOK
<1>3. Quiet
  BY <1>1 DEF KeepaliveDue, KeepaliveIteration, Enter, Quiet, WirePCs, charger, record
<1> QED
  BY <1>2, <1>3, QuietIsStutter

LEMMA UserStepPort ==
  ASSUME PortInv, UserStep
  PROVE  JobOK' /\ UNCHANGED Port!portVars
<1>1. UNCHANGED <<limit, record, pc, job>>
  BY DEF UserStep, PlugOrUnplug, SetMode, PauseOrResume, charger
<1> QED
  BY <1>1, QuietIsStutter DEF PortInv, JobOK, Quiet

LEMMA CallerStepPort ==
  ASSUME PortInv, NEW c \in Callers, CallerStep(c)
  PROVE  JobOK' /\ UNCHANGED Port!portVars
<1> USE ActorsKnown
<1>1. /\ JobOK /\ pc \in [Actors -> PCs] /\ job \in [Actors -> QueuedWrite \cup {NoItem}]
      /\ externalA \in Nat
  BY DEF PortInv, OwnerInv, LockInv, TypeOK
<1>2. /\ pc[c] \in {"idle", "saving_on", "saving_off"} /\ UNCHANGED <<limit, record>>
      /\ \/ \E w \in {"idle", "saving_on", "saving_off"} :
              pc' = [pc EXCEPT ![c] = w] /\ UNCHANGED job
         \/ \E v \in Nat : /\ pc' = [pc EXCEPT ![c] = "direct"]
                           /\ job' = [job EXCEPT ![c] = ExternalWrite(v)]
  <2>1. CASE SetChargingEnabled(c)
    BY <2>1 DEF SetChargingEnabled, charger
  <2>2. CASE SetExternalCurrent(c)
    BY <2>2, ConstantsAssumption DEF SetExternalCurrent, RequestCurrent, Enter, charger
  <2>3. CASE ChargingEnabledSaved(c)
    <3> DEFINE v == IF pc[c] = "saving_off" THEN 0
                    ELSE IF externalA > 0 THEN externalA ELSE MinCurrent
    <3>1. v \in Nat
      BY <1>1, ConstantsAssumption
    <3>2. RequestCurrent(c, v)
      BY <2>3 DEF ChargingEnabledSaved
    <3>3. pc[c] \in {"saving_on", "saving_off"} /\ UNCHANGED <<limit, record>>
      BY <2>3 DEF ChargingEnabledSaved, charger
    <3> HIDE DEF v
    <3> QED
      BY <3>1, <3>2, <3>3 DEF RequestCurrent, Enter
  <2> QED
    BY <2>1, <2>2, <2>3 DEF CallerStep
<1>3. \A v \in Nat : ExternalWrite(v) \in QueuedWrite
  BY WritesTyped
<1>4. JobOK'
  BY <1>1, <1>2, <1>3 DEF JobOK
<1>5. Quiet
  BY <1>1, <1>2 DEF Quiet, WirePCs
<1> QED
  BY <1>4, <1>5, QuietIsStutter

(* One coroutine a leaves the wire: nobody is on it afterwards.            *)
LEMMA OffTheWire ==
  ASSUME LockOK(lock, pc), NEW a \in Actors, pc[a] \in WirePCs,
         NEW w \in PCs \ WirePCs, pc' = [pc EXCEPT ![a] = w]
  PROVE  \A b \in Actors : pc'[b] \notin WirePCs
BY DEF LockOK, WirePCs

(* A flusher or a caller: it sends the write it took, the charger carries  *)
(* it out, the answer arrives or the write is given up.                    *)
LEMMA WriteStepPort ==
  ASSUME PortInv, LockInv', NEW a \in Actors, WriteStep(a)
  PROVE  JobOK' /\ [Port!PortNext]_Port!portVars
<1>0. /\ JobOK /\ LockOK(lock, pc) /\ LockOK(lock', pc') /\ OwnerOK
      /\ pc \in [Actors -> PCs] /\ job \in [Actors -> QueuedWrite \cup {NoItem}]
      /\ queue \in Queues /\ unconfirmed \in BOOLEAN
  BY DEF PortInv, OwnerInv, LockInv, TypeOK
<1>1. ASSUME pc[a] \in {"flush", "direct"}, HoldsLock(a)
      PROVE  \A b \in Actors : pc[b] \notin WirePCs
  BY <1>0, <1>1 DEF HoldsLock, LockOK, WirePCs
<1>2. ASSUME pc[a] \in {"flush", "direct"}, HoldsLock(a), pc'[a] = "writing",
             job'[a] \in QueuedWrite, MayBeSent(job'[a]), UNCHANGED <<limit, record>>
      PROVE  Port!Send
  <2>1. ItemOf(pc, job) = NoItem /\ ~LandedIn(pc)
    BY <1>1, <1>2, WireIdle
  <2>2. ItemOf(pc', job') = job'[a] /\ ~LandedIn(pc')
    BY <1>0, <1>2, WireOf DEF WirePCs
  <2> QED
    BY <1>2, <2>1, <2>2, IsSend
<1>3. CASE FlushNext(a) /\ Pending(queue) = {}
  <2>1. /\ \E w \in {"publish", "idle"} : pc' = [pc EXCEPT ![a] = w]
        /\ pc[a] = "flush" /\ UNCHANGED <<limit, record, job>>
    BY <1>3 DEF FlushNext, charger
  <2> QED
    BY <1>0, <2>1, QuietIsStutter DEF JobOK, Quiet, WirePCs
<1>4. CASE FlushNext(a) /\ Pending(queue) # {}
  <2> DEFINE k == MostUrgent(queue)
  <2>1. k \in Keys /\ queue[k] \in QueuedWrite
    <3>1. k \in Pending(queue)
      BY <1>0, <1>4, MostUrgentPending
    <3> QED
      BY <1>0, <3>1 DEF Pending, Queues
  <2>2. MayBeSent(queue[k])
    BY <1>0, <2>1, NothingIsNoWrite DEF OwnerOK, SendableQueue, Sendable
  <2>3. /\ pc[a] = "flush" /\ HoldsLock(a) /\ UNCHANGED <<limit, record>>
        /\ pc' = [pc EXCEPT ![a] = "writing"] /\ job' = [job EXCEPT ![a] = queue[k]]
    BY <1>4 DEF FlushNext, charger
  <2> HIDE DEF k
  <2>4. JobOK'
    BY <1>0, <2>1, <2>3 DEF JobOK
  <2>5. job'[a] \in QueuedWrite /\ MayBeSent(job'[a])
    BY <1>0, <2>1, <2>2, <2>3
  <2>6. Port!Send
    BY <1>0, <1>2, <2>3, <2>5
  <2> QED
    BY <2>4, <2>6 DEF Port!PortNext
<1>5. CASE DirectStart(a)
  <2>1. /\ pc[a] = "direct" /\ HoldsLock(a) /\ UNCHANGED <<limit, record, job>>
        /\ pc' = [pc EXCEPT ![a] = "writing"]
    BY <1>5 DEF DirectStart, charger
  <2>2. job'[a] \in QueuedWrite
    BY <1>0, <2>1 DEF JobOK
  <2>3. MayBeSent(job'[a])
    BY <1>0, <2>1, <2>2, NothingIsNoWrite DEF OwnerOK, Sendable
  <2>4. JobOK'
    BY <1>0, <2>1 DEF JobOK
  <2>5. Port!Send
    BY <1>0, <1>2, <2>1, <2>2, <2>3
  <2> QED
    BY <2>4, <2>5 DEF Port!PortNext
<1>6. CASE Land(a)
  <2>1. /\ pc[a] = "writing" /\ pc' = [pc EXCEPT ![a] = "landed"]
        /\ UNCHANGED <<record, job>>
        /\ limit' = IF job[a].key = "current_limit" THEN job[a].value ELSE limit
    BY <1>6 DEF Land
  <2>2. ItemOf(pc, job) = job[a] /\ ~LandedIn(pc) /\ job[a] \in QueuedWrite
    BY <1>0, <2>1, WireOf DEF WirePCs, JobOK
  <2>3. ItemOf(pc', job') = job[a] /\ LandedIn(pc')
    <3>1. pc'[a] = "landed" /\ job'[a] = job[a]
      BY <1>0, <2>1
    <3>2. pc'[a] \in WirePCs
      BY <3>1 DEF WirePCs
    <3> QED
      BY <1>0, <3>1, <3>2, WireOf
  <2>4. JobOK'
    BY <1>0, <2>1 DEF JobOK
  <2>5. Port!CarryOut
    BY <2>1, <2>2, <2>3, NothingIsNoWrite, IsCarryOut
  <2> QED
    BY <2>4, <2>5 DEF Port!PortNext
<1>7. CASE FlushWriteOk(a) \/ CallerWriteOk(a)
  <2>1. PICK w \in PCs \ WirePCs :
          w \in {"flush", "idle"} /\ pc' = [pc EXCEPT ![a] = w]
    BY <1>7 DEF FlushWriteOk, CallerWriteOk, WirePCs, PCs
  <2>2. /\ pc[a] = "landed" /\ job' = [job EXCEPT ![a] = NoItem]
        /\ Record(job[a]) /\ UNCHANGED limit
    BY <1>7 DEF FlushWriteOk, CallerWriteOk, charger
  <2>3. ItemOf(pc, job) = job[a] /\ LandedIn(pc)
    BY <1>0, <2>2, WireOf DEF WirePCs
  <2>4. ItemOf(pc', job') = NoItem /\ ~LandedIn(pc')
    BY <1>0, <2>1, <2>2, OffTheWire, WireIdle DEF WirePCs
  <2>5. JobOK'
    BY <1>0, <2>1, <2>2 DEF JobOK, WirePCs
  <2>6. Port!Acknowledge
    BY <1>0, <2>2, <2>3, <2>4, IsAcknowledge, RecordsLimit
  <2> QED
    BY <2>5, <2>6 DEF Port!PortNext
<1>8. CASE WriteFails(a)
  <2>1. /\ pc[a] \in WirePCs /\ pc' = [pc EXCEPT ![a] = "idle"]
        /\ job' = [job EXCEPT ![a] = NoItem]
        /\ Unrecorded(a) /\ UNCHANGED <<limit, lastWrite>>
    BY <1>8 DEF WriteFails, OnWire, WirePCs, charger
  <2>2. ItemOf(pc, job) = job[a] /\ job[a] \in QueuedWrite
    BY <1>0, <2>1, WireOf DEF WirePCs, JobOK
  <2>3. ItemOf(pc', job') = NoItem /\ ~LandedIn(pc')
    BY <1>0, <2>1, OffTheWire, WireIdle DEF WirePCs, PCs
  <2>4. JobOK'
    BY <1>0, <2>1 DEF JobOK
  <2>5. Port!GiveUp
    BY <2>1, <2>2, <2>3, NothingIsNoWrite, IsGiveUp DEF Unrecorded, OnWire, WirePCs
  <2> QED
    BY <2>4, <2>5 DEF Port!PortNext
<1> QED
  BY <1>3, <1>4, <1>5, <1>6, <1>7, <1>8 DEF WriteStep

(* The phase task writes register 405 and the deferred current itself.     *)
LEMMA PhaseStepPort ==
  ASSUME PortInv, LockInv', PhaseStep
  PROVE  JobOK' /\ [Port!PortNext]_Port!portVars
<1> USE ActorsKnown
<1>0. /\ JobOK /\ LockOK(lock, pc) /\ pendingA \in Amps
      /\ pc \in [Actors -> PCs] /\ job \in [Actors -> QueuedWrite \cup {NoItem}]
      /\ unconfirmed \in BOOLEAN
  BY DEF PortInv, OwnerInv, LockInv, TypeOK
<1>1. ASSUME pc["phase"] \notin WirePCs, UNCHANGED <<limit, record>>,
             \/ /\ UNCHANGED job
                /\ \E w \in {"queued", "fetch", "pend", "refresh", "idle"} :
                     pc' = [pc EXCEPT !["phase"] = w]
             \/ /\ pc' = [pc EXCEPT !["phase"] = "direct"]
                /\ \E item \in QueuedWrite : job' = [job EXCEPT !["phase"] = item]
      PROVE  JobOK' /\ [Port!PortNext]_Port!portVars
  <2>1. JobOK'
    BY <1>0, <1>1 DEF JobOK
  <2>2. Quiet
    BY <1>0, <1>1 DEF Quiet, WirePCs
  <2> QED
    BY <2>1, <2>2, QuietIsStutter
<1>2. CASE (\E kind \in PhaseRequests : RequestPhase(kind)) \/ RestoreRead \/ PhaseTaskEnds
  <2>1. /\ pc["phase"] \notin WirePCs /\ UNCHANGED <<limit, record, job>>
        /\ \E w \in {"queued", "fetch", "idle"} : pc' = [pc EXCEPT !["phase"] = w]
    BY <1>2
    DEF RequestPhase, RestoreRead, PhaseTaskEnds, PhaseInProgress, WirePCs, charger
  <2> QED
    BY <1>1, <2>1
<1>3. CASE SwitchStart \/ RestoreDecide
  <2>1. /\ pc["phase"] \notin WirePCs /\ UNCHANGED <<limit, record>>
        /\ \E ok \in BOOLEAN : RequestRegister(ok)
    BY <1>3 DEF SwitchStart, RestoreDecide, WirePCs, charger
  <2>2. \/ /\ UNCHANGED job
           /\ pc' = [pc EXCEPT !["phase"] = "pend"]
        \/ /\ pc' = [pc EXCEPT !["phase"] = "direct"]
           /\ job' = [job EXCEPT !["phase"] = PhaseWrite]
    BY <2>1 DEF RequestRegister, Enter
  <2> QED
    BY <1>1, <2>1, <2>2, WritesTyped
<1>4. CASE FlushPending
  <2>1. /\ pc["phase"] \notin WirePCs /\ UNCHANGED <<limit, record>>
        /\ \/ /\ UNCHANGED job
              /\ \E w \in {"pend", "refresh"} : pc' = [pc EXCEPT !["phase"] = w]
           \/ /\ pendingA # NoAmps
              /\ pc' = [pc EXCEPT !["phase"] = "direct"]
              /\ job' = [job EXCEPT !["phase"] = ExternalWrite(pendingA)]
    BY <1>4 DEF FlushPending, AfterPending, Enter, WirePCs, charger
  <2>2. pendingA # NoAmps => ExternalWrite(pendingA) \in QueuedWrite
    BY <1>0, WritesTyped DEF Amps
  <2> QED
    BY <1>1, <2>1, <2>2
<1>5. CASE PhaseRegisterOk \/ PhaseCurrentOk \/ PhaseWriteFails
  <2>1. /\ pc["phase"] \in WirePCs /\ job' = [job EXCEPT !["phase"] = NoItem]
        /\ UNCHANGED limit
    BY <1>5 DEF PhaseRegisterOk, PhaseCurrentOk, PhaseWriteFails, OnWire, WirePCs, charger
  <2>2. PICK w \in {"pend", "refresh", "idle"} : pc' = [pc EXCEPT !["phase"] = w]
    BY <1>5 DEF PhaseRegisterOk, PhaseCurrentOk, PhaseWriteFails, AfterPending
  <2>3. ItemOf(pc, job) = job["phase"] /\ job["phase"] \in QueuedWrite
    BY <1>0, <2>1, WireOf DEF WirePCs, JobOK
  <2>4. ItemOf(pc', job') = NoItem /\ ~LandedIn(pc')
    BY <1>0, <2>1, <2>2, OffTheWire, WireIdle DEF WirePCs, PCs
  <2>5. JobOK'
    BY <1>0, <2>1, <2>2 DEF JobOK
  <2>6. CASE PhaseRegisterOk \/ PhaseCurrentOk
    <3>1. pc["phase"] = "landed"
      BY <2>6 DEF PhaseRegisterOk, PhaseCurrentOk
    <3>2. LandedIn(pc)
      BY <1>0, <3>1, WireOf DEF WirePCs
    <3>3. /\ lastWrite' = IF job["phase"].key = "current_limit"
                          THEN [value |-> job["phase"].value, reason |-> job["phase"].reason]
                          ELSE lastWrite
          /\ unconfirmed' = (unconfirmed /\ ~(job["phase"].key = "current_limit"))
      <4>1. CASE PhaseRegisterOk
        <5>1. job["phase"].key # "current_limit" /\ UNCHANGED <<lastWrite, unconfirmed>>
          BY <4>1 DEF PhaseRegisterOk, record
        <5> QED
          BY <1>0, <5>1
      <4>2. CASE PhaseCurrentOk
        BY <1>0, <4>2, RecordsLimit DEF PhaseCurrentOk
      <4> QED
        BY <2>6, <4>1, <4>2
    <3>4. Port!Acknowledge
      BY <2>1, <2>3, <2>4, <3>2, <3>3, IsAcknowledge
    <3> QED
      BY <2>5, <3>4 DEF Port!PortNext
  <2>7. CASE PhaseWriteFails
    <3>1. Unrecorded("phase") /\ UNCHANGED lastWrite /\ OnWire("phase")
      BY <2>7 DEF PhaseWriteFails
    <3>2. Port!GiveUp
      BY <2>1, <2>3, <2>4, <3>1, NothingIsNoWrite, IsGiveUp DEF Unrecorded
    <3> QED
      BY <2>5, <3>2 DEF Port!PortNext
  <2> QED
    BY <1>5, <2>6, <2>7
<1> QED
  BY <1>2, <1>3, <1>4, <1>5 DEF PhaseStep, PhaseTaskStep

(* Every step keeps the invariant and is a step of the port or none.       *)
LEMMA StepPort ==
  ASSUME PortInv, [Next]_vars
  PROVE  PortInv' /\ [Port!PortNext]_Port!portVars
<1>1. OwnerInv' /\ LockInv'
  BY StepOwner DEF PortInv, OwnerInv
<1>2. CASE UNCHANGED vars
  <2>1. UNCHANGED <<limit, record, pc, job>>
    BY <1>2 DEF vars, charger
  <2> QED
    BY <1>1, <2>1, QuietIsStutter DEF PortInv, JobOK, Quiet
<1>3. CASE Next
  <2>1. JobOK' /\ [Port!PortNext]_Port!portVars
    BY <1>1, <1>3, PollStepPort, KeepalivePort, PhaseStepPort, CallerStepPort,
       WriteStepPort, UserStepPort DEF Next, Port!PortNext
  <2> QED
    BY <1>1, <2>1 DEF PortInv
<1> QED
  BY <1>2, <1>3

(* The initial states map to the port's.                                   *)
LEMMA InitPort == Init => PortInv /\ Port!PortInit
<1> SUFFICES ASSUME Init PROVE PortInv /\ Port!PortInit
  OBVIOUS
<1>1. OwnerInv /\ limit \in Nat
  BY InitOwner DEF OwnerInv, LockInv, TypeOK
<1>2. pc = [a \in Actors |-> "idle"]
      /\ lastWrite = [value |-> -1, reason |-> "none"] /\ unconfirmed = FALSE
  BY DEF Init, NoAmps
<1>3. JobOK
  BY <1>2 DEF JobOK
<1>4. ItemOf(pc, job) = NoItem /\ ~LandedIn(pc)
  BY <1>2, WireIdle DEF WirePCs
<1> QED
  BY <1>1, <1>2, <1>3, <1>4, PortNothing
  DEF PortInv, Port!PortInit, ItemOf, LandedIn, WireSet, WirePCs, OnTheWire, OnWire

(* The write path implements the port: every step of every coroutine is    *)
(* one step of the port or none, for any number of callers and currents.   *)
THEOREM PortRefinement == Spec => PortIsSerial
BY InitPort, StepPort, PTL DEF Spec, PortIsSerial, Port!PortSpec
=============================================================================
