------------------------- MODULE ModbusClientProofs -------------------------
(***************************************************************************)
(* Type correctness of ModbusClient, that at most one connection is open,  *)
(* and that no request is disturbed, for any number of coroutines and any  *)
(* number of retries.                                                      *)
(***************************************************************************)
EXTENDS ModbusClient, TLAPS

Wire == {"dial", "sent", "landed"}

(* Whoever uses the network holds the lock, connects only without a        *)
(* connection and sends only with one.                                     *)
WireOK ==
  \A a \in Tasks : pc[a] \in Wire =>
    /\ HoldsLock(a)
    /\ IF pc[a] = "dial" THEN client # "open" ELSE client # "none"

(* What the count of the attempts rests on: a new request starts from      *)
(* nothing, and a reconnect is followed by an attempt that is allowed.     *)
CountOK ==
  \A a \in Tasks :
    /\ pc[a] = "idle" => attempt[a] = 0 /\ ~retrying[a]
    /\ retrying[a] => attempt[a] < Retries

ClientInv == TypeOK /\ OneConnection /\ WireOK /\ CountOK

-----------------------------------------------------------------------------
(* The lock.  Joining it, and leaving it by its holder, keep its type; a   *)
(* coroutine that joins does not move the holder.                          *)

LEMMA TailType ==
  ASSUME TypeOK, lock # <<>>
  PROVE  Tail(lock) \in Seq(Tasks)
  BY DEF TypeOK

LEMMA TakesLock ==
  ASSUME NEW a \in Tasks, NEW l \in Seq(Tasks), Takes(a, l)
  PROVE  /\ lock' \in Seq(Tasks) /\ running' \in Tasks \cup {"loop"}
         /\ lock' # <<>>
         /\ l # <<>> => Head(lock') = Head(l)
<1>1. lock' = Append(l, a) /\ running' \in Tasks \cup {"loop"}
  BY DEF Takes
<1>. QED  BY <1>1

LEMMA WithoutType ==
  ASSUME TypeOK, NEW i \in DOMAIN lock
  PROVE  /\ Without(i) \in Seq(Tasks)
         /\ i # 1 => Without(i) # <<>> /\ Head(Without(i)) = Head(lock)
<1>. DEFINE n == Len(lock) - 1
<1>1. n \in Nat /\ i \in 1..(n + 1) /\ \A j \in 1..(n + 1) : lock[j] \in Tasks
  BY DEF TypeOK
<1>2. \A j \in 1..n : (IF j < i THEN lock[j] ELSE lock[j + 1]) \in Tasks
  BY <1>1
<1>3. Without(i) \in [1..n -> Tasks]
  BY <1>2 DEF Without
<1>4. Without(i) \in Seq(Tasks) /\ Len(Without(i)) = n
  BY <1>1, <1>3
<1>5. ASSUME i # 1
      PROVE  Without(i) # <<>> /\ Head(Without(i)) = Head(lock)
  <2>1. 1 \in 1..n /\ 1 < i
    BY <1>1, <1>5
  <2>2. Without(i)[1] = lock[1]
    BY <2>1 DEF Without
  <2>. QED  BY <1>1, <1>4, <2>1, <2>2 DEF TypeOK
<1>. QED  BY <1>4, <1>5

-----------------------------------------------------------------------------
(* The three ways a coroutine that holds the lock goes on: its call is     *)
(* over, it waits for the lock again, or it stays at the network.  The     *)
(* client may change under it, because nobody else is at the network.      *)

ClientOK ==
  /\ client \in {"none", "open", "lost"} /\ sockets \in Nat
  /\ OneConnection

LEMMA HolderIsAlone ==
  ASSUME ClientInv, NEW a \in Tasks, HoldsLock(a)
  PROVE  \A b \in Tasks \ {a} : pc[b] \notin Wire
  BY DEF ClientInv, WireOK, HoldsLock

LEMMA FinishKeeps ==
  ASSUME ClientInv, NEW a \in Tasks, HoldsLock(a), ClientOK', Finish(a)
  PROVE  ClientInv'
<1>1. \A b \in Tasks : pc'[b] \notin Wire
  BY HolderIsAlone DEF Finish, Goes, ClientInv, TypeOK, Wire
<1>2. lock' \in Seq(Tasks) /\ running' = "loop"
  BY TailType DEF HoldsLock, Finish, Releases, ClientInv
<1>3. pc' \in [Tasks -> PCs] /\ attempt' \in [Tasks -> 0..Retries]
      /\ retrying' \in [Tasks -> BOOLEAN]
  BY ClientConstants DEF Finish, Goes, PCs, ClientInv, TypeOK
<1>4. CountOK'
  BY ClientConstants DEF CountOK, Finish, Goes, ClientInv, TypeOK
<1>. QED  BY <1>1, <1>2, <1>3, <1>4 DEF ClientInv, ClientOK, TypeOK, WireOK

LEMMA RequeueKeeps ==
  ASSUME ClientInv, NEW a \in Tasks, HoldsLock(a), ClientOK', Requeue(a),
         NEW w \in PCs \ (Wire \cup {"idle"}), Goes(a, w),
         NEW n \in 0..Retries, attempt' = [attempt EXCEPT ![a] = n],
         NEW r \in BOOLEAN, retrying' = [retrying EXCEPT ![a] = r],
         r => n < Retries
  PROVE  ClientInv'
<1>1. \A b \in Tasks : pc'[b] \notin Wire
  BY HolderIsAlone DEF Goes, ClientInv, TypeOK
<1>2. lock' \in Seq(Tasks) /\ running' \in Tasks \cup {"loop"}
  BY TailType, TakesLock DEF HoldsLock, Requeue, ClientInv
<1>3. pc' \in [Tasks -> PCs] /\ attempt' \in [Tasks -> 0..Retries]
      /\ retrying' \in [Tasks -> BOOLEAN]
  BY DEF Goes, ClientInv, TypeOK
<1>4. CountOK'
  BY DEF CountOK, Goes, ClientInv, TypeOK
<1>. QED  BY <1>1, <1>2, <1>3, <1>4 DEF ClientInv, ClientOK, TypeOK, WireOK

LEMMA AgainKeeps ==
  ASSUME ClientInv, NEW a \in Tasks, HoldsLock(a), ClientOK', Again(a), retrying[a]
  PROVE  ClientInv'
<1>1. attempt[a] + 1 \in 0..Retries
  BY ClientConstants DEF ClientInv, CountOK, TypeOK
<1>2. Attempted(client') \in PCs \ (Wire \cup {"idle"})
  BY DEF Attempted, PCs, Wire
<1>. QED  BY <1>1, <1>2, RequeueKeeps DEF Again, NextAttempt

LEMMA ReconnectedKeeps ==
  ASSUME ClientInv, NEW a \in Tasks, HoldsLock(a), ClientOK', Reconnected(a),
         retrying[a]
  PROVE  ClientInv'
  BY FinishKeeps, AgainKeeps DEF Reconnected

LEMMA AttemptFailsKeeps ==
  ASSUME ClientInv, NEW a \in Tasks, HoldsLock(a), ClientOK', AttemptFails(a)
  PROVE  ClientInv'
<1>1. CASE LastAttempt(a)
  BY <1>1, FinishKeeps DEF AttemptFails
<1>2. CASE ~LastAttempt(a)
  <2>1. attempt[a] \in 0..Retries /\ attempt[a] < Retries
    BY <1>2, ClientConstants DEF LastAttempt, ClientInv, TypeOK
  <2>2. attempt' = [attempt EXCEPT ![a] = attempt[a]]
    BY <1>2 DEF AttemptFails, ClientInv, TypeOK
  <2>. QED  BY <1>2, <2>1, <2>2, RequeueKeeps DEF AttemptFails, PCs, Wire
<1>. QED  BY <1>1, <1>2

-----------------------------------------------------------------------------
(* Joining the lock from outside, and losing or closing a connection.      *)

LEMMA JoinKeeps ==
  ASSUME ClientInv, NEW a \in Tasks, pc[a] \notin Wire, Takes(a, lock),
         UNCHANGED <<client, sockets>>,
         NEW w \in PCs \ (Wire \cup {"idle"}), Goes(a, w),
         attempt' \in [Tasks -> 0..Retries], retrying' \in [Tasks -> BOOLEAN],
         CountOK'
  PROVE  ClientInv'
<1>1. /\ lock' \in Seq(Tasks) /\ running' \in Tasks \cup {"loop"} /\ lock' # <<>>
      /\ lock # <<>> => Head(lock') = Head(lock)
  BY TakesLock DEF ClientInv, TypeOK
<1>2. pc' \in [Tasks -> PCs] /\ pc'[a] \notin Wire
      /\ \A b \in Tasks \ {a} : pc'[b] = pc[b]
  BY DEF Goes, ClientInv, TypeOK
<1>3. WireOK'
  BY <1>1, <1>2 DEF WireOK, HoldsLock, ClientInv
<1>. QED  BY <1>1, <1>2, <1>3 DEF ClientInv, TypeOK, OneConnection

LEMMA DisconnectOK ==
  ASSUME ClientInv, Disconnect
  PROVE  ClientOK'
  BY DEF ClientInv, TypeOK, OneConnection, ClientOK, Disconnect

LEMMA SameOK ==
  ASSUME ClientInv, UNCHANGED <<client, sockets>>
  PROVE  ClientOK'
  BY DEF ClientInv, TypeOK, OneConnection, ClientOK

(* A coroutine leaves the lock for the delay of reconnect.                 *)
LEMMA LeaveKeeps ==
  ASSUME ClientInv, NEW a \in Tasks, HoldsLock(a), ClientOK', Releases,
         Goes(a, "sleep"), pc[a] # "idle", UNCHANGED <<attempt, retrying>>
  PROVE  ClientInv'
<1>1. \A b \in Tasks : pc'[b] \notin Wire
  BY HolderIsAlone DEF Goes, ClientInv, TypeOK, Wire
<1>2. lock' \in Seq(Tasks) /\ running' = "loop"
  BY TailType DEF HoldsLock, Releases, ClientInv
<1>3. pc' \in [Tasks -> PCs]
  BY DEF Goes, PCs, ClientInv, TypeOK
<1>4. CountOK'
  BY DEF CountOK, Goes, ClientInv, TypeOK
<1>. QED  BY <1>1, <1>2, <1>3, <1>4 DEF ClientInv, ClientOK, TypeOK, WireOK

(* The holder goes to the network, or on at it, and keeps the lock.        *)
LEMMA WireKeeps ==
  ASSUME ClientInv, NEW a \in Tasks, HoldsLock(a), pc[a] # "idle",
         NEW w \in Wire, Goes(a, w),
         IF w = "dial" THEN client # "open" ELSE client # "none",
         UNCHANGED lock, running' = "loop",
         UNCHANGED <<client, sockets, attempt, retrying>>
  PROVE  ClientInv'
<1>1. \A b \in Tasks \ {a} : pc'[b] \notin Wire
  BY HolderIsAlone DEF Goes, ClientInv, TypeOK
<1>2. pc' \in [Tasks -> PCs] /\ pc'[a] = w
  BY DEF Goes, PCs, Wire, ClientInv, TypeOK
<1>3. WireOK'
  BY <1>1, <1>2 DEF WireOK, HoldsLock
<1>4. CountOK'
  BY DEF CountOK, Goes, Wire, ClientInv, TypeOK
<1>. QED  BY <1>2, <1>3, <1>4 DEF ClientInv, TypeOK, OneConnection

(* A coroutine that has come to the lock for a request, connected or not,  *)
(* asks for it again.                                                      *)
LEMMA RequestKeeps ==
  ASSUME ClientInv, NEW a \in Tasks, HoldsLock(a), ClientOK', Requeue(a),
         Goes(a, "request"), UNCHANGED <<attempt, retrying>>
  PROVE  ClientInv'
<1>1. attempt' = [attempt EXCEPT ![a] = attempt[a]] /\ attempt[a] \in 0..Retries
  BY DEF ClientInv, TypeOK
<1>2. retrying' = [retrying EXCEPT ![a] = retrying[a]] /\ retrying[a] \in BOOLEAN
  BY DEF ClientInv, TypeOK
<1>3. retrying[a] => attempt[a] < Retries
  BY DEF ClientInv, CountOK
<1>4. "request" \in PCs \ (Wire \cup {"idle"})
  BY DEF PCs, Wire
<1>. QED  BY <1>1, <1>2, <1>3, <1>4, RequeueKeeps

LEMMA CancelledKeeps ==
  ASSUME ClientInv, NEW a \in Tasks, Cancelled(a)
  PROVE  ClientInv'
<1>1. /\ pc' \in [Tasks -> PCs] /\ pc'[a] = "idle"
      /\ \A b \in Tasks \ {a} : pc'[b] = pc[b]
  BY DEF Cancelled, Goes, PCs, ClientInv, TypeOK
<1>2. attempt' \in [Tasks -> 0..Retries] /\ retrying' \in [Tasks -> BOOLEAN]
  BY ClientConstants DEF Cancelled, ClientInv, TypeOK
<1>3. CountOK'
  BY <1>1, ClientConstants DEF CountOK, Cancelled, ClientInv, TypeOK
<1>4. lock' \in Seq(Tasks) /\ WireOK'
  <2>1. CASE UNCHANGED lock
    BY <1>1, <2>1 DEF WireOK, HoldsLock, Wire, Cancelled, ClientInv, TypeOK
  <2>2. CASE \E i \in DOMAIN lock : lock[i] = a /\ lock' = Without(i)
    <3>1. PICK i \in DOMAIN lock : lock[i] = a /\ lock' = Without(i)
      BY <2>2
    <3>2. lock' \in Seq(Tasks)
          /\ (i # 1 => lock' # <<>> /\ Head(lock') = Head(lock))
      BY <3>1, WithoutType DEF ClientInv
    <3>3. CASE i = 1
      <4>1. HoldsLock(a)
        BY <3>1, <3>3 DEF HoldsLock, ClientInv, TypeOK
      <4>2. \A b \in Tasks : pc'[b] \notin Wire
        BY <1>1, <4>1, HolderIsAlone DEF Wire
      <4>. QED  BY <3>2, <4>2 DEF WireOK
    <3>4. CASE i # 1
      BY <1>1, <3>2, <3>4 DEF WireOK, HoldsLock, Wire, Cancelled, ClientInv
    <3>. QED  BY <3>3, <3>4
  <2>. QED  BY <2>1, <2>2 DEF Cancelled
<1>. QED
  BY <1>1, <1>2, <1>3, <1>4 DEF Cancelled, ClientInv, TypeOK, OneConnection

-----------------------------------------------------------------------------
LEMMA InitOK == Init => ClientInv
<1>. SUFFICES ASSUME Init  PROVE ClientInv
  OBVIOUS
<1>1. TypeOK
  BY ClientConstants DEF Init, TypeOK, PCs
<1>2. OneConnection /\ WireOK /\ CountOK
  BY ClientConstants DEF Init, OneConnection, WireOK, CountOK, Wire
<1>. QED  BY <1>1, <1>2 DEF ClientInv

LEMMA StepOK == ClientInv /\ [Next]_vars => ClientInv'
<1>. SUFFICES ASSUME ClientInv, [Next]_vars  PROVE ClientInv'
  OBVIOUS
<1>. USE DEF ClientInv
<1>1. ASSUME NEW a \in Tasks, StartRequest(a)  PROVE ClientInv'
  <2>1. Attempted(client) \in PCs \ (Wire \cup {"idle"})
    BY DEF Attempted, PCs, Wire
  <2>2. attempt' \in [Tasks -> 0..Retries] /\ retrying' \in [Tasks -> BOOLEAN]
    BY <1>1, ClientConstants DEF StartRequest, TypeOK
  <2>3. CountOK'
    BY <1>1, <2>1 DEF StartRequest, Goes, CountOK, TypeOK
  <2>. QED  BY <1>1, <2>1, <2>2, <2>3, JoinKeeps DEF StartRequest, Wire
<1>2. ASSUME NEW a \in Tasks, Send(a)  PROVE ClientInv'
  <2>1. CASE client = "none"
    BY <1>2, <2>1, SameOK, FinishKeeps DEF Send
  <2>2. CASE client # "none"
    BY <1>2, <2>2, WireKeeps DEF Send, Holds, Wire
  <2>. QED  BY <2>1, <2>2
<1>3. ASSUME NEW a \in Tasks, CarryOut(a)  PROVE ClientInv'
  <2>1. HoldsLock(a) /\ client # "none"
    BY <1>3 DEF CarryOut, WireOK, Wire
  <2>2. running' = "loop"
    BY <1>3 DEF CarryOut, LoopFree
  <2>. QED  BY <1>3, <2>1, <2>2, WireKeeps DEF CarryOut, Wire
<1>4. ASSUME NEW a \in Tasks, Answer(a)  PROVE ClientInv'
  <2>1. HoldsLock(a)
    BY <1>4 DEF Answer, WireOK, Wire
  <2>. QED  BY <1>4, <2>1, SameOK, FinishKeeps DEF Answer
<1>5. ASSUME NEW a \in Tasks, RequestFails(a)  PROVE ClientInv'
  <2>1. HoldsLock(a)
    BY <1>5 DEF RequestFails, WireOK, Wire
  <2>. QED  BY <1>5, <2>1, SameOK, AttemptFailsKeeps DEF RequestFails
<1>6. ASSUME NEW a \in Tasks, Connect(a)  PROVE ClientInv'
  <2>1. CASE ~AlreadyConnected
    BY <1>6, <2>1, WireKeeps DEF Connect, AlreadyConnected, Holds, Wire
  <2>2. CASE AlreadyConnected /\ retrying[a]
    BY <1>6, <2>2, SameOK, ReconnectedKeeps DEF Connect
  <2>3. CASE AlreadyConnected /\ ~retrying[a]
    BY <1>6, <2>3, SameOK, RequestKeeps DEF Connect
  <2>. QED  BY <2>1, <2>2, <2>3
<1>7. ASSUME NEW a \in Tasks, Dialled(a)  PROVE ClientInv'
  <2>1. HoldsLock(a) /\ client # "open"
    BY <1>7 DEF Dialled, WireOK, Wire
  <2>2. ClientOK'
    BY <1>7, <2>1 DEF Dialled, OneConnection, ClientOK, TypeOK
  <2>3. CASE retrying[a]
    BY <1>7, <2>1, <2>2, <2>3, ReconnectedKeeps DEF Dialled
  <2>4. CASE ~retrying[a]
    BY <1>7, <2>1, <2>2, <2>4, RequestKeeps DEF Dialled
  <2>. QED  BY <2>3, <2>4
<1>8. ASSUME NEW a \in Tasks, DialFails(a)  PROVE ClientInv'
  <2>1. HoldsLock(a)
    BY <1>8 DEF DialFails, WireOK, Wire
  <2>2. ClientOK'
    BY <1>8, SameOK DEF DialFails
  <2>. QED  BY <1>8, <2>1, <2>2, ReconnectedKeeps, AttemptFailsKeeps DEF DialFails
<1>9. ASSUME NEW a \in Tasks, StartReconnect(a)  PROVE ClientInv'
  <2>1. retrying' = [retrying EXCEPT ![a] = TRUE] /\ attempt' = attempt
        /\ attempt[a] = 0 /\ pc' = [pc EXCEPT ![a] = "drop"]
    BY <1>9 DEF StartReconnect, CountOK, Goes
  <2>2. attempt' \in [Tasks -> 0..Retries] /\ retrying' \in [Tasks -> BOOLEAN]
    BY <2>1 DEF TypeOK
  <2>3. CountOK'
    BY <2>1, ClientConstants DEF CountOK, TypeOK
  <2>4. "drop" \in PCs \ (Wire \cup {"idle"}) /\ "idle" \notin Wire
    BY DEF PCs, Wire
  <2>. QED  BY <1>9, <2>2, <2>3, <2>4, JoinKeeps DEF StartReconnect
<1>10. ASSUME NEW a \in Tasks, Drop(a)  PROVE ClientInv'
  BY <1>10, DisconnectOK, LeaveKeeps DEF Drop, MayDrop
<1>11. ASSUME NEW a \in Tasks, Wake(a)  PROVE ClientInv'
  <2>1. attempt' \in [Tasks -> 0..Retries] /\ retrying' \in [Tasks -> BOOLEAN]
    BY <1>11 DEF Wake, TypeOK
  <2>2. CountOK'
    BY <1>11 DEF Wake, Goes, CountOK, TypeOK
  <2>3. "connect" \in PCs \ (Wire \cup {"idle"}) /\ "sleep" \notin Wire
    BY DEF PCs, Wire
  <2>. QED  BY <1>11, <2>1, <2>2, <2>3, JoinKeeps DEF Wake
<1>12. ASSUME NEW a \in Tasks, Cancelled(a)  PROVE ClientInv'
  BY <1>12, CancelledKeeps
<1>13. ASSUME StartClose  PROVE ClientInv'
  <2>1. "shutdown" \in Tasks /\ "close" \in PCs \ (Wire \cup {"idle"}) /\ "idle" \notin Wire
    BY DEF Tasks, PCs, Wire
  <2>2. attempt' \in [Tasks -> 0..Retries] /\ retrying' \in [Tasks -> BOOLEAN]
    BY <1>13 DEF StartClose, TypeOK
  <2>3. CountOK'
    BY <1>13, <2>1 DEF StartClose, Goes, CountOK, TypeOK
  <2>. QED  BY <1>13, <2>1, <2>2, <2>3, JoinKeeps DEF StartClose
<1>14. ASSUME Close  PROVE ClientInv'
  BY <1>14, DisconnectOK, FinishKeeps DEF Close, Tasks
<1>15. ASSUME ConnectionLost  PROVE ClientInv'
  BY <1>15 DEF ConnectionLost, TypeOK, OneConnection, WireOK, CountOK, HoldsLock
<1>16. CASE UNCHANGED vars
  BY <1>16 DEF vars, TypeOK, OneConnection, WireOK, CountOK, HoldsLock
<1>. QED
  BY <1>1, <1>2, <1>3, <1>4, <1>5, <1>6, <1>7, <1>8, <1>9, <1>10, <1>11, <1>12,
     <1>13, <1>14, <1>15, <1>16 DEF Next, TaskStep, Proceeds

LEMMA ClientInvHolds == Spec => []ClientInv
<1>. QED  BY InitOK, StepOK, PTL DEF Spec

-----------------------------------------------------------------------------
(* Every variable keeps its type; in particular no request has more        *)
(* attempts than config.retries, however often it is cancelled, and        *)
(* however many reconnects run beside it.                                  *)
THEOREM ClientTypes == Spec => []TypeOK
<1>. QED  BY ClientInvHolds, PTL DEF ClientInv

(* modbus/client.py never has two connections to the charger open, for any *)
(* number of coroutines that lose, replace and close the connection.       *)
THEOREM SingleConnection == Spec => []OneConnection
<1>. QED  BY ClientInvHolds, PTL DEF ClientInv

(* No coroutine closes or replaces the connection while another one's      *)
(* request is on it, and no two requests are on it at once.                *)
THEOREM RequestsUndisturbed == Spec => []RequestUndisturbed
<1>1. ClientInv => RequestUndisturbed
  BY DEF ClientInv, WireOK, RequestUndisturbed, HoldsLock, Wire
<1>. QED  BY ClientInvHolds, <1>1, PTL

-----------------------------------------------------------------------------
(* The client implements the link.  Beyond ClientInv this needs to know    *)
(* who sends requests: a reconnect ends where a retry would send again.    *)

Flight == {"sent", "landed"}

KindOK ==
  /\ \A a \in Tasks \ Users : pc[a] \notin {"request", "sent", "landed"}
  /\ \A a \in Reconnecters : pc[a] # "idle" => retrying[a]
  /\ pc["shutdown"] \in {"idle", "close"}

LinkInv == ClientInv /\ KindOK

(* Where a coroutine may go, and whether it is then in a reconnect.        *)
LEMMA GoesKind ==
  ASSUME LinkInv, NEW a \in Tasks, NEW w, Goes(a, w),
         \A b \in Tasks \ {a} : retrying'[b] = retrying[b],
         a \notin Users => w \notin {"request", "sent", "landed"},
         a \in Reconnecters => w = "idle" \/ retrying'[a],
         a = "shutdown" => w \in {"idle", "close"}
  PROVE  KindOK'
<1>1. /\ pc'[a] = w /\ \A b \in Tasks \ {a} : pc'[b] = pc[b]
  BY DEF Goes, LinkInv, ClientInv, TypeOK
<1>2. "shutdown" \in Tasks /\ Reconnecters \subseteq Tasks
  BY DEF Tasks
<1>3. /\ \A b \in Tasks \ Users : pc'[b] \notin {"request", "sent", "landed"}
      /\ pc'["shutdown"] \in {"idle", "close"}
  BY <1>1, <1>2 DEF LinkInv, KindOK
<1>4. \A b \in Reconnecters : pc'[b] # "idle" => retrying'[b]
  BY <1>1, <1>2 DEF LinkInv, KindOK
<1>. QED  BY <1>3, <1>4 DEF KindOK

LEMMA StepKind ==
  ASSUME LinkInv, [Next]_vars
  PROVE  KindOK'
<1>. USE ClientConstants
<1>0. /\ ClientInv /\ KindOK /\ pc \in [Tasks -> PCs] /\ retrying \in [Tasks -> BOOLEAN]
      /\ Users \subseteq Tasks /\ Reconnecters \subseteq Tasks /\ "shutdown" \in Tasks
      /\ Reconnecters \cap Users = {} /\ "shutdown" \notin Users
  BY DEF LinkInv, ClientInv, TypeOK, Tasks
<1>1. ASSUME NEW a \in Tasks, Finish(a)  PROVE KindOK'
  BY <1>0, <1>1, GoesKind DEF Finish
<1>2. ASSUME NEW a \in Users, Again(a) \/ AttemptFails(a)  PROVE KindOK'
  <2>1. CASE Again(a)
    BY <1>0, <2>1, GoesKind DEF Again
  <2>2. CASE AttemptFails(a)
    BY <1>0, <1>1, <2>2, GoesKind DEF AttemptFails
  <2>. QED  BY <1>2, <2>1, <2>2
<1>3. ASSUME NEW a \in Tasks, a # "shutdown", Reconnected(a)  PROVE KindOK'
  <2>1. a \in Users \/ a \in Reconnecters
    BY <1>3 DEF Tasks
  <2>. QED  BY <1>0, <1>1, <1>2, <1>3, <2>1 DEF Reconnected
<1>4. ASSUME NEW a \in Tasks, TaskStep(a)  PROVE KindOK'
  <2>1. CASE StartRequest(a)
    BY <1>0, <2>1, GoesKind DEF StartRequest
  <2>2. CASE StartReconnect(a)
    <3>1. a \in Reconnecters /\ a # "shutdown" /\ a \notin Users
      BY <1>0, <2>2 DEF StartReconnect
    <3>2. Goes(a, "drop") /\ retrying'[a] /\ \A b \in Tasks \ {a} : retrying'[b] = retrying[b]
      BY <1>0, <2>2, Zenon DEF StartReconnect
    <3>.  QED  BY <3>1, <3>2, GoesKind
  <2>3. CASE Send(a) \/ CarryOut(a) \/ Answer(a) \/ RequestFails(a)
    <3>1. a \in Users
      BY <1>0, <2>3 DEF KindOK, Send, CarryOut, Answer, RequestFails
    <3>2. CASE Finish(a) \/ AttemptFails(a)
      BY <1>1, <1>2, <3>1, <3>2
    <3>3. CASE \E w : Goes(a, w) /\ UNCHANGED retrying
      BY <1>0, <3>1, <3>3, GoesKind
    <3>. QED  BY <2>3, <3>2, <3>3 DEF Send, CarryOut, Answer, RequestFails
  <2>4. CASE Connect(a) \/ Dialled(a) \/ DialFails(a)
    <3>1. a # "shutdown" /\ pc[a] # "idle"
      BY <1>0, <2>4 DEF KindOK, Connect, Dialled, DialFails
    <3>2. a \in Reconnecters => retrying[a]
      BY <1>0, <3>1 DEF KindOK
    <3>3. a \in Users \/ a \in Reconnecters
      BY <3>1 DEF Tasks
    <3>4. CASE Reconnected(a)
      BY <1>3, <3>1, <3>4
    <3>5. CASE ~retrying[a] /\ AttemptFails(a)
      BY <1>2, <3>2, <3>3, <3>5
    <3>6. CASE ~retrying[a] /\ Goes(a, "request") /\ UNCHANGED retrying
      BY <1>0, <3>2, <3>3, <3>6, GoesKind
    <3>7. CASE Goes(a, "dial") /\ UNCHANGED retrying
      BY <1>0, <3>1, <3>2, <3>7, GoesKind
    <3>. QED  BY <2>4, <3>4, <3>5, <3>6, <3>7 DEF Connect, Dialled, DialFails
  <2>5. CASE Drop(a) \/ Wake(a)
    <3>1. a # "shutdown" /\ (a \in Reconnecters => retrying[a])
      BY <1>0, <2>5 DEF KindOK, Drop, Wake
    <3>2. \E w \in {"sleep", "connect"} : Goes(a, w) /\ UNCHANGED retrying
      BY <2>5 DEF Drop, Wake
    <3>. QED  BY <1>0, <3>1, <3>2, GoesKind
  <2>6. CASE Cancelled(a)
    BY <1>0, <2>6, GoesKind DEF Cancelled
  <2>. QED
    BY <1>4, <2>1, <2>2, <2>3, <2>4, <2>5, <2>6 DEF TaskStep, Proceeds
<1>5. CASE StartClose
  BY <1>0, <1>5, GoesKind DEF StartClose
<1>6. CASE Close
  BY <1>0, <1>1, <1>6 DEF Close
<1>7. CASE ConnectionLost \/ UNCHANGED vars
  BY <1>0, <1>7 DEF ConnectionLost, vars, KindOK
<1>. QED  BY <1>4, <1>5, <1>6, <1>7 DEF Next

-----------------------------------------------------------------------------
(* Each step of the client is a step of the link or leaves it as it is.    *)

LEMMA OffTheLink ==
  ASSUME ClientInv, NEW a \in Tasks, pc[a] \notin Flight,
         NEW w, w \notin Flight, Goes(a, w), UNCHANGED <<client, sockets>>
  PROVE  UNCHANGED Link!linkVars
<1>1. \A b \in Tasks : /\ pc'[b] \in Flight <=> pc[b] \in Flight
                       /\ pc'[b] = "landed" <=> pc[b] = "landed"
  BY DEF Goes, ClientInv, TypeOK, Flight
<1>. QED  BY <1>1 DEF Link!linkVars, Flight

LEMMA HolderSeesNone ==
  ASSUME ClientInv, NEW a \in Tasks, HoldsLock(a), pc[a] \notin Flight
  PROVE  \A b \in Tasks : pc[b] \notin Flight
BY HolderIsAlone DEF Wire, Flight

LEMMA RequestEnds ==
  ASSUME ClientInv, NEW a \in Tasks, pc[a] \in Flight,
         NEW w, w \notin Flight, Goes(a, w), UNCHANGED <<client, sockets>>
  PROVE  Link!End
<1>1. HoldsLock(a)
  BY DEF ClientInv, WireOK, Wire, Flight
<1>2. \A b \in Tasks : pc'[b] \notin Flight
  BY <1>1, HolderIsAlone DEF Goes, ClientInv, TypeOK, Wire, Flight
<1>. QED  BY <1>2 DEF Link!End, Flight

LEMMA LinkShuts ==
  ASSUME ClientInv, NEW a \in Tasks, HoldsLock(a), pc[a] \notin Flight, Disconnect,
         NEW w, w \notin Flight, Goes(a, w)
  PROVE  [Link!LinkNext]_Link!linkVars
<1>1. \A b \in Tasks : pc[b] \notin Flight /\ pc'[b] \notin Flight
  BY HolderSeesNone DEF Goes, ClientInv, TypeOK
<1>2. sockets' = 0 /\ client' = "none"
  BY DEF ClientInv, OneConnection, Disconnect
<1>3. CASE client = "none"
  <2>1. sockets = 0
    BY <1>3 DEF ClientInv, OneConnection
  <2>. QED  BY <1>1, <1>2, <1>3, <2>1 DEF Link!linkVars, Flight
<1>4. CASE client # "none"
  <2>1. Link!Shut
    BY <1>1, <1>2, <1>4 DEF Link!Shut, Flight
  <2>. QED  BY <2>1 DEF Link!LinkNext
<1>. QED  BY <1>3, <1>4

LEMMA StepRefines ==
  ASSUME LinkInv, Next
  PROVE  [Link!LinkNext]_Link!linkVars
<1>0. ClientInv /\ KindOK /\ pc \in [Tasks -> PCs] /\ Users \subseteq Tasks
  BY DEF LinkInv, ClientInv, TypeOK, Tasks
<1>1. ASSUME NEW a \in Tasks, Finish(a) \/ Again(a) \/ AttemptFails(a) \/ Reconnected(a)
      PROVE  \E w : w \notin Flight /\ Goes(a, w)
  BY <1>1 DEF Finish, Again, AttemptFails, Reconnected, Attempted, Flight
<1>2. ASSUME NEW a \in Tasks, StartRequest(a) \/ StartReconnect(a) \/ Wake(a) \/ Connect(a)
      PROVE  UNCHANGED Link!linkVars
  <2>1. pc[a] \notin Flight /\ UNCHANGED <<client, sockets>>
    BY <1>2 DEF StartRequest, StartReconnect, Wake, Connect, Flight
  <2>2. CASE Reconnected(a)
    BY <1>0, <1>1, <2>1, <2>2, OffTheLink
  <2>3. CASE \E w \in {Attempted(client), "drop", "connect", "dial", "request"} : Goes(a, w)
    BY <1>0, <2>1, <2>3, OffTheLink DEF Attempted, Flight
  <2>. QED  BY <1>2, <2>2, <2>3 DEF StartRequest, StartReconnect, Wake, Connect
<1>3. ASSUME NEW a \in Tasks, Send(a)
      PROVE  [Link!LinkNext]_Link!linkVars
  <2>1. CASE client = "none"
    BY <1>0, <1>1, <1>3, <2>1, OffTheLink DEF Send, Flight
  <2>2. CASE client # "none"
    <3>1. a \in Users /\ pc' = [pc EXCEPT ![a] = "sent"]
      BY <1>0, <1>3, <2>2 DEF Send, KindOK, Goes
    <3>2. \A b \in Tasks : pc[b] \notin Flight
      BY <1>0, <1>3, HolderSeesNone DEF Send, Flight
    <3>3. \A b \in Tasks : pc'[b] \in Flight <=> b = a
      BY <1>0, <3>1, <3>2 DEF Flight
    <3>4. \A b \in Tasks : pc[b] # "landed" /\ pc'[b] # "landed"
      BY <1>0, <3>1, <3>2 DEF Flight
    <3>5. {b \in Tasks : pc'[b] \in {"sent", "landed"}} = {a}
      BY <3>3 DEF Flight
    <3>6. Link!Begin
      BY <1>3, <2>2, <3>1, <3>2, <3>4, <3>5 DEF Link!Begin, Send, Flight
    <3>. QED  BY <3>6 DEF Link!LinkNext
  <2>. QED  BY <2>1, <2>2
<1>4. ASSUME NEW a \in Tasks, CarryOut(a)
      PROVE  [Link!LinkNext]_Link!linkVars
  <2>1. HoldsLock(a) /\ pc[a] = "sent" /\ pc' = [pc EXCEPT ![a] = "landed"]
    BY <1>0, <1>4 DEF CarryOut, ClientInv, WireOK, Wire, Goes
  <2>2. \A b \in Tasks : pc[b] # "landed"
    BY <1>0, <2>1, HolderIsAlone DEF Wire
  <2>3. \A b \in Tasks : pc'[b] \in Flight <=> pc[b] \in Flight
    BY <1>0, <2>1 DEF Flight
  <2>4. pc'[a] = "landed"
    BY <1>0, <2>1
  <2>5. Link!Perform
    BY <1>4, <2>1, <2>2, <2>3, <2>4 DEF Link!Perform, CarryOut, Flight
  <2>. QED  BY <2>5 DEF Link!LinkNext
<1>5. ASSUME NEW a \in Tasks, Answer(a) \/ RequestFails(a)
      PROVE  [Link!LinkNext]_Link!linkVars
  <2>1. Link!End
    BY <1>0, <1>1, <1>5, RequestEnds DEF Answer, RequestFails, Flight
  <2>. QED  BY <2>1 DEF Link!LinkNext
<1>6. ASSUME NEW a \in Tasks, Dialled(a)
      PROVE  [Link!LinkNext]_Link!linkVars
  <2>1. HoldsLock(a) /\ client # "open" /\ sockets = 0 /\ pc[a] = "dial"
    BY <1>0, <1>6 DEF Dialled, ClientInv, WireOK, Wire, OneConnection
  <2>2. \A b \in Tasks : pc[b] \notin Flight
    BY <1>0, <2>1, HolderSeesNone DEF Flight
  <2>3. PICK w : w \notin Flight /\ Goes(a, w)
    BY <1>1, <1>6 DEF Dialled, Flight
  <2>4. \A b \in Tasks : pc'[b] \notin Flight
    BY <1>0, <2>2, <2>3 DEF Goes
  <2>5. Link!Open
    BY <1>6, <2>1, <2>2, <2>4 DEF Link!Open, Dialled, Flight
  <2>. QED  BY <2>5 DEF Link!LinkNext
<1>7. ASSUME NEW a \in Tasks, DialFails(a)
      PROVE  UNCHANGED Link!linkVars
  BY <1>0, <1>1, <1>7, OffTheLink DEF DialFails, Flight
<1>8. ASSUME NEW a \in Tasks, Drop(a)
      PROVE  [Link!LinkNext]_Link!linkVars
  BY <1>0, <1>8, LinkShuts DEF Drop, MayDrop, Flight
<1>9. ASSUME NEW a \in Tasks, Cancelled(a)
      PROVE  [Link!LinkNext]_Link!linkVars
  <2>1. Goes(a, "idle") /\ UNCHANGED <<client, sockets>> /\ "idle" \notin Flight
    BY <1>9 DEF Cancelled, Flight
  <2>2. CASE pc[a] \in Flight
    <3>1. Link!End
      BY <1>0, <2>1, <2>2, RequestEnds
    <3>. QED  BY <3>1 DEF Link!LinkNext
  <2>3. CASE pc[a] \notin Flight
    BY <1>0, <2>1, <2>3, OffTheLink
  <2>. QED  BY <2>2, <2>3
<1>10. CASE StartClose
  <2>1. "shutdown" \in Tasks
    BY DEF Tasks
  <2>. QED  BY <1>0, <1>10, <2>1, OffTheLink DEF StartClose, Flight
<1>11. CASE Close
  <2>1. "shutdown" \in Tasks
    BY DEF Tasks
  <2>. QED  BY <1>0, <1>11, <2>1, LinkShuts DEF Close, Finish, Flight
<1>12. CASE ConnectionLost
  <2>1. sockets' = 0
    BY <1>0, <1>12 DEF ConnectionLost, ClientInv, OneConnection
  <2>2. Link!Lose
    BY <1>12, <2>1 DEF Link!Lose, ConnectionLost
  <2>. QED  BY <2>2 DEF Link!LinkNext
<1>. QED
  BY <1>2, <1>3, <1>4, <1>5, <1>6, <1>7, <1>8, <1>9, <1>10, <1>11, <1>12
  DEF Next, TaskStep, Proceeds

(* Seen from the network the client is a link: one connection, one request *)
(* of a user at a time, and no connection made or dropped under it.        *)
THEOREM LinkRefinement == Spec => LinkIsKept
<1>1. Init => LinkInv /\ Link!LinkInit
  <2>. SUFFICES ASSUME Init  PROVE KindOK /\ Link!LinkInit
    BY InitOK DEF LinkInv
  <2>1. KindOK
    BY DEF Init, KindOK, Tasks
  <2>2. Link!LinkInit
    BY DEF Init, Link!LinkInit
  <2>. QED  BY <2>1, <2>2
<1>2. LinkInv /\ [Next]_vars => LinkInv'
  BY StepOK, StepKind DEF LinkInv
<1>3. LinkInv /\ [Next]_vars => [Link!LinkNext]_Link!linkVars
  <2>1. UNCHANGED vars => UNCHANGED Link!linkVars
    BY DEF vars, Link!linkVars
  <2>. QED  BY <2>1, StepRefines
<1>. QED  BY <1>1, <1>2, <1>3, PTL DEF Spec, LinkIsKept, Link!LinkSpec
=============================================================================
