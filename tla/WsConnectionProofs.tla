------------------------- MODULE WsConnectionProofs -------------------------
(***************************************************************************)
(* Proofs about WsConnection, for every set of ids, documents and tokens   *)
(* and every bound: type correctness, no poller is lost, stopped in vain or *)
(* ended by another's frames, a mutation runs once, a session that expires *)
(* has its timer, and the handler of a frame comes to its end.             *)
(***************************************************************************)
EXTENDS WsConnection, TLAPS

\* Aborting a task leaves everything but its state alone.
LEMMA AbortedType ==
    ASSUME NEW r \in OpRec
    PROVE  /\ Aborted(r) \in OpRec
           /\ Aborted(r).id = r.id
           /\ Aborted(r).st \notin {"exec", "have", "sleep"}
           /\ Aborted(r).st = "free" <=> r.st = "free"
BY DEF Aborted, OpRec

\* Executing an operation stays within the bounds on the database state and
\* on the count of runs.
LEMMA ExecType ==
    ASSUME TypeOK, NEW n \in Slots
    PROVE  DbAfter(n) \in 0..MaxDb /\ RanAfter(n) \in 0..2 /\ DbAfter(n) \in NoResp..MaxDb
<1>1. op[n].ran \in 0..2 /\ db \in 0..MaxDb /\ MaxDb \in Nat
  BY WsAssumption DEF TypeOK, OpRec
<1> QED
  BY <1>1 DEF DbAfter, RanAfter, NoResp

\* The records a reader that works, or sends, has.
LEMMA RdType ==
    /\ \A pc \in {"recv", "arm", "register", "exec", "done"}, n \in 0..MaxStarts :
          /\ At(pc, n) \in RdRec
          /\ At(pc, n).pc = pc
          /\ At(pc, n).n = n
    /\ \A pc \in {"recv", "arm"},
          f \in {<<"must", "try">>, <<"try", "try">>, <<"try">>} :
          /\ Sending(f, pc) \in RdRec
          /\ Sending(f, pc).pc = "send"
          /\ Len(Sending(f, pc).out) >= 1
          /\ Sending(f, pc).then = pc
<1>1. 0 \in 0..MaxStarts
  BY WsAssumption
<1>2. /\ <<>> \in Seq({"must", "try"})
      /\ <<"must", "try">> \in Seq({"must", "try"})
      /\ <<"try", "try">> \in Seq({"must", "try"})
      /\ <<"try">> \in Seq({"must", "try"})
      /\ Len(<<"must", "try">>) = 2 /\ Len(<<"try", "try">>) = 2 /\ Len(<<"try">>) = 1
  OBVIOUS
<1>3. ASSUME NEW pc \in {"recv", "arm", "register", "exec", "done"},
             NEW n \in 0..MaxStarts
      PROVE  At(pc, n) \in RdRec /\ At(pc, n).pc = pc /\ At(pc, n).n = n
  BY <1>2 DEF At, RdRec
<1>4. ASSUME NEW f \in Seq({"must", "try"}), NEW pc \in {"recv", "arm"}, Len(f) >= 1
      PROVE  /\ Sending(f, pc) \in RdRec
             /\ Sending(f, pc).pc = "send"
             /\ Len(Sending(f, pc).out) >= 1
             /\ Sending(f, pc).then = pc
  <2>1. Sending(f, pc) \in RdRec
    BY <1>1, <1>4 DEF Sending, RdRec
  <2>2. Sending(f, pc).pc = "send" /\ Sending(f, pc).then = pc /\ Sending(f, pc).out = f
    BY DEF Sending
  <2> QED
    BY <2>1, <2>2, <1>4, Zenon
<1>5. /\ Len(<<"must", "try">>) >= 1 /\ Len(<<"try", "try">>) >= 1
      /\ Len(<<"try">>) >= 1
  BY <1>2
<1>6. ASSUME NEW pc \in {"recv", "arm"},
             NEW f \in {<<"must", "try">>, <<"try", "try">>, <<"try">>}
      PROVE  /\ Sending(f, pc) \in RdRec
             /\ Sending(f, pc).pc = "send"
             /\ Len(Sending(f, pc).out) >= 1
             /\ Sending(f, pc).then = pc
  BY <1>2, <1>4, <1>5, Zenon
<1> QED
  BY <1>3, <1>6, Zenon

LEMMA TypeInit == Init => TypeOK
<1> SUFFICES ASSUME Init PROVE TypeOK
  OBVIOUS
<1>1. (CHOOSE p \in Payloads : TRUE) \in Payloads
  BY WsAssumption
<1>2. /\ now \in 0..MaxTime /\ db \in 0..MaxDb /\ hdr \in Tokens \cup {NoToken}
      /\ conn \in {"open", "closing", "dead"}
      /\ expiry \in [st : {"none", "armed", "fired"}, at : Nat]
  BY WsAssumption DEF Init, WsInit
<1>3. rd \in RdRec /\ rd.pc = "recv"
  BY RdType, WsAssumption DEF Init, WsInit, Reading
<1>4. op \in [Slots -> OpRec]
  BY <1>1, WsAssumption DEF Init, WsInit, OpRec, NoResp
<1>5. subs \in [IdKeys -> 0..MaxStarts]
  BY WsAssumption DEF Init, WsInit
<1>6. KeyTypeOK
  BY KeyAssumption DEF Init, KeyInit, KeyTypeOK
<1>7. stalled \in BOOLEAN
  BY Zenon DEF Init, WsInit
<1> QED
  BY <1>2, <1>3, <1>4, <1>5, <1>6, <1>7 DEF TypeOK

\* Leaving the loop keeps the types.
LEMMA LeaveType == TypeOK /\ Leave => TypeOK'
<1> SUFFICES ASSUME TypeOK, Leave PROVE TypeOK'
  OBVIOUS
<1>1. rd' \in RdRec /\ rd'.pc = "done"
  BY RdType, WsAssumption DEF Leave
<1>2. op' \in [Slots -> OpRec]
  BY AbortedType DEF Leave, TypeOK
<1>3. subs' \in [IdKeys -> 0..MaxStarts]
  BY WsAssumption DEF Leave
<1>4. expiry' \in [st : {"none", "armed", "fired"}, at : Nat]
  BY DEF Leave, TypeOK
<1> QED
  BY <1>1, <1>2, <1>3, <1>4 DEF TypeOK, Leave, KeyTypeOK

\* Replacing one operation's record by another keeps the types.
LEMMA OpUpdate ==
    ASSUME TypeOK, NEW n \in Slots, NEW r \in OpRec
    PROVE  /\ [op EXCEPT ![n] = r] \in [Slots -> OpRec]
           /\ [op EXCEPT ![n] = r][n] = r
           /\ \A m \in Slots : m # n => [op EXCEPT ![n] = r][m] = op[m]
BY DEF TypeOK

\* What is left of a queue of several frames is a queue of frames.
LEMMA TailType ==
    ASSUME NEW s \in Seq({"must", "try"}), Len(s) >= 1, Len(s) # 1
    PROVE  Tail(s) \in Seq({"must", "try"}) /\ Len(Tail(s)) >= 1
<1>1. Len(s) \in Nat /\ s # <<>>
  OBVIOUS
<1>2. Tail(s) \in Seq({"must", "try"}) /\ Len(Tail(s)) = Len(s) - 1
  BY <1>1
<1> QED
  BY <1>1, <1>2

\* The steps of the reader keep the types.
LEMMA ReaderType == TypeOK /\ (ReaderStep \/ ClientStep) => TypeOK'
<1> SUFFICES ASSUME TypeOK, ReaderStep \/ ClientStep PROVE TypeOK'
  OBVIOUS
<1>0. 0 \in 0..MaxStarts /\ Slots \subseteq 0..MaxStarts
  BY WsAssumption DEF Slots
<1>1. CASE \E t \in Tokens \cup {NoToken} : RecvInit(t)
  <2> PICK t \in Tokens \cup {NoToken} : RecvInit(t)
    BY <1>1
  <2>1. hdr' \in Tokens \cup {NoToken}
    BY DEF RecvInit, TypeOK
  <2>2. rd' \in RdRec /\ rd'.pc = "send" /\ Len(rd'.out) >= 1
    BY RdType, Zenon DEF RecvInit
  <2> QED
    BY <2>1, <2>2 DEF TypeOK, RecvInit, KeyTypeOK
<1>2. CASE ArmExpiry
  <2>1. rd' \in RdRec /\ rd'.pc = "recv"
    BY <1>0, <1>2, RdType, Zenon DEF ArmExpiry, Reading
  <2>2. expiry' \in [st : {"none", "armed", "fired"}, at : Nat]
    BY <1>2, WsAssumption DEF ArmExpiry, TypeOK, HasExp
  <2> QED
    BY <1>2, <2>1, <2>2 DEF TypeOK, ArmExpiry, KeyTypeOK
<1>3. CASE RecvStartDenied \/ RecvBad
  <2>1. rd' \in RdRec /\ rd'.pc = "send" /\ Len(rd'.out) >= 1
    BY <1>3, RdType, Zenon DEF RecvStartDenied, RecvBad
  <2> QED
    BY <1>3, <2>1 DEF TypeOK, RecvStartDenied, RecvBad, KeyTypeOK
<1>4. CASE \E n \in Slots, id \in Ids, p \in Payloads : RecvStart(n, id, p)
  <2> PICK n \in Slots, id \in Ids, p \in Payloads : RecvStart(n, id, p)
    BY <1>4
  <2>1. rd' \in RdRec /\ rd'.pc # "send" /\ rd'.n \in Slots
    BY <1>0, RdType DEF RecvStart
  <2>2. op' \in [Slots -> OpRec]
    BY WsAssumption DEF RecvStart, TypeOK, OpRec, NoResp
  <2> QED
    BY <2>1, <2>2 DEF TypeOK, RecvStart, KeyTypeOK
<1>5. CASE Register
  <2>1. rd' \in RdRec /\ rd'.pc = "recv"
    BY <1>0, <1>5, RdType, Zenon DEF Register, Reading
  <2>2. rd.n \in Slots
    BY <1>5 DEF Register, TypeOK
  <2>3. subs' \in [IdKeys -> 0..MaxStarts]
    BY <1>0, <1>5, <2>2 DEF Register, TypeOK
  <2>4. IdKey(op[rd.n].id) \in IdKeys
    BY DEF IdKey, IdKeys
  <2>5. op' \in [Slots -> OpRec]
    <3> DEFINE m == subs[IdKey(op[rd.n].id)]
    <3>1. m \in 0..MaxStarts
      BY <2>4 DEF TypeOK
    <3>2. CASE m = 0
      BY <1>5, <3>2 DEF Register, TypeOK
    <3>3. CASE m # 0
      <4>1. m \in Slots
        BY <3>1, <3>3, WsAssumption DEF Slots
      <4>2. Aborted(op[m]) \in OpRec
        BY <4>1, AbortedType DEF TypeOK
      <4> QED
        BY <1>5, <3>3, <4>1, <4>2 DEF Register, TypeOK
    <3> QED
      BY <3>2, <3>3
  <2> QED
    BY <1>5, <2>1, <2>3, <2>5 DEF TypeOK, Register, KeyTypeOK
<1>6. CASE ExecuteOnce
  <2>1. rd.n \in Slots
    BY <1>6 DEF ExecuteOnce, TypeOK
  <2>2. rd' \in RdRec /\ rd'.pc = "send" /\ Len(rd'.out) >= 1
    BY <1>6, RdType, Zenon DEF ExecuteOnce
  <2>3. db' \in 0..MaxDb
    BY <1>6, <2>1, ExecType DEF ExecuteOnce
  <2>4. op' \in [Slots -> OpRec]
    <3> DEFINE r == [op[rd.n] EXCEPT !.st = "done", !.resp = DbAfter(rd.n),
                                     !.ran = RanAfter(rd.n)]
    <3>1. op[rd.n] \in OpRec /\ DbAfter(rd.n) \in NoResp..MaxDb /\ RanAfter(rd.n) \in 0..2
      BY <2>1, ExecType DEF TypeOK
    <3>2. r \in OpRec
      BY <3>1 DEF OpRec
    <3>3. op' = [op EXCEPT ![rd.n] = r]
      BY <1>6 DEF ExecuteOnce
    <3> QED
      BY <2>1, <3>2, <3>3, OpUpdate
  <2> QED
    BY <1>6, <2>2, <2>3, <2>4 DEF TypeOK, ExecuteOnce, KeyTypeOK
<1>7. CASE \E id \in StrIds : RecvStop(id)
  <2> PICK id \in StrIds : RecvStop(id)
    BY <1>7
  <2>1. id \in IdKeys
    BY DEF IdKeys
  <2>2. subs' \in [IdKeys -> 0..MaxStarts]
    BY <1>0 DEF RecvStop, TypeOK
  <2>3. op' \in [Slots -> OpRec]
    <3>1. CASE subs[id] = 0
      BY <3>1 DEF RecvStop, TypeOK
    <3>2. CASE subs[id] # 0
      <4>1. subs[id] \in Slots
        BY <2>1, <3>2, WsAssumption DEF Slots, TypeOK
      <4>2. Aborted(op[subs[id]]) \in OpRec
        BY <4>1, AbortedType DEF TypeOK
      <4> QED
        BY <3>2, <4>1, <4>2 DEF RecvStop, TypeOK
    <3> QED
      BY <3>1, <3>2
  <2> QED
    BY <2>2, <2>3 DEF TypeOK, RecvStop, KeyTypeOK
<1>8. CASE SendOk
  <2>1. rd \in RdRec /\ Len(rd.out) >= 1 /\ rd.pc = "send"
    BY <1>8 DEF SendOk, TypeOK
  <2>2. CASE Len(rd.out) = 1
    <3>1. rd' = At(rd.then, 0) /\ rd.then \in {"recv", "arm"}
      BY <1>8, <2>1, <2>2 DEF SendOk, RdRec
    <3>2. rd' \in RdRec /\ rd'.pc \in {"recv", "arm"}
      BY <1>0, <3>1, RdType
    <3> QED
      BY <1>8, <3>2 DEF TypeOK, SendOk, KeyTypeOK
  <2>3. CASE Len(rd.out) # 1
    <3>1. rd' = [rd EXCEPT !.out = Tail(rd.out)]
      BY <1>8, <2>3 DEF SendOk
    <3>2. rd.out \in Seq({"must", "try"})
      BY <2>1 DEF RdRec
    <3>3. Tail(rd.out) \in Seq({"must", "try"}) /\ Len(Tail(rd.out)) >= 1
      BY <2>1, <2>3, <3>2, TailType, Zenon
    <3>4. rd' \in RdRec /\ rd'.pc = "send" /\ rd'.out = Tail(rd.out)
      BY <2>1, <3>1, <3>3 DEF RdRec
    <3>5. Len(rd'.out) >= 1
      BY <3>3, <3>4, Zenon
    <3> QED
      BY <1>8, <3>4, <3>5 DEF TypeOK, SendOk, KeyTypeOK
  <2> QED
    BY <2>2, <2>3
<1>9. CASE SendFails \/ StreamEnds \/ RecvEnd
  BY <1>9, LeaveType DEF SendFails, StreamEnds, RecvEnd
<1> QED
  BY <1>1, <1>2, <1>3, <1>4, <1>5, <1>6, <1>7, <1>8, <1>9 DEF ReaderStep, ClientStep

\* The steps of a poller keep the types.
LEMMA PollerType ==
    ASSUME TypeOK, NEW n \in Slots, PollerStep(n)
    PROVE  TypeOK'
<1>1. op[n] \in OpRec
  BY DEF TypeOK
<1>2. CASE Poll(n)
  <2>1. op' \in [Slots -> OpRec]
    BY <1>1, <1>2, ExecType DEF Poll, TypeOK, OpRec
  <2>2. db' \in 0..MaxDb
    BY <1>2, ExecType DEF Poll
  <2> QED
    BY <1>2, <2>1, <2>2 DEF TypeOK, Poll, KeyTypeOK
<1>3. CASE Deliver(n)
  <2>1. op' \in [Slots -> OpRec]
    BY <1>1, <1>3 DEF Deliver, TypeOK, OpRec
  <2> QED
    BY <1>3, <2>1 DEF TypeOK, Deliver, KeyTypeOK
<1>4. CASE Cancel(n)
  <2>1. op' \in [Slots -> OpRec]
    BY <1>1, <1>4 DEF Cancel, TypeOK, OpRec
  <2> QED
    BY <1>4, <2>1 DEF TypeOK, Cancel, KeyTypeOK
<1>5. CASE Wake(n)
  <2>1. op' \in [Slots -> OpRec]
    BY <1>1, <1>5 DEF Wake, TypeOK, OpRec
  <2> QED
    BY <1>5, <2>1 DEF TypeOK, Wake, KeyTypeOK
<1> QED
  BY <1>2, <1>3, <1>4, <1>5 DEF PollerStep

\* The expiry task, the clock, the database, the transport and the key cache
\* keep the types.
LEMMA EnvironmentType == TypeOK /\ (ExpiryFire \/ Environment) => TypeOK'
<1> SUFFICES ASSUME TypeOK, ExpiryFire \/ Environment PROVE TypeOK'
  OBVIOUS
<1>1. CASE ExpiryFire
  BY <1>1 DEF TypeOK, ExpiryFire, KeyTypeOK
<1>2. CASE Tick
  BY <1>2, WsAssumption DEF TypeOK, Tick, KeyTypeOK
<1>3. CASE DbChange
  BY <1>3, WsAssumption DEF TypeOK, DbChange, KeyTypeOK
<1>4. CASE TransportFails
  BY <1>4 DEF TypeOK, TransportFails, KeyTypeOK
<1>5. CASE Drain
  <2>1. stalled' \in BOOLEAN
    BY <1>5, Zenon DEF Drain
  <2> QED
    BY <1>5, <2>1 DEF TypeOK, Drain, KeyTypeOK
<1>6. CASE KeyStep
  <2>1. KeyTypeOK'
    BY <1>6 DEF KeyStep, KeyNext, Publish, Refresh, KeyTypeOK, TypeOK
  <2> QED
    BY <1>6, <2>1 DEF TypeOK, KeyStep, wsVars
<1> QED
  BY <1>1, <1>2, <1>3, <1>4, <1>5, <1>6 DEF Environment

LEMMA TypeStep == TypeOK /\ [Next]_vars => TypeOK'
<1> SUFFICES ASSUME TypeOK, [Next]_vars PROVE TypeOK'
  OBVIOUS
<1>1. CASE UNCHANGED vars
  BY <1>1 DEF TypeOK, KeyTypeOK, vars
<1>2. CASE Next
  BY <1>2, ReaderType, PollerType, EnvironmentType DEF Next
<1> QED
  BY <1>1, <1>2

\* Every state of every connection is of the right type, whatever the ids,
\* documents, tokens and bounds.
THEOREM TypeCorrect == Spec => []TypeOK
BY TypeInit, TypeStep, PTL DEF Spec

----------------------------------------------------------------------------
(* No poller is lost.  NoOrphanPoller alone is not inductive: insert() of a *)
(* new handle must be known to displace a task of the same id_key and not   *)
(* the new task itself.                                                     *)

\* A handle in the map is the handle of a task that was started under that key.
Held == \A k \in IdKeys : subs[k] # 0 =>
            op[subs[k]].st # "free" /\ IdKey(op[subs[k]].id) = k

\* A task about to be registered is not in the map yet.
Pending == rd.pc = "register" =>
               op[rd.n].st # "free" /\ \A k \in IdKeys : subs[k] # rd.n

OwnerInv == TypeOK /\ Held /\ Pending /\ NoOrphanPoller

LEMMA OwnerInit == Init => OwnerInv
<1> SUFFICES ASSUME Init PROVE OwnerInv
  OBVIOUS
<1>1. TypeOK
  BY TypeInit
<1>2. rd.pc = "recv"
  BY DEF Init, WsInit, Reading, At
<1>3. \A n \in Slots : op[n].st = "free"
  BY DEF Init, WsInit
<1>4. \A k \in IdKeys : subs[k] = 0
  BY DEF Init, WsInit
<1> QED
  BY <1>1, <1>2, <1>3, <1>4 DEF OwnerInv, Held, Pending, NoOrphanPoller, Live

\* A step that leaves the map and the ids alone, starts nothing, revives
\* nothing and does not move the reader into or out of "register" keeps the
\* ownership of every task.
LEMMA OwnerFrame ==
    ASSUME OwnerInv, TypeOK', subs' = subs,
           \/ rd'.pc # "register" /\ rd.pc # "register"
           \/ rd'.pc = rd.pc /\ rd'.n = rd.n,
           rd'.pc = "done" => rd.pc = "done",
           \A n \in Slots :
               /\ op'[n].id = op[n].id
               /\ op[n].st # "free" => op'[n].st # "free"
               /\ Live(n)' => Live(n)
    PROVE  OwnerInv'
<1>1. Held'
  <2> SUFFICES ASSUME NEW k \in IdKeys, subs'[k] # 0
               PROVE  op'[subs'[k]].st # "free" /\ IdKey(op'[subs'[k]].id) = k
    BY DEF Held, IdKeys, IdKey
  <2>1. subs[k] \in Slots
    BY WsAssumption DEF OwnerInv, TypeOK, Slots
  <2> QED
    BY <2>1 DEF OwnerInv, Held, IdKey
<1>2. Pending'
  BY DEF OwnerInv, Pending, TypeOK
<1>3. NoOrphanPoller'
  BY DEF OwnerInv, NoOrphanPoller, IdKey, Live
<1> QED
  BY <1>1, <1>2, <1>3 DEF OwnerInv

\* The end of serve(): every task still running was in the map.
LEMMA OwnerLeave == OwnerInv /\ rd.pc # "register" /\ Leave => OwnerInv'
<1> SUFFICES ASSUME OwnerInv, rd.pc # "register", Leave PROVE OwnerInv'
  OBVIOUS
<1>1. TypeOK'
  BY LeaveType DEF OwnerInv
<1>2. Held' /\ rd'.pc = "done"
  BY DEF Leave, Held, At
<1>3. \A n \in Slots : ~Live(n)'
  <2> SUFFICES ASSUME NEW n \in Slots PROVE op'[n].st \notin {"exec", "have", "sleep"}
    BY DEF Live
  <2>1. op[n] \in OpRec /\ IdKey(op[n].id) \in IdKeys
    BY DEF OwnerInv, TypeOK, IdKey, IdKeys
  <2>2. CASE \E k \in IdKeys : subs[k] = n
    <3>1. op'[n] = Aborted(op[n])
      BY <2>2 DEF Leave
    <3> QED
      BY <2>1, <3>1, AbortedType
  <2>3. CASE ~ \E k \in IdKeys : subs[k] = n
    <3>1. op'[n] = op[n]
      BY <2>3 DEF Leave
    <3> QED
      BY <2>1, <2>3, <3>1 DEF OwnerInv, NoOrphanPoller, Live
  <2> QED
    BY <2>2, <2>3
<1> QED
  BY <1>1, <1>2, <1>3 DEF OwnerInv, Pending, NoOrphanPoller

\* spawn: the new task is owned by the reader until it is registered.
LEMMA OwnerStart ==
    ASSUME OwnerInv, TypeOK', NEW n \in Slots, NEW id \in Ids, NEW p \in Payloads,
           RecvStart(n, id, p)
    PROVE  OwnerInv'
<1>1. /\ op[n].st = "free" /\ rd.pc = "recv" /\ subs' = subs
      /\ \A m \in Slots : m # n => op'[m] = op[m]
      /\ op'[n].st = IF IsSubscription(p) THEN "exec" ELSE "once"
      /\ rd'.pc = IF IsSubscription(p) THEN "register" ELSE "exec"
      /\ rd'.n = n
  BY DEF RecvStart, Receiving, At, OwnerInv, TypeOK
<1>2. \A k \in IdKeys : subs[k] # n
  BY <1>1, WsAssumption DEF OwnerInv, Held, Slots
<1>3. \A k \in IdKeys : subs[k] # 0 => subs[k] \in Slots
  BY WsAssumption DEF OwnerInv, TypeOK, Slots
<1>4. Held'
  <2> SUFFICES ASSUME NEW k \in IdKeys, subs[k] # 0
               PROVE  op'[subs[k]].st # "free" /\ IdKey(op'[subs[k]].id) = k
    BY <1>1 DEF Held
  <2> QED
    BY <1>1, <1>2, <1>3 DEF OwnerInv, Held
<1>5. Pending'
  BY <1>1, <1>2 DEF Pending
<1>6. NoOrphanPoller'
  <2> SUFFICES ASSUME NEW m \in Slots, op'[m].st \in {"exec", "have", "sleep"}
               PROVE  /\ rd'.pc # "done"
                      /\ \/ subs'[IdKey(op'[m].id)] = m
                         \/ rd'.pc = "register" /\ rd'.n = m
    BY DEF NoOrphanPoller, Live, IdKey
  <2>1. CASE m = n
    BY <1>1, <2>1
  <2>2. CASE m # n
    BY <1>1, <2>2 DEF OwnerInv, NoOrphanPoller, Live
  <2> QED
    BY <2>1, <2>2
<1> QED
  BY <1>4, <1>5, <1>6 DEF OwnerInv

\* insert: the new handle enters the map and the displaced task is aborted.
LEMMA OwnerRegister == OwnerInv /\ TypeOK' /\ Register => OwnerInv'
<1> SUFFICES ASSUME OwnerInv, TypeOK', Register,
                    NEW n, n = rd.n, NEW k, k = IdKey(op[n].id), NEW m, m = subs[k]
             PROVE  OwnerInv'
  OBVIOUS
<1>1. /\ n \in Slots /\ k \in IdKeys /\ n # 0 /\ rd'.pc = "recv"
      /\ subs' = [subs EXCEPT ![k] = n]
      /\ op[n].st # "free"
      /\ \A j \in IdKeys : subs[j] # n
  BY WsAssumption DEF Register, OwnerInv, TypeOK, Pending, Slots, IdKey, IdKeys, Reading, At
<1>2. \A j \in IdKeys : subs[j] # 0 => subs[j] \in Slots
  BY WsAssumption DEF OwnerInv, TypeOK, Slots
<1>3. /\ subs'[k] = n
      /\ \A j \in IdKeys : j # k => subs'[j] = subs[j]
  BY <1>1 DEF OwnerInv, TypeOK
<1>4. ASSUME NEW i \in Slots
      PROVE  /\ op'[i] = IF i = m THEN Aborted(op[i]) ELSE op[i]
             /\ op[i] \in OpRec
  <2>1. op[i] \in OpRec
    BY DEF OwnerInv, TypeOK
  <2>2. CASE m = 0
    BY <2>1, <2>2, WsAssumption DEF Register, Slots
  <2>3. CASE m # 0
    BY <1>1, <1>2, <2>1, <2>3 DEF Register, OwnerInv, TypeOK
  <2> QED
    BY <2>2, <2>3
<1>5. \A i \in Slots :
          /\ op'[i].id = op[i].id
          /\ op'[i].st = "free" <=> op[i].st = "free"
          /\ i = m => op'[i].st \notin {"exec", "have", "sleep"}
          /\ i # m => op'[i] = op[i]
  BY <1>4, AbortedType
<1>6. Held'
  <2> SUFFICES ASSUME NEW j \in IdKeys, subs'[j] # 0
               PROVE  op'[subs'[j]].st # "free" /\ IdKey(op'[subs'[j]].id) = j
    BY DEF Held, IdKey
  <2>1. CASE j = k
    BY <1>1, <1>3, <1>5, <2>1
  <2>2. CASE j # k
    BY <1>2, <1>3, <1>5, <2>2 DEF OwnerInv, Held
  <2> QED
    BY <2>1, <2>2
<1>7. Pending'
  BY <1>1 DEF Pending
<1>8. NoOrphanPoller'
  <2> SUFFICES ASSUME NEW i \in Slots, op'[i].st \in {"exec", "have", "sleep"}
               PROVE  rd'.pc # "done" /\ subs'[IdKey(op'[i].id)] = i
    BY DEF NoOrphanPoller, Live, IdKey
  <2>1. CASE i = n
    BY <1>1, <1>3, <1>5, <2>1
  <2>2. CASE i # n
    <3>1. i # m /\ op'[i] = op[i]
      BY <1>5
    <3>2. subs[IdKey(op[i].id)] = i
      BY <2>2, <3>1 DEF OwnerInv, NoOrphanPoller, Live
    <3>3. IdKey(op[i].id) \in IdKeys /\ IdKey(op[i].id) # k
      BY <3>1, <3>2 DEF IdKey, IdKeys
    <3> QED
      BY <1>1, <1>3, <3>1, <3>2, <3>3
  <2> QED
    BY <2>1, <2>2
<1> QED
  BY <1>6, <1>7, <1>8 DEF OwnerInv

\* remove: the task taken out of the map is aborted.
LEMMA OwnerStop ==
    ASSUME OwnerInv, TypeOK', NEW id \in StrIds, RecvStop(id)
    PROVE  OwnerInv'
<1> SUFFICES ASSUME NEW m, m = subs[id] PROVE OwnerInv'
  OBVIOUS
<1>1. /\ id \in IdKeys /\ rd' = rd /\ rd.pc = "recv"
      /\ subs'[id] = 0
      /\ \A j \in IdKeys : j # id => subs'[j] = subs[j]
  BY DEF RecvStop, Receiving, OwnerInv, TypeOK, IdKeys
<1>2. \A j \in IdKeys : subs[j] # 0 => subs[j] \in Slots
  BY WsAssumption DEF OwnerInv, TypeOK, Slots
<1>3. ASSUME NEW i \in Slots
      PROVE  /\ op'[i] = IF i = m THEN Aborted(op[i]) ELSE op[i]
             /\ op[i] \in OpRec
  <2>1. op[i] \in OpRec
    BY DEF OwnerInv, TypeOK
  <2>2. CASE m = 0
    BY <2>1, <2>2, WsAssumption DEF RecvStop, Slots
  <2>3. CASE m # 0
    BY <1>1, <1>2, <2>1, <2>3 DEF RecvStop, OwnerInv, TypeOK
  <2> QED
    BY <2>2, <2>3
<1>4. \A i \in Slots :
          /\ op'[i].id = op[i].id
          /\ op'[i].st = "free" <=> op[i].st = "free"
          /\ i = m => op'[i].st \notin {"exec", "have", "sleep"}
          /\ i # m => op'[i] = op[i]
  BY <1>3, AbortedType
<1>5. Held'
  <2> SUFFICES ASSUME NEW j \in IdKeys, subs'[j] # 0
               PROVE  op'[subs'[j]].st # "free" /\ IdKey(op'[subs'[j]].id) = j
    BY DEF Held, IdKey
  <2>1. j # id /\ subs'[j] = subs[j]
    BY <1>1
  <2> QED
    BY <1>2, <1>4, <2>1 DEF OwnerInv, Held
<1>6. Pending'
  BY <1>1 DEF Pending
<1>7. NoOrphanPoller'
  <2> SUFFICES ASSUME NEW i \in Slots, op'[i].st \in {"exec", "have", "sleep"}
               PROVE  rd'.pc # "done" /\ subs'[IdKey(op'[i].id)] = i
    BY DEF NoOrphanPoller, Live, IdKey
  <2>1. i # m /\ op'[i] = op[i]
    BY <1>4
  <2>2. subs[IdKey(op[i].id)] = i
    BY <1>1, <2>1 DEF OwnerInv, NoOrphanPoller, Live
  <2>3. IdKey(op[i].id) \in IdKeys /\ IdKey(op[i].id) # id
    BY <2>1, <2>2 DEF IdKey, IdKeys
  <2> QED
    BY <1>1, <2>1, <2>2, <2>3
<1> QED
  BY <1>5, <1>6, <1>7 DEF OwnerInv

LEMMA OwnerStep == OwnerInv /\ [Next]_vars => OwnerInv'
<1> SUFFICES ASSUME OwnerInv, [Next]_vars PROVE OwnerInv'
  OBVIOUS
<1>0. TypeOK /\ TypeOK'
  BY TypeStep DEF OwnerInv
<1>1. CASE UNCHANGED vars
  <2>1. UNCHANGED <<subs, rd, op>>
    BY <1>1 DEF vars
  <2> QED
    BY <1>0, <2>1, OwnerFrame DEF Live
<1>2. CASE ReaderStep
  <2>1. CASE ArmExpiry
    <3>1. UNCHANGED <<subs, op>> /\ rd.pc = "arm" /\ rd'.pc = "recv"
      BY <2>1 DEF ArmExpiry, Reading, At
    <3> QED
      BY <1>0, <3>1, OwnerFrame DEF Live
  <2>2. CASE Register
    BY <1>0, <2>2, OwnerRegister
  <2>3. CASE ExecuteOnce
    <3>1. subs' = subs /\ rd.pc = "exec" /\ rd'.pc = "send" /\ rd.n \in Slots
      BY <1>0, <2>3 DEF ExecuteOnce, Sending, TypeOK
    <3>2. \A i \in Slots :
              /\ op'[i].id = op[i].id
              /\ op[i].st # "free" => op'[i].st # "free"
              /\ op'[i].st \in {"exec", "have", "sleep"}
                   => op[i].st \in {"exec", "have", "sleep"}
      BY <1>0, <2>3, <3>1 DEF ExecuteOnce, TypeOK, OpRec
    <3> QED
      BY <1>0, <3>1, <3>2, OwnerFrame DEF Live
  <2>4. CASE SendOk
    <3>1. UNCHANGED <<subs, op>> /\ rd.pc = "send" /\ rd'.pc \in {"send", "recv", "arm"}
      BY <1>0, <2>4 DEF SendOk, At, TypeOK, RdRec
    <3> QED
      BY <1>0, <3>1, OwnerFrame DEF Live
  <2>5. CASE SendFails \/ StreamEnds
    BY <2>5, OwnerLeave DEF SendFails, StreamEnds
  <2> QED
    BY <1>2, <2>1, <2>2, <2>3, <2>4, <2>5 DEF ReaderStep
<1>3. CASE ClientStep
  <2>1. CASE (\E t \in Tokens \cup {NoToken} : RecvInit(t)) \/ RecvStartDenied \/ RecvBad
    <3>1. UNCHANGED <<subs, op>> /\ rd.pc = "recv" /\ rd'.pc = "send"
      BY <2>1 DEF RecvInit, RecvStartDenied, RecvBad, Receiving, Sending
    <3> QED
      BY <1>0, <3>1, OwnerFrame DEF Live
  <2>2. CASE \E n \in Slots, id \in Ids, p \in Payloads : RecvStart(n, id, p)
    BY <1>0, <2>2, OwnerStart
  <2>3. CASE \E id \in StrIds : RecvStop(id)
    BY <1>0, <2>3, OwnerStop
  <2>4. CASE RecvEnd
    BY <2>4, OwnerLeave DEF RecvEnd, Receiving
  <2> QED
    BY <1>3, <2>1, <2>2, <2>3, <2>4 DEF ClientStep
<1>4. CASE \E n \in Slots : PollerStep(n)
  <2> PICK n \in Slots : PollerStep(n)
    BY <1>4
  <2>1. UNCHANGED <<subs, rd>>
    BY DEF PollerStep, Poll, Deliver, Cancel, Wake
  <2>2. \A i \in Slots :
            /\ op'[i].id = op[i].id
            /\ op[i].st # "free" => op'[i].st # "free"
            /\ op'[i].st \in {"exec", "have", "sleep"}
                 => op[i].st \in {"exec", "have", "sleep"}
    <3>1. \A i \in Slots : i # n => op'[i] = op[i]
      BY <1>0 DEF PollerStep, Poll, Deliver, Cancel, Wake, TypeOK
    <3>2. op[n].st \in {"exec", "have", "sleep", "dying"}
      BY DEF PollerStep, Poll, Deliver, Cancel, Wake
    <3>3. /\ op'[n].id = op[n].id /\ op'[n].st # "free"
          /\ op[n].st = "dying" => op'[n].st = "dead"
      <4>0. op[n] \in OpRec /\ op \in [Slots -> OpRec]
        BY <1>0 DEF TypeOK
      <4>1. CASE Poll(n)
        BY <4>0, <4>1 DEF Poll, OpRec
      <4>2. CASE Deliver(n)
        BY <4>0, <4>2 DEF Deliver, OpRec
      <4>3. CASE Cancel(n)
        BY <4>0, <4>3 DEF Cancel, OpRec
      <4>4. CASE Wake(n)
        BY <4>0, <4>4 DEF Wake, OpRec
      <4> QED
        BY <4>1, <4>2, <4>3, <4>4 DEF PollerStep
    <3> QED
      BY <3>1, <3>2, <3>3
  <2> QED
    BY <1>0, <2>1, <2>2, OwnerFrame DEF Live
<1>5. CASE ExpiryFire \/ Environment
  <2>1. UNCHANGED <<subs, rd, op>>
    BY <1>5 DEF ExpiryFire, Environment, Tick, DbChange, TransportFails, Drain,
                KeyStep, wsVars
  <2> QED
    BY <1>0, <2>1, OwnerFrame DEF Live
<1> QED
  BY <1>1, <1>2, <1>3, <1>4, <1>5 DEF Next

\* For every number of operations and every set of ids, string or not: a poller
\* that is still running is in the subscriptions map or about to enter it, and
\* none outlives serve().
THEOREM NoPollerIsLost == Spec => []NoOrphanPoller
<1>1. OwnerInv => NoOrphanPoller
  BY DEF OwnerInv
<1> QED
  BY OwnerInit, OwnerStep, <1>1, PTL DEF Spec

\* stop reaches every task the client may mean: the map entry it removes is
\* the only running poller of that id.
THEOREM StopReachesItsPoller == Spec => StopSilences
<1>1. ASSUME OwnerInv, [Next]_vars
      PROVE  [\A id \in StrIds : RecvStop(id) => \A n \in Slots : op[n].id = id => ~Live(n)']_vars
  <2> SUFFICES ASSUME NEW id \in StrIds, RecvStop(id), NEW n \in Slots, op[n].id = id, Live(n)'
               PROVE  FALSE
    OBVIOUS
  <2>1. OwnerInv'
    BY <1>1, OwnerStep
  <2>2. subs'[id] = 0 /\ rd'.pc = "recv" /\ id \in IdKeys
    BY <1>1 DEF RecvStop, Receiving, OwnerInv, TypeOK, IdKeys
  <2>3. op'[n].id = id
    <3>1. \A i \in Slots : op[i] \in OpRec
      BY <1>1 DEF OwnerInv, TypeOK
    <3>2. CASE subs[id] = 0
      BY <1>1, <3>2 DEF RecvStop
    <3>3. CASE subs[id] # 0
      <4>1. subs[id] \in Slots
        BY <1>1, <2>2, <3>3, WsAssumption DEF OwnerInv, TypeOK, Slots
      <4>2. Aborted(op[subs[id]]).id = op[subs[id]].id
        BY <3>1, <4>1, AbortedType
      <4> QED
        BY <1>1, <3>3, <4>1, <4>2 DEF RecvStop, OwnerInv, TypeOK
    <3> QED
      BY <3>2, <3>3
  <2>4. subs'[IdKey(op'[n].id)] = n
    BY <2>1, <2>2 DEF OwnerInv, NoOrphanPoller, Live
  <2> QED
    BY <2>2, <2>3, <2>4, WsAssumption DEF IdKey, Slots
<1> QED
  BY OwnerInit, OwnerStep, <1>1, PTL DEF Spec, StopSilences

----------------------------------------------------------------------------
(* The expiry task exists.  A session is let in when the current header     *)
(* decodes, so the invariant relates the header, not the operations, to the *)
(* timer: once connection_init has returned, a header that decodes now and  *)
(* has an exp decoded then, and armed the timer.                            *)

Arming == rd.pc = "arm" \/ (rd.pc = "send" /\ rd.then = "arm")

HeaderHasTimer ==
    hdr # NoToken /\ HasExp(hdr) /\ Decodes(hdr) /\ rd.pc # "done" /\ ~Arming
        => expiry.st # "none"

TimerInv == TypeOK /\ HeaderHasTimer /\ SessionHasTimer

\* A step that keeps the header, does not make it decode again, starts nothing,
\* does not finish connection_init and keeps the timer.
LEMMA TimerFrame ==
    ASSUME TimerInv, TypeOK', hdr' = hdr, Decodes(hdr)' => Decodes(hdr),
           expiry.st # "none" => expiry'.st # "none",
           rd'.pc # "done" /\ ~Arming' => rd.pc # "done" /\ ~Arming,
           rd'.pc # "done" => rd.pc # "done",
           \A n \in Slots : op'[n].tok = op[n].tok
    PROVE  TimerInv'
<1>1. HeaderHasTimer'
  BY DEF TimerInv, HeaderHasTimer, HasExp
<1>2. SessionHasTimer'
  BY DEF TimerInv, SessionHasTimer
<1> QED
  BY <1>1, <1>2 DEF TimerInv

LEMMA TimerInit == Init => TimerInv
<1> SUFFICES ASSUME Init PROVE TimerInv
  OBVIOUS
<1>1. TypeOK
  BY TypeInit
<1>2. HeaderHasTimer
  BY DEF Init, WsInit, HeaderHasTimer
<1>3. SessionHasTimer
  BY DEF Init, WsInit, SessionHasTimer
<1> QED
  BY <1>1, <1>2, <1>3 DEF TimerInv

LEMMA TimerStep ==
    ASSUME ~JwkUrl, AtAuthorization
    PROVE  TimerInv /\ [Next]_vars => TimerInv'
<1> SUFFICES ASSUME TimerInv, [Next]_vars PROVE TimerInv'
  OBVIOUS
<1>0. TypeOK /\ TypeOK'
  BY TypeStep DEF TimerInv
<1>1. CASE UNCHANGED vars
  <2>1. UNCHANGED <<now, keys, hdr, rd, op, expiry>>
    BY <1>1 DEF vars
  <2> QED
    BY <1>0, <2>1, TimerFrame DEF Decodes, HasExp, Arming
<1>2. CASE Leave
  <2>1. rd'.pc = "done"
    BY <1>2 DEF Leave, At
  <2> QED
    BY <1>0, <2>1 DEF TimerInv, HeaderHasTimer, SessionHasTimer
<1>3. CASE ArmExpiry
  <2>1. UNCHANGED <<now, keys, hdr, op>> /\ rd.pc = "arm" /\ rd'.pc = "recv"
    BY <1>3 DEF ArmExpiry, Reading, At
  <2>2. expiry.st # "none" => expiry'.st # "none"
    BY <1>3 DEF ArmExpiry
  <2>3. hdr # NoToken /\ HasExp(hdr) /\ Decodes(hdr) => expiry'.st # "none"
    BY <1>3 DEF ArmExpiry
  <2>4. HeaderHasTimer'
    BY <2>1, <2>3 DEF HeaderHasTimer, Decodes, HasExp
  <2>5. SessionHasTimer'
    BY <2>1, <2>2 DEF TimerInv, SessionHasTimer
  <2> QED
    BY <1>0, <2>4, <2>5 DEF TimerInv
<1>4. CASE Register \/ ExecuteOnce
  <2>1. /\ UNCHANGED <<now, keys, hdr, expiry>>
        /\ rd.pc \in {"register", "exec"} /\ rd'.pc # "done"
    BY <1>4 DEF Register, ExecuteOnce, Reading, At, Sending
  <2>2. ASSUME NEW n \in Slots
        PROVE  op'[n].tok = op[n].tok
    <3>0. op \in [Slots -> OpRec] /\ op[n] \in OpRec /\ rd.n \in Slots
      BY <1>0, <2>1 DEF TypeOK
    <3>1. CASE ExecuteOnce
      <4>1. op'[n] = op[n] \/ op'[n] = [op[n] EXCEPT !.st = "done",
                                  !.resp = DbAfter(rd.n), !.ran = RanAfter(rd.n)]
        BY <3>0, <3>1 DEF ExecuteOnce
      <4> QED
        BY <3>0, <4>1 DEF OpRec
    <3>2. CASE Register
      <4>1. op'[n] = op[n] \/ op'[n] = Aborted(op[n])
        BY <3>0, <3>2 DEF Register
      <4>2. op[n].tok = Aborted(op[n]).tok
        BY <3>0 DEF Aborted, OpRec
      <4> QED
        BY <4>1, <4>2
    <3> QED
      BY <1>4, <3>1, <3>2
  <2> QED
    BY <1>0, <2>1, <2>2, TimerFrame DEF Decodes, HasExp, Arming
<1>5. CASE SendOk
  <2>1. UNCHANGED <<now, keys, hdr, op, expiry>> /\ rd.pc = "send"
    BY <1>5 DEF SendOk
  <2>2. \/ rd'.pc = rd.then
        \/ rd'.pc = rd.pc /\ rd'.then = rd.then
    BY <1>0, <1>5 DEF SendOk, At, TypeOK, RdRec
  <2> QED
    BY <1>0, <2>1, <2>2, TimerFrame DEF Decodes, HasExp, Arming
<1>6. CASE \E t \in Tokens \cup {NoToken} : RecvInit(t)
  <2>1. UNCHANGED <<op, expiry>> /\ rd.pc = "recv" /\ Arming'
    BY <1>6 DEF RecvInit, Receiving, Arming, Sending
  <2> QED
    BY <1>0, <2>1 DEF TimerInv, HeaderHasTimer, SessionHasTimer
<1>7. CASE RecvStartDenied \/ RecvBad
  <2>1. UNCHANGED <<now, keys, hdr, op, expiry>> /\ rd.pc = "recv"
    BY <1>7 DEF RecvStartDenied, RecvBad, Receiving
  <2> QED
    BY <1>0, <2>1, TimerFrame DEF Decodes, HasExp, Arming
<1>8. CASE \E n \in Slots, id \in Ids, p \in Payloads : RecvStart(n, id, p)
  <2> PICK n \in Slots, id \in Ids, p \in Payloads : RecvStart(n, id, p)
    BY <1>8
  <2>1. /\ UNCHANGED <<now, keys, hdr, expiry>> /\ rd.pc = "recv"
        /\ \A m \in Slots : m # n => op'[m] = op[m]
        /\ op'[n].tok = hdr
        /\ SessionOK
    BY <1>0 DEF RecvStart, Receiving, TypeOK
  <2>2. HeaderHasTimer'
    BY <2>1 DEF TimerInv, HeaderHasTimer, Decodes, HasExp, Arming
  <2>3. hdr # NoToken /\ hdr.exp >= 0 => expiry.st # "none"
    BY <2>1 DEF TimerInv, HeaderHasTimer, SessionOK, HasExp, Arming
  <2>4. SessionHasTimer'
    BY <2>1, <2>3 DEF TimerInv, SessionHasTimer
  <2> QED
    BY <1>0, <2>2, <2>4 DEF TimerInv
<1>9. CASE \E id \in StrIds : RecvStop(id)
  <2> PICK id \in StrIds : RecvStop(id)
    BY <1>9
  <2>1. UNCHANGED <<now, keys, hdr, rd, expiry>>
    BY DEF RecvStop
  <2>2. \A n \in Slots : op'[n].tok = op[n].tok
    BY <1>0 DEF RecvStop, TypeOK, OpRec, Aborted
  <2> QED
    BY <1>0, <2>1, <2>2, TimerFrame DEF Decodes, HasExp, Arming
<1>10. CASE \E n \in Slots : PollerStep(n)
  <2> PICK n \in Slots : PollerStep(n)
    BY <1>10
  <2>1. UNCHANGED <<now, keys, hdr, rd, expiry>>
    BY DEF PollerStep, Poll, Deliver, Cancel, Wake
  <2>2. \A m \in Slots : m # n => op'[m] = op[m]
    BY <1>0 DEF PollerStep, Poll, Deliver, Cancel, Wake, TypeOK
  <2>3. op'[n].tok = op[n].tok
    <3>0. op[n] \in OpRec /\ op \in [Slots -> OpRec]
      BY <1>0 DEF TypeOK
    <3>1. CASE Poll(n)
      BY <3>0, <3>1 DEF Poll, OpRec
    <3>2. CASE Deliver(n)
      BY <3>0, <3>2 DEF Deliver, OpRec
    <3>3. CASE Cancel(n)
      BY <3>0, <3>3 DEF Cancel, OpRec
    <3>4. CASE Wake(n)
      BY <3>0, <3>4 DEF Wake, OpRec
    <3> QED
      BY <3>1, <3>2, <3>3, <3>4 DEF PollerStep
  <2>4. \A m \in Slots : op'[m].tok = op[m].tok
    BY <2>2, <2>3
  <2> QED
    BY <1>0, <2>1, <2>4, TimerFrame DEF Decodes, HasExp, Arming
<1>11. CASE ExpiryFire
  <2>1. UNCHANGED <<now, keys, hdr, rd, op>> /\ expiry'.st = "fired"
    BY <1>0, <1>11 DEF ExpiryFire, TypeOK
  <2> QED
    BY <1>0, <2>1, TimerFrame DEF Decodes, HasExp, Arming
<1>12. CASE Environment
  <2>1. /\ UNCHANGED <<hdr, rd, op, expiry, keys>>
        /\ now' = now \/ now' = now + 1
    BY <1>12 DEF Environment, Tick, DbChange, TransportFails, Drain, KeyStep, wsVars,
                 KeyNext, Publish, Refresh
  <2>2. hdr # NoToken => (Decodes(hdr)' => Decodes(hdr))
    BY <1>0, <2>1, WsAssumption DEF Decodes, HasExp, TypeOK
  <2>3. HeaderHasTimer'
    BY <2>1, <2>2 DEF TimerInv, HeaderHasTimer, HasExp, Arming
  <2>4. SessionHasTimer'
    BY <2>1 DEF TimerInv, SessionHasTimer
  <2> QED
    BY <1>0, <2>3, <2>4 DEF TimerInv
<1> QED
  BY <1>1, <1>2, <1>3, <1>4, <1>5, <1>6, <1>7, <1>8, <1>9, <1>10, <1>11, <1>12
  DEF Next, ReaderStep, ClientStep, SendFails, StreamEnds, RecvEnd

\* With keys fixed at boot and the token read from the Authorization header,
\* every operation let in under an expiring token has the connection's expiry
\* task behind it, whatever frames the client sends and in whatever order.
THEOREM ExpiryTaskExists ==
    ASSUME ~JwkUrl, AtAuthorization
    PROVE  Spec => []SessionHasTimer
<1>1. TimerInv => SessionHasTimer
  BY DEF TimerInv
<1>2. TimerInv /\ [Next]_vars => TimerInv'
  BY TimerStep
<1> QED
  BY TimerInit, <1>1, <1>2, PTL DEF Spec

----------------------------------------------------------------------------
\* No document defines a subscription and has a mutation selected.
Separate == \A p \in Payloads : IsSubscription(p) => p.sel # "mutation"

\* How often an operation with this record has run: not yet when it waits for
\* the reader, once when it is answered, any number of times for a poller,
\* which is no mutation.
RunsRight(r) ==
    /\ r.st \in {"free", "once"} => r.ran = 0
    /\ r.st = "done" /\ r.pay.sel = "mutation" => r.ran = 1
    /\ r.st \in {"exec", "have", "sleep", "dying", "dead"} => r.pay.sel # "mutation"

OnceInv ==
    /\ TypeOK
    /\ \A n \in Slots : RunsRight(op[n])
    /\ rd.pc = "exec" => op[rd.n].st = "once"

LEMMA AbortedRunsRight ==
    ASSUME NEW r \in OpRec, RunsRight(r)
    PROVE  RunsRight(Aborted(r)) /\ (r.st = "once" => Aborted(r).st = "once")
BY DEF Aborted, OpRec, RunsRight

LEMMA OnceInit == Init => OnceInv
<1> SUFFICES ASSUME Init PROVE OnceInv
  OBVIOUS
<1>1. TypeOK
  BY TypeInit
<1>2. \A n \in Slots : op[n].st = "free" /\ op[n].ran = 0
  BY DEF Init, WsInit
<1>3. rd.pc = "recv"
  BY DEF Init, WsInit, Reading, At
<1> QED
  BY <1>1, <1>2, <1>3 DEF OnceInv, RunsRight

\* A step that keeps, or aborts, every operation, and does not bring the
\* reader to an execution.
LEMMA OnceFrame ==
    ASSUME OnceInv, TypeOK', \A n \in Slots : op'[n] \in {op[n], Aborted(op[n])},
           rd' = rd \/ rd'.pc # "exec"
    PROVE  OnceInv'
<1>1. \A n \in Slots : RunsRight(op[n]) /\ op[n] \in OpRec
  BY DEF OnceInv, TypeOK
<1>2. ASSUME NEW n \in Slots
      PROVE  RunsRight(op'[n]) /\ (op[n].st = "once" => op'[n].st = "once")
  BY <1>1, AbortedRunsRight
<1>3. rd'.pc = "exec" => op'[rd'.n].st = "once"
  <2> SUFFICES ASSUME rd'.pc = "exec" PROVE op'[rd'.n].st = "once"
    OBVIOUS
  <2>1. rd' = rd /\ rd.pc = "exec"
    OBVIOUS
  <2>2. rd.n \in Slots /\ op[rd.n].st = "once"
    BY <2>1 DEF OnceInv, TypeOK
  <2> QED
    BY <1>2, <2>1, <2>2
<1> QED
  BY <1>2, <1>3 DEF OnceInv

LEMMA OnceStep ==
    ASSUME Separate, OnceInv, [Next]_vars
    PROVE  OnceInv'
<1>0. TypeOK /\ TypeOK' /\ op \in [Slots -> OpRec]
  BY TypeStep DEF OnceInv, TypeOK
<1>1. CASE \/ \E t \in Tokens \cup {NoToken} : RecvInit(t)
           \/ ArmExpiry \/ RecvStartDenied \/ RecvBad \/ SendOk
  <2>1. op' = op
    BY <1>1 DEF RecvInit, ArmExpiry, RecvStartDenied, RecvBad, SendOk
  <2>2. rd'.pc # "exec"
    <3>1. CASE SendOk
      BY <1>0, <3>1 DEF SendOk, At, TypeOK, RdRec
    <3> QED
      BY <1>1, <3>1 DEF RecvInit, ArmExpiry, RecvStartDenied, RecvBad, At, Sending, Reading
  <2> QED
    BY <1>0, <2>1, <2>2, OnceFrame
<1>2. CASE \E n \in Slots, id \in Ids, p \in Payloads : RecvStart(n, id, p)
  <2> PICK n \in Slots, id \in Ids, p \in Payloads : RecvStart(n, id, p)
    BY <1>2
  <2>1. \A m \in Slots : m # n => op'[m] = op[m]
    BY <1>0 DEF RecvStart
  <2>2. /\ op'[n].st = IF IsSubscription(p) THEN "exec" ELSE "once"
        /\ op'[n].pay = p /\ op'[n].ran = 0
    BY <1>0 DEF RecvStart
  <2>3. RunsRight(op'[n])
    BY <2>2 DEF RunsRight, Separate
  <2>4. rd'.n = n /\ (rd'.pc = "exec" => op'[n].st = "once")
    BY <2>2 DEF RecvStart, At
  <2> QED
    BY <1>0, <2>1, <2>3, <2>4 DEF OnceInv
<1>3. CASE Register
  <2>1. rd'.pc # "exec"
    BY <1>3 DEF Register, Reading, At
  <2>2. \A n \in Slots : op'[n] \in {op[n], Aborted(op[n])}
    BY <1>0, <1>3 DEF Register
  <2> QED
    BY <1>0, <2>1, <2>2, OnceFrame
<1>4. CASE ExecuteOnce
  <2>1. rd.n \in Slots /\ op[rd.n].st = "once" /\ op[rd.n] \in OpRec /\ RunsRight(op[rd.n])
    BY <1>0, <1>4 DEF ExecuteOnce, OnceInv, TypeOK
  <2>2. /\ op'[rd.n].st = "done" /\ op'[rd.n].ran = RanAfter(rd.n)
        /\ op'[rd.n].pay = op[rd.n].pay
        /\ \A m \in Slots : m # rd.n => op'[m] = op[m]
    BY <1>0, <1>4, <2>1 DEF ExecuteOnce, OpRec
  <2>3. op[rd.n].ran = 0
    BY <2>1 DEF RunsRight
  <2>4. op[rd.n].pay.sel = "mutation" => op'[rd.n].ran = 1
    BY <2>2, <2>3 DEF RanAfter, Mutates
  <2>5. RunsRight(op'[rd.n])
    BY <2>2, <2>4 DEF RunsRight
  <2>6. rd'.pc # "exec"
    BY <1>4 DEF ExecuteOnce, Sending
  <2> QED
    BY <1>0, <2>2, <2>5, <2>6 DEF OnceInv
<1>5. CASE \E id \in StrIds : RecvStop(id)
  <2>1. rd' = rd /\ \A n \in Slots : op'[n] \in {op[n], Aborted(op[n])}
    BY <1>0, <1>5 DEF RecvStop
  <2> QED
    BY <1>0, <2>1, OnceFrame
<1>6. CASE Leave
  <2>1. rd'.pc # "exec" /\ \A n \in Slots : op'[n] \in {op[n], Aborted(op[n])}
    BY <1>6 DEF Leave, At
  <2> QED
    BY <1>0, <2>1, OnceFrame
<1>7. ASSUME NEW n \in Slots, PollerStep(n) PROVE OnceInv'
  <2>0. op[n] \in OpRec /\ RunsRight(op[n]) /\ rd' = rd
    BY <1>0, <1>7 DEF OnceInv, PollerStep, Poll, Deliver, Cancel, Wake
  <2>1. op[n].st \in {"exec", "have", "sleep", "dying"}
    BY <1>7 DEF PollerStep, Poll, Deliver, Cancel, Wake
  <2>2. /\ op'[n].st \in {"exec", "have", "sleep", "dead"} /\ op'[n].pay = op[n].pay
        /\ \A m \in Slots : m # n => op'[m] = op[m]
    <3>1. CASE Poll(n)
      BY <1>0, <2>0, <3>1 DEF Poll, OpRec
    <3>2. CASE Deliver(n)
      BY <1>0, <2>0, <3>2 DEF Deliver, OpRec
    <3>3. CASE Cancel(n)
      BY <1>0, <2>0, <3>3 DEF Cancel, OpRec
    <3>4. CASE Wake(n)
      BY <1>0, <2>0, <3>4 DEF Wake, OpRec
    <3> QED
      BY <1>7, <3>1, <3>2, <3>3, <3>4 DEF PollerStep
  <2>3. RunsRight(op'[n])
    BY <2>0, <2>1, <2>2 DEF RunsRight
  <2>4. rd.pc = "exec" => rd.n \in Slots /\ rd.n # n /\ op[rd.n].st = "once"
    BY <1>0, <2>1 DEF OnceInv, TypeOK
  <2> QED
    BY <1>0, <2>0, <2>2, <2>3, <2>4 DEF OnceInv
<1>8. CASE ExpiryFire \/ Environment \/ UNCHANGED vars
  <2>1. UNCHANGED <<rd, op>>
    BY <1>8 DEF ExpiryFire, Environment, Tick, DbChange, TransportFails, Drain, KeyStep,
                wsVars, vars
  <2> QED
    BY <1>0, <2>1, OnceFrame
<1> QED
  BY <1>1, <1>2, <1>3, <1>4, <1>5, <1>6, <1>7, <1>8
  DEF Next, ReaderStep, ClientStep, SendFails, StreamEnds, RecvEnd

\* When no document mixes a subscription with a selected mutation, every
\* mutation sent over the connection runs exactly once before its answer goes
\* out, whatever ids are reused, stopped or aborted meanwhile.
THEOREM MutationsRunOnce ==
    ASSUME Separate
    PROVE  Spec => []MutationOnce
<1>1. OnceInv => MutationOnce
  <2> SUFFICES ASSUME OnceInv, NEW n \in Slots, Mutates(n)
               PROVE  op[n].ran <= 1 /\ (op[n].st = "done" => op[n].ran = 1)
    BY DEF MutationOnce
  <2>1. op[n] \in OpRec /\ RunsRight(op[n]) /\ op[n].pay.sel = "mutation"
    BY DEF OnceInv, TypeOK, Mutates
  <2> QED
    BY <2>1 DEF RunsRight, OpRec
<1>2. OnceInv /\ [Next]_vars => OnceInv'
  BY OnceStep
<1> QED
  BY OnceInit, <1>1, <1>2, PTL DEF Spec

----------------------------------------------------------------------------
(* A live query is ended by its owner.  The map finds tasks by id_key, so   *)
(* the ids the client uses must not share a key; that every started         *)
(* operation carries an id of the client and that the reader never executes *)
(* a poller's operation completes the invariant.                            *)

\* No two ids that the client uses have the same id_key.
Distinct == \A i, j \in Ids : IdKey(i) = IdKey(j) => i = j

Named == \A n \in Slots : op[n].st # "free" => op[n].id \in Ids

Running == rd.pc = "exec" => op[rd.n].st = "once"

EndInv == OwnerInv /\ Named /\ Running

LEMMA EndInit == Init => EndInv
<1> SUFFICES ASSUME Init PROVE EndInv
  OBVIOUS
<1>1. OwnerInv
  BY OwnerInit
<1>2. \A n \in Slots : op[n].st = "free"
  BY DEF Init, WsInit
<1>3. rd.pc = "recv"
  BY DEF Init, WsInit, Reading, At
<1> QED
  BY <1>1, <1>2, <1>3 DEF EndInv, Named, Running

\* A step that keeps or aborts every operation, and does not bring the reader
\* to an execution.
LEMMA EndFrame ==
    ASSUME EndInv, OwnerInv', \A n \in Slots : op'[n] \in {op[n], Aborted(op[n])},
           rd' = rd \/ rd'.pc # "exec"
    PROVE  EndInv'
<1>1. ASSUME NEW n \in Slots
      PROVE  /\ op'[n].id = op[n].id
             /\ op[n].st \in {"free", "once"} => op'[n].st = op[n].st
  <2>1. op[n] \in OpRec
    BY DEF EndInv, OwnerInv, TypeOK
  <2> QED
    BY <2>1 DEF Aborted, OpRec
<1>2. Named'
  <2> SUFFICES ASSUME NEW n \in Slots, op'[n].st # "free"
               PROVE  op'[n].id \in Ids
    BY DEF Named, Ids, Slots
  <2>1. op[n].st # "free"
    BY <1>1
  <2> QED
    BY <1>1, <2>1 DEF EndInv, Named
<1>3. Running'
  <2> SUFFICES ASSUME rd'.pc = "exec" PROVE op'[rd'.n].st = "once"
    BY DEF Running
  <2>1. rd' = rd /\ rd.n \in Slots /\ op[rd.n].st = "once"
    BY DEF EndInv, OwnerInv, TypeOK, Running
  <2> QED
    BY <1>1, <2>1
<1> QED
  BY <1>2, <1>3 DEF EndInv

LEMMA EndStep == EndInv /\ [Next]_vars => EndInv'
<1> SUFFICES ASSUME EndInv, [Next]_vars PROVE EndInv'
  OBVIOUS
<1>0. OwnerInv' /\ TypeOK /\ op \in [Slots -> OpRec]
  BY OwnerStep DEF EndInv, OwnerInv, TypeOK
<1>1. CASE \/ \E t \in Tokens \cup {NoToken} : RecvInit(t)
           \/ ArmExpiry \/ RecvStartDenied \/ RecvBad \/ SendOk
  <2>1. op' = op
    BY <1>1 DEF RecvInit, ArmExpiry, RecvStartDenied, RecvBad, SendOk
  <2>2. rd'.pc # "exec"
    <3>1. CASE SendOk
      BY <1>0, <3>1 DEF SendOk, At, TypeOK, RdRec
    <3> QED
      BY <1>1, <3>1 DEF RecvInit, ArmExpiry, RecvStartDenied, RecvBad, At, Sending, Reading
  <2> QED
    BY <1>0, <2>1, <2>2, EndFrame
<1>2. CASE \E n \in Slots, id \in Ids, p \in Payloads : RecvStart(n, id, p)
  <2> PICK n \in Slots, id \in Ids, p \in Payloads : RecvStart(n, id, p)
    BY <1>2
  <2>1. \A m \in Slots : m # n => op'[m] = op[m]
    BY <1>0 DEF RecvStart
  <2>2. op'[n].id = id /\ op'[n].st = IF IsSubscription(p) THEN "exec" ELSE "once"
    BY <1>0 DEF RecvStart
  <2>3. rd'.n = n /\ (rd'.pc = "exec" => op'[n].st = "once")
    BY <2>2 DEF RecvStart, At
  <2>4. Named'
    BY <2>1, <2>2 DEF EndInv, Named, Ids, Slots
  <2>5. Running'
    BY <2>3 DEF Running
  <2> QED
    BY <1>0, <2>4, <2>5 DEF EndInv
<1>3. CASE Register \/ Leave
  <2>1. rd'.pc # "exec" /\ \A n \in Slots : op'[n] \in {op[n], Aborted(op[n])}
    BY <1>0, <1>3 DEF Register, Leave, Reading, At
  <2> QED
    BY <1>0, <2>1, EndFrame
<1>4. CASE ExecuteOnce
  <2>1. rd.n \in Slots /\ op[rd.n].st = "once" /\ op[rd.n] \in OpRec
    BY <1>0, <1>4 DEF ExecuteOnce, EndInv, Running, TypeOK
  <2>2. /\ op'[rd.n].id = op[rd.n].id
        /\ \A m \in Slots : m # rd.n => op'[m] = op[m]
    BY <1>0, <1>4, <2>1 DEF ExecuteOnce, OpRec
  <2>3. Named'
    BY <2>1, <2>2 DEF EndInv, Named, Ids, Slots
  <2>4. Running'
    BY <1>4 DEF ExecuteOnce, Sending, Running
  <2> QED
    BY <1>0, <2>3, <2>4 DEF EndInv
<1>5. CASE \E id \in StrIds : RecvStop(id)
  <2>1. rd' = rd /\ \A n \in Slots : op'[n] \in {op[n], Aborted(op[n])}
    BY <1>0, <1>5 DEF RecvStop
  <2> QED
    BY <1>0, <2>1, EndFrame
<1>6. ASSUME NEW n \in Slots, PollerStep(n) PROVE EndInv'
  <2>1. rd' = rd /\ op[n] \in OpRec /\ op[n].st \notin {"free", "once"}
    BY <1>0, <1>6 DEF PollerStep, Poll, Deliver, Cancel, Wake
  <2>2. op'[n].id = op[n].id /\ \A m \in Slots : m # n => op'[m] = op[m]
    <3>1. CASE Poll(n)
      BY <1>0, <2>1, <3>1 DEF Poll, OpRec
    <3>2. CASE Deliver(n)
      BY <1>0, <2>1, <3>2 DEF Deliver, OpRec
    <3>3. CASE Cancel(n) \/ Wake(n)
      BY <1>0, <2>1, <3>3 DEF Cancel, Wake, OpRec
    <3> QED
      BY <1>6, <3>1, <3>2, <3>3 DEF PollerStep
  <2>3. Named'
    BY <2>1, <2>2 DEF EndInv, Named, Ids, Slots
  <2>4. rd.pc = "exec" => rd.n \in Slots /\ rd.n # n /\ op[rd.n].st = "once"
    BY <1>0, <2>1 DEF EndInv, Running, TypeOK
  <2>5. Running'
    BY <2>1, <2>2, <2>4 DEF Running
  <2> QED
    BY <1>0, <2>3, <2>5 DEF EndInv
<1>7. CASE ExpiryFire \/ Environment \/ UNCHANGED vars
  <2>1. UNCHANGED <<rd, op>>
    BY <1>7 DEF ExpiryFire, Environment, Tick, DbChange, TransportFails, Drain, KeyStep,
                wsVars, vars
  <2> QED
    BY <1>0, <2>1, EndFrame
<1> QED
  BY <1>1, <1>2, <1>3, <1>4, <1>5, <1>6, <1>7
  DEF Next, ReaderStep, ClientStep, SendFails, StreamEnds, RecvEnd

\* When the client's ids do not share an id_key (all are strings, or one is
\* not and the empty string is not used), nothing but a stop or a new start
\* with its own id, a failed send or the end of serve() ends a live query.
THEOREM OnlyItsOwnerEnds ==
    ASSUME Distinct
    PROVE  Spec => EndedByItsOwner
<1> DEFINE Owner(n) == \/ RecvStop(op[n].id)
                       \/ rd.pc = "register" /\ op[rd.n].id = op[n].id
                       \/ rd'.pc = "done"
                       \/ conn # "open"
           Ends == \A n \in Slots : Live(n) /\ ~Live(n)' => Owner(n)
<1>1. ASSUME EndInv, [Next]_vars PROVE Ends
  <2> SUFFICES ASSUME NEW n \in Slots, Live(n), ~Live(n)' PROVE Owner(n)
    OBVIOUS
  <2>0. TypeOK /\ op \in [Slots -> OpRec] /\ op[n] \in OpRec /\ op[n].id \in Ids
    BY <1>1 DEF EndInv, OwnerInv, TypeOK, Named, Live
  <2>1. op'[n] # op[n]
    BY DEF Live
  <2>2. CASE Leave
    BY <2>2 DEF Leave, At
  <2>3. CASE Register
    <3> DEFINE k == IdKey(op[rd.n].id)
    <3>1. rd.pc = "register" /\ rd.n \in Slots /\ k \in IdKeys
      BY <2>0, <2>3 DEF Register, TypeOK, IdKey, IdKeys
    <3>2. op[rd.n].st # "free" /\ op[rd.n].id \in Ids
      BY <1>1, <3>1 DEF EndInv, OwnerInv, Pending, Named
    <3>3. subs[k] # 0 /\ subs[k] = n
      BY <2>0, <2>1, <2>3 DEF Register
    <3>4. IdKey(op[n].id) = k
      BY <1>1, <3>1, <3>3 DEF EndInv, OwnerInv, Held
    <3>5. op[rd.n].id = op[n].id
      BY <2>0, <3>2, <3>4 DEF Distinct
    <3> QED
      BY <3>1, <3>5
  <2>4. CASE \E id \in StrIds : RecvStop(id)
    <3> PICK id \in StrIds : RecvStop(id)
      BY <2>4
    <3>1. id \in IdKeys /\ id \in Ids /\ IdKey(id) = id
      BY DEF IdKeys, Ids, IdKey
    <3>2. subs[id] # 0 /\ subs[id] = n
      BY <2>0, <2>1 DEF RecvStop
    <3>3. IdKey(op[n].id) = id
      BY <1>1, <3>1, <3>2 DEF EndInv, OwnerInv, Held
    <3>4. op[n].id = id
      BY <2>0, <3>1, <3>3 DEF Distinct
    <3> QED
      BY <3>4
  <2>5. CASE ExecuteOnce
    <3>1. rd.n \in Slots /\ op[rd.n].st = "once"
      BY <1>1, <2>0, <2>5 DEF ExecuteOnce, EndInv, Running, TypeOK
    <3>2. rd.n # n
      BY <3>1 DEF Live
    <3> QED
      BY <2>0, <2>1, <2>5, <3>2 DEF ExecuteOnce
  <2>6. CASE \E m \in Slots, id \in Ids, p \in Payloads : RecvStart(m, id, p)
    BY <2>0, <2>1, <2>6 DEF RecvStart, Live
  <2>7. ASSUME NEW m \in Slots, PollerStep(m) PROVE Owner(n)
    <3>1. m = n
      BY <2>0, <2>1, <2>7 DEF PollerStep, Poll, Deliver, Cancel, Wake
    <3>2. CASE Poll(n)
      BY <2>0, <3>2 DEF Poll, Live, OpRec
    <3>3. CASE Deliver(n)
      BY <2>0, <3>3 DEF Deliver, Live, OpRec
    <3>4. CASE Cancel(n)
      BY <3>4 DEF Cancel, Live
    <3>5. CASE Wake(n)
      BY <2>0, <3>5 DEF Wake, Live, OpRec
    <3> QED
      BY <2>7, <3>1, <3>2, <3>3, <3>4, <3>5 DEF PollerStep
  <2>8. CASE \/ \E t \in Tokens \cup {NoToken} : RecvInit(t)
             \/ ArmExpiry \/ RecvStartDenied \/ RecvBad \/ SendOk
             \/ ExpiryFire \/ Environment \/ UNCHANGED vars
    <3>1. op' = op
      BY <2>8 DEF RecvInit, ArmExpiry, RecvStartDenied, RecvBad, SendOk, ExpiryFire,
                  Environment, Tick, DbChange, TransportFails, Drain, KeyStep, wsVars, vars
    <3> QED
      BY <2>1, <3>1
  <2> QED
    BY <1>1, <2>2, <2>3, <2>4, <2>5, <2>6, <2>7, <2>8
    DEF Next, ReaderStep, ClientStep, SendFails, StreamEnds, RecvEnd
<1>2. EndInv /\ [Next]_vars => Ends
  BY <1>1
<1>3. EndInv /\ [Next]_vars => EndInv'
  BY EndStep
<1> HIDE DEF Owner
<1>4. Spec => [][Ends]_vars
  BY EndInit, <1>2, <1>3, PTL DEF Spec
<1> QED
  BY <1>4 DEF EndedByItsOwner, Owner

----------------------------------------------------------------------------
(* What is left of a handler: the steps that the reader takes before it     *)
(* reads the next frame.                                                    *)

ThenLeft(pc) == IF pc = "arm" THEN 1 ELSE 0

StepsLeft(r) ==
    CASE r.pc = "exec" -> 3
      [] r.pc = "send" -> Len(r.out) + ThenLeft(r.then)
      [] r.pc \in {"arm", "register"} -> 1
      [] OTHER -> 0

LEMMA StepsLeftType ==
    ASSUME NEW r \in RdRec
    PROVE  /\ StepsLeft(r) \in Nat
           /\ r.pc = "exec" => StepsLeft(r) = 3
           /\ r.pc = "send" => StepsLeft(r) = Len(r.out) + ThenLeft(r.then)
           /\ r.pc \in {"arm", "register"} => StepsLeft(r) = 1
           /\ r.pc \in {"recv", "done"} => StepsLeft(r) = 0
<1>1. /\ r.pc \in {"recv", "send", "arm", "register", "exec", "done"}
      /\ r.out \in Seq({"must", "try"})
  BY DEF RdRec
<1>2. Len(r.out) \in Nat /\ ThenLeft(r.then) \in Nat
  BY <1>1 DEF ThenLeft
<1>3. CASE r.pc = "exec"
  BY <1>3 DEF StepsLeft
<1>4. CASE r.pc = "send"
  BY <1>2, <1>4 DEF StepsLeft
<1>5. CASE r.pc \in {"arm", "register"}
  BY <1>5 DEF StepsLeft
<1>6. CASE r.pc \in {"recv", "done"}
  BY <1>6 DEF StepsLeft
<1> QED
  BY <1>1, <1>3, <1>4, <1>5, <1>6

\* Whoever moves the reader moves it towards its next frame: a frame costs at
\* most three steps, and once serve() has returned the reader is not moved.
Nears == rd' # rd => IF rd.pc = "recv" THEN StepsLeft(rd') <= 3
                     ELSE rd.pc # "done" /\ StepsLeft(rd') < StepsLeft(rd)

LEMMA SendingLeft ==
    ASSUME NEW f \in {<<"must", "try">>, <<"try", "try">>, <<"try">>}, NEW pc \in {"recv", "arm"}
    PROVE  StepsLeft(Sending(f, pc)) = Len(f) + ThenLeft(pc)
<1>1. Sending(f, pc) \in RdRec /\ Sending(f, pc).pc = "send" /\ Sending(f, pc).then = pc
  BY RdType
<1>2. Sending(f, pc).out = f
  BY DEF Sending
<1> QED
  BY <1>1, <1>2, StepsLeftType

LEMMA AtLeft ==
    /\ \A n \in 0..MaxStarts : /\ StepsLeft(At("recv", n)) = 0
                               /\ StepsLeft(At("done", n)) = 0
                               /\ StepsLeft(At("arm", n)) = 1
                               /\ StepsLeft(At("register", n)) = 1
                               /\ StepsLeft(At("exec", n)) = 3
    /\ 0 \in 0..MaxStarts
<1>1. 0 \in 0..MaxStarts
  BY WsAssumption
<1>2. ASSUME NEW n \in 0..MaxStarts, NEW pc \in {"recv", "arm", "register", "exec", "done"}
      PROVE  At(pc, n) \in RdRec /\ At(pc, n).pc = pc
  BY RdType
<1>3. ASSUME NEW n \in 0..MaxStarts
      PROVE  /\ StepsLeft(At("recv", n)) = 0 /\ StepsLeft(At("done", n)) = 0
             /\ StepsLeft(At("arm", n)) = 1 /\ StepsLeft(At("register", n)) = 1
             /\ StepsLeft(At("exec", n)) = 3
  BY <1>2, StepsLeftType
<1> QED
  BY <1>1, <1>3

LEMMA ReaderNears == TypeOK /\ [Next]_vars => Nears
<1> SUFFICES ASSUME TypeOK, [Next]_vars PROVE Nears
  OBVIOUS
<1>0. rd \in RdRec /\ (rd.pc = "send" => Len(rd.out) >= 1)
  BY DEF TypeOK
<1>1. CASE ArmExpiry \/ Register
  <2>1. rd' = At("recv", 0) /\ rd.pc \in {"arm", "register"}
    BY <1>1 DEF ArmExpiry, Register, Reading
  <2>2. StepsLeft(rd) = 1 /\ StepsLeft(rd') = 0
    BY <1>0, <2>1, AtLeft, StepsLeftType
  <2> QED
    BY <2>1, <2>2 DEF Nears
<1>2. CASE ExecuteOnce
  <2>1. StepsLeft(rd') = 2
    BY <1>2, SendingLeft DEF ExecuteOnce, ThenLeft
  <2>2. rd.pc = "exec" /\ StepsLeft(rd) = 3
    BY <1>0, <1>2, StepsLeftType DEF ExecuteOnce
  <2> QED
    BY <2>1, <2>2 DEF Nears
<1>3. CASE SendOk
  <2>1. rd.pc = "send" /\ StepsLeft(rd) = Len(rd.out) + ThenLeft(rd.then)
    BY <1>0, <1>3, StepsLeftType DEF SendOk
  <2>2. rd.out \in Seq({"must", "try"}) /\ Len(rd.out) \in Nat /\ rd.then \in {"recv", "arm"}
    BY <1>0 DEF RdRec
  <2>5. ThenLeft(rd.then) \in Nat
    BY DEF ThenLeft
  <2>3. CASE Len(rd.out) = 1
    BY <1>3, <2>1, <2>2, <2>3, AtLeft DEF SendOk, Nears, ThenLeft
  <2>4. CASE Len(rd.out) # 1
    <3>1. rd' = [rd EXCEPT !.out = Tail(rd.out)]
      BY <1>3, <2>4 DEF SendOk
    <3>2. Tail(rd.out) \in Seq({"must", "try"}) /\ Len(Tail(rd.out)) = Len(rd.out) - 1
      BY <1>0, <2>1, <2>2
    <3>3. rd' \in RdRec /\ rd'.pc = "send" /\ rd'.then = rd.then /\ rd'.out = Tail(rd.out)
      BY <1>0, <2>1, <3>1, <3>2 DEF RdRec
    <3>4. StepsLeft(rd') = Len(rd.out) - 1 + ThenLeft(rd.then)
      BY <3>2, <3>3, StepsLeftType
    <3> QED
      BY <2>1, <2>2, <2>5, <3>4 DEF Nears
  <2> QED
    BY <2>3, <2>4
<1>4. CASE SendFails \/ StreamEnds \/ RecvEnd
  <2>1. StepsLeft(rd') = 0 /\ rd.pc \in {"send", "recv"}
    BY <1>4, AtLeft DEF SendFails, StreamEnds, RecvEnd, Receiving, Leave
  <2>2. rd.pc = "send" => StepsLeft(rd) > 0
    <3>1. Len(rd.out) \in Nat /\ ThenLeft(rd.then) \in Nat
      BY <1>0 DEF RdRec, ThenLeft
    <3>2. rd.pc = "send" => StepsLeft(rd) = Len(rd.out) + ThenLeft(rd.then)
      BY <1>0, StepsLeftType
    <3> QED
      BY <1>0, <3>1, <3>2
  <2> QED
    BY <2>1, <2>2 DEF Nears
<1>5. CASE (\E t \in Tokens \cup {NoToken} : RecvInit(t)) \/ RecvStartDenied \/ RecvBad
  <2>1. rd.pc = "recv" /\ StepsLeft(rd') <= 3
    BY <1>5, SendingLeft DEF ThenLeft, RecvInit, RecvStartDenied, RecvBad, Receiving
  <2> QED
    BY <2>1 DEF Nears
<1>6. ASSUME NEW n \in Slots, NEW id \in Ids, NEW p \in Payloads, RecvStart(n, id, p)
      PROVE  Nears
  <2>1. n \in 0..MaxStarts
    BY WsAssumption DEF Slots
  <2>2. rd.pc = "recv" /\ StepsLeft(rd') <= 3
    BY <1>6, <2>1, AtLeft DEF RecvStart, Receiving
  <2> QED
    BY <2>2 DEF Nears
<1>7. CASE \/ \E id \in StrIds : RecvStop(id)
           \/ \E n \in Slots : PollerStep(n)
           \/ ExpiryFire \/ Environment \/ UNCHANGED vars
  <2>1. rd' = rd
    BY <1>7 DEF RecvStop, PollerStep, Poll, Deliver, Cancel, Wake, ExpiryFire, Environment,
                Tick, DbChange, TransportFails, Drain, KeyStep, wsVars, vars
  <2> QED
    BY <2>1 DEF Nears
<1> QED
  BY <1>1, <1>2, <1>3, <1>4, <1>5, <1>6, <1>7 DEF Next, ReaderStep, ClientStep

\* ws.rs, serve: whatever pollers, the expiry task, the peer and the database
\* do in between, the handler of a frame is never restarted or prolonged; it
\* is at most three steps from the next stream.next(), and each of its own
\* steps brings it nearer.  A send that returns is all that ReaderReturns
\* then needs.
THEOREM HandlersComeToAnEnd == Spec => [][Nears]_vars
BY TypeInit, TypeStep, ReaderNears, PTL DEF Spec
=============================================================================
