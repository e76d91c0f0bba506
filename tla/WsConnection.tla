---------------------------- MODULE WsConnection ----------------------------
(***************************************************************************)
(* One graphql-ws connection (crates/server/src/ws.rs, serve): the reader  *)
(* loop, one poller task per live query, the token-expiry task, the shared *)
(* sink they all write to, and the abort() calls between them.  The JWT    *)
(* keys that decide which sessions resolve come from KeyCache.             *)
(*                                                                         *)
(* A database state is a number; a response is the database state it was   *)
(* computed from.  A document is the set of operation kinds it defines and *)
(* the kind of the operation that its operationName selects.               *)
(***************************************************************************)
EXTENDS KeyCache, Integers, Sequences

CONSTANTS StrIds,     \* operation ids that are JSON strings
          OtherIds,   \* ids that are not: numbers, null, missing
          EmptyKey,   \* the string "", which id_key maps every OtherId to
          Payloads,   \* documents: [ops: kinds defined, sel: kind selected]
          Tokens,     \* bearer tokens: [key, exp], exp = -1 for no exp claim
          NoToken,    \* no authorization header
          AtAuthorization, \* TRUE: the JWT header config is Authorization
          Anonymous,  \* TRUE: an unauthorized role admits requests without token
          Leeway,     \* allowed_skew, in clock units
          CanStall,   \* TRUE: the peer may stop draining its socket
          MaxStarts,  \* bound: start frames the client sends
          MaxTime,    \* bound: the clock stops there
          MaxDb       \* bound: the database state saturates there

Kinds == {"query", "mutation", "subscription"}

ASSUME WsAssumption ==
    /\ EmptyKey \notin OtherIds
    /\ StrIds \cap OtherIds = {}
    /\ Payloads # {}
    /\ Payloads \subseteq [ops : SUBSET Kinds, sel : Kinds]
    /\ \A t \in Tokens : t.exp \in Int
    /\ NoToken \notin Tokens
    /\ {AtAuthorization, Anonymous, CanStall} \subseteq BOOLEAN
    /\ Leeway \in Nat /\ MaxStarts \in Nat /\ MaxTime \in Nat /\ MaxDb \in Nat

VARIABLES now,      \* wall clock, seconds
          db,       \* database state
          hdr,      \* session_headers: the authorization token
          rd,       \* the reader: where it is in serve()
          op,       \* one record per start frame received
          subs,     \* subscriptions: id_key -> operation whose task is held, or 0
          expiry,   \* expiry_task
          conn,     \* "open", "closing" (we sent Close), "dead" (transport gone)
          stalled   \* the peer is not draining: a send would wait

wsVars == <<now, db, hdr, rd, op, subs, expiry, conn, stalled>>
vars == <<now, db, hdr, rd, op, subs, expiry, conn, stalled, keys, served>>

Slots == 1..MaxStarts
Ids == StrIds \cup OtherIds
IdKeys == StrIds \cup {EmptyKey}
NoResp == -1

----------------------------------------------------------------------------
\* Mutant: the id is not looked at.
OneKey(id) == EmptyKey

\* id.as_str().unwrap_or_default(): the key of the subscriptions map.
IdKey(id) == IF id \in StrIds THEN id ELSE EmptyKey

\* Mutant: everything but a plain query is polled.
NotJustQuery(p) == p.ops # {"query"}

\* Any subscription operation in the document makes it a live query.
IsSubscription(p) == "subscription" \in p.ops

\* A poller that nobody has aborted: waiting for the database, holding a
\* response it has not compared yet, or sleeping.
Live(n) == op[n].st \in {"exec", "have", "sleep"}

HasExp(t) == t.exp >= 0

\* decode(): a cached key verifies the signature and exp, if there is one,
\* is not further back than the leeway.
Decodes(t) == t.key \in keys /\ (HasExp(t) => now <= t.exp + Leeway)

\* resolve_session in JWT mode, as far as this connection needs it.
SessionOK == IF hdr = NoToken THEN Anonymous ELSE Decodes(hdr)

\* JoinHandle::abort.  A suspended task is dropped where it waits; one that
\* is running past its last await may still send one frame.
Aborted(r) == CASE r.st \in {"exec", "sleep"} -> [r EXCEPT !.st = "dead"]
                [] r.st = "have"              -> [r EXCEPT !.st = "dying"]
                [] OTHER                      -> r

\* A send returns: an error once the sink is closed, success once the peer
\* drains the socket.
SendReturns == conn # "open" \/ ~stalled

\* The reader is at pc, working on operation n if any, with nothing to send.
At(pc, n) == [pc |-> pc, out |-> <<>>, then |-> "recv", n |-> n]

Reading == At("recv", 0)

\* The reader sends frames, then goes on at pc.  "must": serve() breaks out
\* of its loop when this send fails; "try": the result is ignored.
Sending(frames, pc) == [pc |-> "send", out |-> frames, then |-> pc, n |-> 0]

\* Running the selected operation of operation n's document.
Mutates(n) == op[n].pay.sel = "mutation"
DbAfter(n) == IF Mutates(n) /\ db < MaxDb THEN db + 1 ELSE db
RanAfter(n) == IF Mutates(n) /\ op[n].ran < 2 THEN op[n].ran + 1 ELSE op[n].ran

\* What the reader's record and an operation's record hold.
RdRec == [pc : {"recv", "send", "arm", "register", "exec", "done"},
          out : Seq({"must", "try"}), then : {"recv", "arm"}, n : 0..MaxStarts]

OpRec == [st : {"free", "once", "done", "exec", "have", "sleep", "dying", "dead"},
          id : Ids \cup {EmptyKey}, pay : Payloads, tok : Tokens \cup {NoToken},
          last : NoResp..MaxDb, resp : NoResp..MaxDb, ran : 0..2]

TypeOK ==
    /\ now \in 0..MaxTime
    /\ db \in 0..MaxDb
    /\ hdr \in Tokens \cup {NoToken}
    /\ rd \in RdRec
    /\ rd.pc \in {"register", "exec"} => rd.n \in Slots
    /\ rd.pc = "send" => Len(rd.out) >= 1
    /\ op \in [Slots -> OpRec]
    /\ subs \in [IdKeys -> 0..MaxStarts]
    /\ expiry \in [st : {"none", "armed", "fired"}, at : Nat]
    /\ conn \in {"open", "closing", "dead"}
    /\ stalled \in BOOLEAN
    /\ KeyTypeOK

WsInit ==
    /\ now = 0
    /\ db = 0
    /\ hdr = NoToken
    /\ rd = Reading
    /\ op = [n \in Slots |-> [st |-> "free", id |-> EmptyKey,
                              pay |-> CHOOSE p \in Payloads : TRUE,
                              tok |-> NoToken, last |-> NoResp,
                              resp |-> NoResp, ran |-> 0]]
    /\ subs = [k \in IdKeys |-> 0]
    /\ expiry = [st |-> "none", at |-> 0]
    /\ conn = "open"
    /\ stalled = FALSE

Init == WsInit /\ KeyInit

----------------------------------------------------------------------------
(* The reader.  While it awaits a frame it is at "recv"; it reads the next  *)
(* frame only when the handler of the previous one has returned.            *)

Receiving == rd.pc = "recv" /\ conn # "dead"

\* connection_init: headers accumulate (a frame without a token keeps the
\* old one), then ack and ka are sent, and only then the expiry is armed.
RecvInit(t) ==
    /\ Receiving
    /\ hdr' = IF t = NoToken THEN hdr ELSE t
    /\ rd' = Sending(<<"must", "try">>, "arm")
    /\ UNCHANGED <<now, db, op, subs, expiry, conn, stalled, keys, served>>

\* Mutant: a connection_init whose token has no exp disarms the timer.
ArmOrDisarm ==
    /\ rd.pc = "arm"
    /\ rd' = Reading
    /\ expiry' = IF hdr # NoToken /\ AtAuthorization /\ Decodes(hdr) /\ HasExp(hdr)
                 THEN [st |-> "armed", at |-> hdr.exp]
                 ELSE [st |-> "none", at |-> 0]
    /\ UNCHANGED <<now, db, hdr, op, subs, conn, stalled, keys, served>>

\* The tail of connection_init.  The old task is replaced only when the
\* current token decodes and carries an exp.
ArmExpiry ==
    /\ rd.pc = "arm"
    /\ rd' = Reading
    /\ expiry' = IF hdr # NoToken /\ AtAuthorization /\ Decodes(hdr) /\ HasExp(hdr)
                 THEN [st |-> "armed", at |-> hdr.exp]
                 ELSE expiry
    /\ UNCHANGED <<now, db, hdr, op, subs, conn, stalled, keys, served>>

\* start whose session does not resolve: errors and complete, nothing runs.
RecvStartDenied ==
    /\ Receiving
    /\ ~SessionOK
    /\ rd' = Sending(<<"try", "try">>, "recv")
    /\ UNCHANGED <<now, db, hdr, op, subs, expiry, conn, stalled, keys, served>>

\* start: a live query is spawned, and runs from then on; anything else is
\* executed by the reader itself.
RecvStart(n, id, p) ==
    /\ Receiving
    /\ SessionOK
    /\ op[n].st = "free"
    /\ \A m \in 1..(n - 1) : op[m].st # "free"
    /\ op' = [op EXCEPT ![n] = [st |-> IF IsSubscription(p) THEN "exec" ELSE "once",
                                id |-> id, pay |-> p, tok |-> hdr,
                                last |-> NoResp, resp |-> NoResp, ran |-> 0]]
    /\ rd' = At(IF IsSubscription(p) THEN "register" ELSE "exec", n)
    /\ UNCHANGED <<now, db, hdr, subs, expiry, conn, stalled, keys, served>>

\* Mutant: the displaced task is detached instead of aborted.
RegisterOnly ==
    /\ rd.pc = "register"
    /\ subs' = [subs EXCEPT ![IdKey(op[rd.n].id)] = rd.n]
    /\ rd' = Reading
    /\ UNCHANGED <<now, db, hdr, op, expiry, conn, stalled, keys, served>>

\* Mutant: the reader waits for the displaced task instead of aborting it.
RegisterAndJoin ==
    /\ rd.pc = "register"
    /\ LET old == subs[IdKey(op[rd.n].id)]
       IN IF old = 0 THEN TRUE ELSE op[old].st = "dead"
    /\ subs' = [subs EXCEPT ![IdKey(op[rd.n].id)] = rd.n]
    /\ rd' = Reading
    /\ UNCHANGED <<now, db, hdr, op, expiry, conn, stalled, keys, served>>

\* subscriptions.insert, and abort() of the task it displaces.
Register ==
    /\ rd.pc = "register"
    /\ LET k == IdKey(op[rd.n].id)
       IN /\ subs' = [subs EXCEPT ![k] = rd.n]
          /\ op' = IF subs[k] = 0 THEN op
                   ELSE [op EXCEPT ![subs[k]] = Aborted(op[subs[k]])]
    /\ rd' = Reading
    /\ UNCHANGED <<now, db, hdr, expiry, conn, stalled, keys, served>>

\* A query or mutation: executed once, answered with data and complete.
ExecuteOnce ==
    /\ rd.pc = "exec"
    /\ db' = DbAfter(rd.n)
    /\ op' = [op EXCEPT ![rd.n] = [op[rd.n] EXCEPT !.st = "done",
                                                  !.resp = DbAfter(rd.n),
                                                  !.ran = RanAfter(rd.n)]]
    /\ rd' = Sending(<<"must", "try">>, "recv")
    /\ UNCHANGED <<now, hdr, subs, expiry, conn, stalled, keys, served>>

\* Mutant: a stopped task is dropped from the map but goes on.
StopOnly(id) ==
    /\ Receiving
    /\ id \in StrIds
    /\ subs' = [subs EXCEPT ![id] = 0]
    /\ UNCHANGED <<now, db, hdr, rd, op, expiry, conn, stalled, keys, served>>

\* stop of a string id: its task, if any, is forgotten and aborted.
RecvStop(id) ==
    /\ Receiving
    /\ id \in StrIds
    /\ subs' = [subs EXCEPT ![id] = 0]
    /\ op' = IF subs[id] = 0 THEN op
             ELSE [op EXCEPT ![subs[id]] = Aborted(op[subs[id]])]
    /\ UNCHANGED <<now, db, hdr, rd, expiry, conn, stalled, keys, served>>

\* stop without a string id, or an unknown frame type: connection_error.
RecvBad ==
    /\ Receiving
    /\ rd' = Sending(<<"try">>, "recv")
    /\ UNCHANGED <<now, db, hdr, op, subs, expiry, conn, stalled, keys, served>>

\* Mutant: serve() returns without aborting its pollers.
JustLeave ==
    /\ rd' = At("done", 0)
    /\ subs' = [k \in IdKeys |-> 0]
    /\ expiry' = [expiry EXCEPT !.st = IF @ = "armed" THEN "none" ELSE @]
    /\ UNCHANGED <<now, db, hdr, op, conn, stalled, keys, served>>

\* The code after the loop: every task the connection holds is aborted.
Leave ==
    /\ rd' = At("done", 0)
    /\ op' = [n \in Slots |->
                IF \E k \in IdKeys : subs[k] = n THEN Aborted(op[n]) ELSE op[n]]
    /\ subs' = [k \in IdKeys |-> 0]
    /\ expiry' = [expiry EXCEPT !.st = IF @ = "armed" THEN "none" ELSE @]
    /\ UNCHANGED <<now, db, hdr, conn, stalled, keys, served>>

\* connection_terminate or a Close frame.
RecvEnd == Receiving /\ Leave

\* stream.next() yields an error or None.
StreamEnds == rd.pc = "recv" /\ conn = "dead" /\ Leave

\* Mutant: the reader does not notice that it has sent its last frame.
SendOneMore ==
    /\ rd.pc = "send"
    /\ SendReturns
    /\ conn = "open" \/ Head(rd.out) = "try"
    /\ rd' = [rd EXCEPT !.out = Tail(rd.out)]
    /\ UNCHANGED <<now, db, hdr, op, subs, expiry, conn, stalled, keys, served>>

\* The reader's pending send returns.
SendOk ==
    /\ rd.pc = "send"
    /\ SendReturns
    /\ conn = "open" \/ Head(rd.out) = "try"
    /\ rd' = IF Len(rd.out) = 1 THEN At(rd.then, 0)
             ELSE [rd EXCEPT !.out = Tail(rd.out)]
    /\ UNCHANGED <<now, db, hdr, op, subs, expiry, conn, stalled, keys, served>>

SendFails ==
    /\ rd.pc = "send"
    /\ conn # "open"
    /\ Head(rd.out) = "must"
    /\ Leave

----------------------------------------------------------------------------
(* The poller tasks.                                                        *)

\* gql::execute_with returns.
Poll(n) ==
    /\ op[n].st = "exec"
    /\ db' = DbAfter(n)
    /\ op' = [op EXCEPT ![n] = [op[n] EXCEPT !.st = "have",
                                             !.resp = DbAfter(n),
                                             !.ran = RanAfter(n)]]
    /\ UNCHANGED <<now, hdr, rd, subs, expiry, conn, stalled, keys, served>>

\* Mutant: only the first response is ever remembered and sent.
DeliverFirst(n) ==
    /\ op[n].st \in {"have", "dying"}
    /\ op[n].last = NoResp => SendReturns
    /\ op' = [op EXCEPT ![n] =
                [op[n] EXCEPT
                   !.last = IF @ = NoResp THEN op[n].resp ELSE @,
                   !.st = IF \/ op[n].st = "dying"
                             \/ op[n].last = NoResp /\ conn # "open"
                          THEN "dead" ELSE "sleep"]]
    /\ UNCHANGED <<now, db, hdr, rd, subs, expiry, conn, stalled, keys, served>>

\* The response is compared with the last one and sent when it differs; a
\* failed send ends the task, whose handle stays in the map.
Deliver(n) ==
    /\ op[n].st \in {"have", "dying"}
    /\ op[n].resp # op[n].last => SendReturns
    /\ op' = [op EXCEPT ![n] =
                [op[n] EXCEPT
                   !.last = op[n].resp,
                   !.st = IF \/ op[n].st = "dying"
                             \/ op[n].resp # op[n].last /\ conn # "open"
                          THEN "dead" ELSE "sleep"]]
    /\ UNCHANGED <<now, db, hdr, rd, subs, expiry, conn, stalled, keys, served>>

\* The abort reaches the task at an await before its frame is out.
Cancel(n) ==
    /\ op[n].st = "dying"
    /\ op' = [op EXCEPT ![n] = [op[n] EXCEPT !.st = "dead"]]
    /\ UNCHANGED <<now, db, hdr, rd, subs, expiry, conn, stalled, keys, served>>

\* The one-second sleep is over.
Wake(n) ==
    /\ op[n].st = "sleep"
    /\ op' = [op EXCEPT ![n] = [op[n] EXCEPT !.st = "exec"]]
    /\ UNCHANGED <<now, db, hdr, rd, subs, expiry, conn, stalled, keys, served>>

----------------------------------------------------------------------------
(* The expiry task and the environment.                                     *)

\* Mutant: the task ends without closing the sink.
FireOnly ==
    /\ expiry.st = "armed"
    /\ now >= expiry.at
    /\ SendReturns
    /\ expiry' = [expiry EXCEPT !.st = "fired"]
    /\ UNCHANGED <<now, db, hdr, rd, op, subs, conn, stalled, keys, served>>

\* Close is sent and the sink closed; the reader is not told.
ExpiryFire ==
    /\ expiry.st = "armed"
    /\ now >= expiry.at
    /\ SendReturns
    /\ expiry' = [expiry EXCEPT !.st = "fired"]
    /\ conn' = IF conn = "open" THEN "closing" ELSE conn
    /\ UNCHANGED <<now, db, hdr, rd, op, subs, stalled, keys, served>>

Tick ==
    /\ now < MaxTime
    /\ now' = now + 1
    /\ UNCHANGED <<db, hdr, rd, op, subs, expiry, conn, stalled, keys, served>>

\* Another client of the database commits.
DbChange ==
    /\ db < MaxDb
    /\ db' = db + 1
    /\ UNCHANGED <<now, hdr, rd, op, subs, expiry, conn, stalled, keys, served>>

TransportFails ==
    /\ conn # "dead"
    /\ conn' = "dead"
    /\ UNCHANGED <<now, db, hdr, rd, op, subs, expiry, stalled, keys, served>>

\* The peer stops, or resumes, draining its socket.
Drain ==
    /\ CanStall
    /\ stalled' = ~stalled
    /\ UNCHANGED <<now, db, hdr, rd, op, subs, expiry, conn, keys, served>>

KeyStep == KeyNext /\ UNCHANGED wsVars

----------------------------------------------------------------------------
ReaderStep == ArmExpiry \/ Register \/ ExecuteOnce \/ SendOk \/ SendFails \/ StreamEnds

ClientStep ==
    \/ \E t \in Tokens \cup {NoToken} : RecvInit(t)
    \/ RecvStartDenied
    \/ \E n \in Slots, id \in Ids, p \in Payloads : RecvStart(n, id, p)
    \/ \E id \in StrIds : RecvStop(id)
    \/ RecvBad
    \/ RecvEnd

PollerStep(n) == Poll(n) \/ Deliver(n) \/ Cancel(n) \/ Wake(n)

Environment == Tick \/ DbChange \/ TransportFails \/ Drain \/ KeyStep

Next ==
    \/ ReaderStep
    \/ ClientStep
    \/ \E n \in Slots : PollerStep(n)
    \/ ExpiryFire
    \/ Environment

Spec == Init /\ [][Next]_vars

\* Every spawned task is scheduled, and time passes.  Nothing is assumed of
\* the client, the transport, the key server or other database users.
Fairness ==
    /\ WF_vars(ReaderStep)
    /\ \A n \in Slots : WF_vars(PollerStep(n))
    /\ WF_vars(ExpiryFire)
    /\ WF_vars(Tick)

FairSpec == Spec /\ Fairness
----------------------------------------------------------------------------
(* Properties.                                                              *)

\* Every poller that is still running is reachable by the connection: its
\* handle is in the subscriptions map under its own key, or the reader is
\* about to put it there, and none is left when serve() has returned.  A
\* poller lost from the map could be stopped by nobody.
NoOrphanPoller ==
    \A n \in Slots : Live(n) =>
        /\ rd.pc # "done"
        /\ \/ subs[IdKey(op[n].id)] = n
           \/ rd.pc = "register" /\ rd.n = n

\* ws.rs:2: queries and mutations are answered once.  A start frame whose
\* selected operation is a mutation runs it exactly once: never again after
\* the first run, and always before its answer goes out.
MutationOnce ==
    \A n \in Slots : Mutates(n) => op[n].ran <= 1 /\ (op[n].st = "done" => op[n].ran = 1)

\* With keys fixed at boot, an operation that runs under a token with an exp
\* runs on a connection whose expiry task exists: no order of connection_init
\* and start frames, and no re-init with a token that is bad or has no exp,
\* lets a session in without the timer or disarms it.
SessionHasTimer ==
    \A n \in Slots :
        /\ rd.pc # "done"
        /\ op[n].tok # NoToken
        /\ op[n].tok.exp >= 0
        => expiry.st # "none"

\* After the client's stop of a string id no poller with that id is running,
\* however many times the id was started before.
StopSilences ==
    [][\A id \in StrIds : RecvStop(id) => \A n \in Slots : op[n].id = id => ~Live(n)']_vars

\* ws.rs:3-4: a live query goes on until the client stops it or the
\* connection dies.  Only a stop or a new start with the id the client gave
\* it, the end of serve() or a failed send ends a poller.
EndedByItsOwner ==
    [][\A n \in Slots : Live(n) /\ ~Live(n)' =>
          \/ RecvStop(op[n].id)
          \/ rd.pc = "register" /\ op[rd.n].id = op[n].id
          \/ rd'.pc = "done"
          \/ conn # "open"]_vars

\* A live query that is never stopped has, once the database is quiet, sent
\* the result for its final state: no change is lost between a poll, its
\* comparison and its send.
LiveQueryConverges == \A n \in Slots : <>[]Live(n) => <>[](op[n].last = db)

\* Once the transport is gone the reader notices, whatever it was doing, and
\* every poller ends: nothing polls the database for a dead connection.
DeadConnectionDrains ==
    conn = "dead" ~> (rd.pc = "done" /\ \A n \in Slots : op[n].st \in {"free", "once", "done", "dead"})

\* Every frame's handler returns: the reader comes back for the next frame.
ReaderReturns == rd.pc # "recv" ~> rd.pc \in {"recv", "done"}

\* ws.rs:5: when JWT auth is on, the connection is closed at token expiry.
\* A connection that has let an operation in under its current token does
\* not stay open after that token's exp.
ExpiryCloses ==
    \A t \in Tokens :
        (/\ hdr = t /\ t.exp >= 0 /\ now >= t.exp
         /\ \E n \in Slots : op[n].tok = t)
        ~> (conn # "open" \/ rd.pc = "done" \/ hdr # t)
=============================================================================
