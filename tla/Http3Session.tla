---------------------------- MODULE Http3Session ----------------------------
(***************************************************************************)
(* Http3Engine (protocols/http3.rs).  A worker whose context could be      *)
(* created keeps its QUIC connection and replaces it when a request fails; *)
(* one whose context could not connects anew for every iteration.  The     *)
(* peer is the latest connection, with the packets it has lost.            *)
(***************************************************************************)
EXTENDS WorkerLoop

CONSTANTS
    ZeroRtt,        \* zero_rtt
    MigrateEvery    \* migrate_every, 0 without migration

NewPeer == [up |-> TRUE, inbox |-> <<>>, lost |-> 0]

\* How connect_with_0rtt may succeed: whether it used 0-RTT, and the server's verdict.
Handshakes ==
    {[used |-> FALSE, accepted |-> <<>>]} \cup
    IF ZeroRtt THEN {[used |-> TRUE, accepted |-> <<a>>] : a \in BOOLEAN} ELSE {}

\* lost: packets lost on all connections; unseen: those lost after the last sample.
NewTruth == [lost |-> 0, unseen |-> 0]

\* create_worker_context: it connects, or there is no context.
Init ==
    /\ pc = "idle" /\ it = NoIteration /\ report = NoReport /\ truth = NewTruth
    /\ \/ \E h \in Handshakes : session = [context |-> TRUE, zeroRtt |-> h.accepted, prevLost |-> 0, iterations |-> 0]
       \/ session = [context |-> FALSE, zeroRtt |-> <<>>, prevLost |-> 0, iterations |-> 0]
    /\ past = [NoPast EXCEPT !.connections = IF session.context THEN 1 ELSE 0]
    /\ peer = [NewPeer EXCEPT !.up = session.context]

Quic(handshake, zeroRtt, retransmits) ==
    <<[handshake |-> handshake, zeroRtt |-> zeroRtt, retransmits |-> <<retransmits>>]>>

\* The congestion window is one.
Http3(attempted, successful) == <<[cwnd |-> 1, attempted |-> attempted, successful |-> successful]>>

Begin(f) ==
    /\ MayBegin
    /\ IF Is(f, "ConnectionDrop")
       THEN EndAtOnce(f, Builder(0, f))
       ELSE /\ past' = Begun(f)
            /\ it' = [fault |-> f]
            /\ pc' = IF session.context THEN "ready" ELSE "connect"
            /\ UNCHANGED report
    /\ UNCHANGED <<session, peer, truth>>

-----------------------------------------------------------------------------
(* With a context.                                                         *)

MigrationDue == MigrateEvery > 0 /\ (session.iterations + 1) % MigrateEvery = 0

\* The endpoint's socket is rebound every so many iterations, which may fail.
Request(rebound) ==
    /\ pc = "ready"
    /\ rebound => MigrationDue
    /\ session' = [session EXCEPT !.iterations = @ + 1]
    /\ it' = [fault |-> it.fault, migration |-> rebound, reconnect |-> FALSE, handshake |-> <<>>, zeroRtt |-> FALSE]
    /\ pc' = "request"
    /\ UNCHANGED <<peer, report, past, truth>>

\* Faulty variant: the losses seen so far are not remembered.
FinishForgetting(status, i) ==
    LET migrated == i.migration /\ ~i.reconnect /\ status # 0 IN
    /\ UNCHANGED session
    /\ End([Builder(0, i.fault) EXCEPT
              !.status = status, !.reused = ~i.reconnect,
              !.sample = [Http3Sample EXCEPT
                  !.quic = Quic(i.handshake, i.zeroRtt \/ session.zeroRtt = <<TRUE>>,
                                peer.lost - Smaller(session.prevLost, peer.lost)),
                  !.http3 = Http3(IF i.migration THEN 1 ELSE 0, IF migrated THEN 1 ELSE 0)]])
    /\ UNCHANGED <<peer, past, truth>>

\* The end of the iteration i samples the connection that the session now holds.
Finish(status, i) ==
    LET migrated == i.migration /\ ~i.reconnect /\ status # 0 IN
    /\ session' = [session EXCEPT !.prevLost = peer.lost]
    /\ End([Builder(0, i.fault) EXCEPT
              !.status = status, !.reused = ~i.reconnect,
              !.sample = [Http3Sample EXCEPT
                  !.quic = Quic(i.handshake, i.zeroRtt \/ session.zeroRtt = <<TRUE>>,
                                peer.lost - Smaller(session.prevLost, peer.lost)),
                  !.http3 = Http3(IF i.migration THEN 1 ELSE 0, IF migrated THEN 1 ELSE 0)]])
    /\ UNCHANGED <<peer, past, truth>>

Answered(status) ==
    /\ pc \in {"request", "retry"} /\ peer.up
    /\ Finish(status, it)

\* send_request_on_conn fails: the session is replaced, once.
RequestFails ==
    /\ pc = "request" /\ ~peer.up
    /\ pc' = "reconnect"
    /\ UNCHANGED <<it, session, peer, report, past, truth>>

RetryFails ==
    /\ pc = "retry" /\ ~peer.up
    /\ Finish(0, it)

ReconnectFails ==
    /\ pc = "reconnect"
    /\ Finish(0, it)

\* The QUIC handshake succeeds, the HTTP/3 setup does not: the connection is dropped.
SetupFails(h) ==
    /\ pc = "reconnect"
    /\ Finish(0, [it EXCEPT !.handshake = <<0>>, !.zeroRtt = h.used])

\* Faulty variant: the new connection is compared with the losses of the old one.
ReconnectKeepingLosses(h) ==
    /\ pc = "reconnect"
    /\ session' = [session EXCEPT !.zeroRtt = h.accepted]
    /\ it' = [it EXCEPT !.reconnect = TRUE, !.handshake = <<0>>, !.zeroRtt = h.used]
    /\ truth' = [truth EXCEPT !.unseen = @ + peer.lost - session.prevLost]
    /\ peer' = NewPeer
    /\ past' = Connected
    /\ pc' = "retry"
    /\ UNCHANGED report

Reconnect(h) ==
    /\ pc = "reconnect"
    /\ session' = [session EXCEPT !.zeroRtt = h.accepted, !.prevLost = 0]
    /\ it' = [it EXCEPT !.reconnect = TRUE, !.handshake = <<0>>, !.zeroRtt = h.used]
    /\ truth' = [truth EXCEPT !.unseen = @ + peer.lost - session.prevLost]
    /\ peer' = NewPeer
    /\ past' = Connected
    /\ pc' = "retry"
    /\ UNCHANGED report

-----------------------------------------------------------------------------
(* Without a context.                                                      *)

\* The connection and, over it, HTTP/3 are set up.  A corrupted payload replaces
\* the request.
Connect(h) ==
    /\ pc = "connect"
    /\ it' = [fault |-> it.fault, zeroRtt |-> h.used]
    /\ peer' = NewPeer
    /\ past' = Connected
    /\ pc' = "exchange"
    /\ UNCHANGED <<session, report, truth>>

ConnectFails ==
    /\ pc = "connect"
    /\ End(Builder(0, it.fault))
    /\ UNCHANGED <<session, peer, past, truth>>

\* The losses are sampled and the connection is closed, answered or not.
Exchanged(status) ==
    /\ pc = "exchange"
    /\ IF peer.up THEN status # 0 ELSE status = 0
    /\ End([Builder(0, it.fault) EXCEPT
              !.status = status, !.connection = <<0>>, !.dns = <<0>>,
              !.sample = [Http3Sample EXCEPT !.quic = Quic(<<0>>, it.zeroRtt, peer.lost), !.http3 = Http3(0, 0)]])
    /\ peer' = [NewPeer EXCEPT !.up = FALSE]
    /\ UNCHANGED <<session, past, truth>>

-----------------------------------------------------------------------------
\* A stateless connection dies with its iteration, a session's lives on.
Deadline ==
    /\ CutShort
    /\ IF session.context
       THEN UNCHANGED <<peer, truth>>
       ELSE /\ peer' = [NewPeer EXCEPT !.up = FALSE]
            /\ truth' = [truth EXCEPT !.unseen = @ + peer.lost]
    /\ UNCHANGED session

Shutdown == Leave(session)

PacketLost ==
    /\ peer.up /\ past.frames < MaxFrames
    /\ peer' = [peer EXCEPT !.lost = @ + 1]
    /\ past' = [past EXCEPT !.frames = @ + 1]
    /\ truth' = [truth EXCEPT !.lost = @ + 1]
    /\ UNCHANGED <<pc, it, session, report>>

Next ==
    \/ \E f \in SelectFault : Begin(f)
    \/ \E rebound \in BOOLEAN : Request(rebound)
    \/ \E status \in {200, 503} : Answered(status)
    \/ RequestFails \/ RetryFails \/ ReconnectFails \/ ConnectFails
    \/ \E h \in Handshakes : SetupFails(h) \/ Reconnect(h) \/ Connect(h)
    \/ \E status \in {0, 200} : Exchanged(status)
    \/ Deadline \/ Shutdown \/ PacketLost \/ Lose("close")

Spec == Init /\ [][Next]_loopVars

-----------------------------------------------------------------------------
\* Every lost packet is reported as one retransmission: those not reported yet
\* are still to be sampled on the present connection, or were lost after the last
\* sample of a connection that is gone.
CountsAreTrue ==
    report.protocol.quic.retransmissions + truth.unseen + peer.lost = truth.lost + session.prevLost
=============================================================================
