--------------------------------- MODULE Tcp ---------------------------------
(* One TCP connection of this machine (Source/Network/Tcp.c) with a station    *)
(* whose TCP is right.  Nothing in the kernel calls the socket API yet; here   *)
(* it is called from a socket's callbacks, in the handler of an interrupt, so  *)
(* that a call, the handling of a segment and the tick's turn of a socket are  *)
(* one step each.  The network keeps every segment: it comes once, often, late *)
(* or never.  Memory suffices.  A chunk of data is one segment long and has    *)
(* one number; what a call of TcpSendFromQueue sends of the queue is some of   *)
(* its first chunks when the window is open, as Cwnd is at least a segment.    *)
EXTENDS Filters, Integers, Sequences, FiniteSets

CONSTANTS Sockets,     \* places for a TcpSocket
          BackLog,
          MaxRetrans,  \* TCP_MAX_RETRANSMIT
          MaxIss,      \* bound: initial sequence numbers used
          MaxOut,      \* bound: chunks a socket sends
          MaxIn,       \* bound: chunks the station sends
          MaxRcv,      \* bound: how far RcvNxt goes
          NoIss

(* What the constants are assumed to be. *)
TcpAssumption == /\ {Sockets, BackLog, MaxRetrans, MaxIss, MaxOut, MaxIn} \subseteq Nat
                 /\ MaxRcv \in Nat \ {0} /\ NoIss \notin Nat

Sock == 1..Sockets

IssStep == MaxOut + 2   \* 1000000: more than a connection sends

VARIABLES sock,     \* each TcpSocket
          sockets,  \* GTcpSockets
          accept,   \* the listener's AcceptQueue
          iss,      \* how many numbers were taken from GTcpIss
          out,      \* the segments sent, but bare acknowledgements
          peer      \* the station

tcpVars == <<sock, sockets, accept, iss, out, peer>>

Data == {"ESTABLISHED", "CLOSE_WAIT", "FIN_WAIT_1", "FIN_WAIT_2", "LAST_ACK"}
State == Data \cup {"none", "CLOSED", "LISTEN", "SYN_SENT", "SYN_RCVD", "TIME_WAIT"}

NoSocket == [state |-> "none", own |-> FALSE, iss |-> 0, una |-> 0, nxt |-> 0, end |-> 0,
             rcvNxt |-> 0, open |-> TRUE, timer |-> FALSE, tries |-> 0,
             sendQ |-> <<>>, retransQ |-> <<>>, recvQ |-> <<>>]

(* The station serves or connects; its window may be shut at times. *)
TcpStart ==
  /\ sock = [s \in Sock |-> NoSocket]
  /\ sockets = <<>> /\ accept = <<>>
  /\ iss = 0
  /\ out = {}
  /\ peer \in [serves : BOOLEAN, shuts : BOOLEAN, irs : {NoIss}, answered : {{}}, rcv : {0},
               sent : {0}, fin : {FALSE}]

Without(q, s) == Kept(q, Sock \ {s})
Free == {s \in Sock : sock[s].state = "none" /\ \A t \in 1..(s - 1) : sock[t].state # "none"}
Listener == {s \in Sock : sock[s].state = "LISTEN"}
Segment(kind, seq, ack) == [kind |-> kind, seq |-> seq, ack |-> ack]
------------------------------------------------------------------------------
(* TcpSocketCreate and TcpBind.  own: is LocalAddr the machine's address, and  *)
(* are both addresses in the order in which packets carry them?  Bound: one    *)
(* socket is made, the others by the listener.                                 *)
TcpBind(s, own) ==
  /\ sock = [t \in Sock |-> NoSocket] /\ iss = 0 /\ s \in Free
  /\ sock' = [sock EXCEPT ![s] = [NoSocket EXCEPT !.state = "CLOSED", !.own = own]]
  /\ UNCHANGED <<sockets, accept, iss, out, peer>>

TcpListen(s) ==
  /\ ~peer.serves /\ sock[s].state = "CLOSED"
  /\ sock' = [sock EXCEPT ![s].state = "LISTEN"]
  /\ UNCHANGED <<sockets, accept, iss, out, peer>>

(* A SYN takes a new Iss, also one that is sent again. *)
Opening(k, n) == [k EXCEPT !.iss = n * IssStep, !.una = n * IssStep, !.nxt = n * IssStep + 1,
                           !.end = n * IssStep + 1, !.timer = TRUE]

TcpSendSyn(s, k) ==
  /\ iss < MaxIss /\ iss' = iss + 1
  /\ sock' = [sock EXCEPT ![s] = Opening(k, iss + 1)]
  /\ out' = out \cup {Segment("syn", (iss + 1) * IssStep, 0)}

SynAckOut(taken, rcvNxt) ==
  /\ iss + taken <= MaxIss /\ iss' = iss + taken
  /\ out' = out \cup {Segment("synack", (iss + taken) * IssStep, rcvNxt)}
TcpSendSynAck(s, k, taken) ==
  /\ SynAckOut(taken, k.rcvNxt)
  /\ sock' = [sock EXCEPT ![s] = Opening(k, iss + taken)]

TcpConnect(s) ==
  /\ peer.serves /\ sock[s].state = "CLOSED"
  /\ TcpSendSyn(s, [sock[s] EXCEPT !.state = "SYN_SENT"])
  /\ sockets' = Append(sockets, s)
  /\ UNCHANGED <<accept, peer>>

(* Only now segments find the new socket. *)
TcpAccept ==
  /\ accept # <<>>
  /\ sockets' = Append(sockets, Head(accept))
  /\ accept' = Tail(accept)
  /\ UNCHANGED <<sock, iss, out, peer>>
------------------------------------------------------------------------------
(* TcpSendFromQueue: n chunks go from the SendQueue to the RetransQueue. *)
Window(k) == IF k.state \notin {"ESTABLISHED", "CLOSE_WAIT"} \/ k.sendQ = <<>> \/ ~k.open THEN {0}
             ELSE 1..Len(k.sendQ)
Moved(k, n) ==
  [k EXCEPT !.sendQ = SubSeq(@, n + 1, Len(@)), !.retransQ = @ \o SubSeq(k.sendQ, 1, n),
            !.timer = @ \/ n > 0]
Sending(k, n) == {Segment("data", k.sendQ[i], k.rcvNxt) : i \in 1..n}

TcpSend(s) ==
  /\ sock[s].state \in {"ESTABLISHED", "CLOSE_WAIT"}
  /\ sock[s].nxt - sock[s].iss <= MaxOut
  /\ LET k == [sock[s] EXCEPT !.sendQ = Append(@, sock[s].nxt), !.nxt = @ + 1, !.end = @ + 1]
     IN  \E n \in Window(k) :
           /\ sock' = [sock EXCEPT ![s] = Moved(k, n)]
           /\ out' = out \cup Sending(k, n)
  /\ UNCHANGED <<sockets, accept, iss, peer>>

(* RcvNxt goes on a second time for what is handed over. *)
TcpRecv(s) ==
  /\ sock[s].recvQ # <<>> /\ sock[s].rcvNxt < MaxRcv
  /\ sock' = [sock EXCEPT ![s].recvQ = Tail(@), ![s].rcvNxt = @ + 1]
  /\ UNCHANGED <<sockets, accept, iss, out, peer>>

(* The FIN is sent once, and before what is still in the SendQueue. *)
TcpClose(s) ==
  /\ sock[s].state \in {"ESTABLISHED", "CLOSE_WAIT"}
  /\ LET k == sock[s]
     IN  /\ sock' = [sock EXCEPT ![s] = [k EXCEPT
                       !.state = IF @ = "ESTABLISHED" THEN "FIN_WAIT_1" ELSE "LAST_ACK",
                       !.nxt = @ + 1, !.timer = TRUE]]
         /\ out' = out \cup {Segment("fin", k.nxt, k.rcvNxt)}
  /\ UNCHANGED <<sockets, accept, iss, peer>>

(* TcpAbort and TcpSocketDestroy: gone, and with a listener all that it has    *)
(* not handed over.                                                            *)
Gone(s) ==
  /\ sock' = [t \in Sock |-> IF t = s \/ (s \in Listener /\ t \in Members(accept)) THEN NoSocket ELSE sock[t]]
  /\ sockets' = Without(sockets, s)
  /\ accept' = IF s \in Listener THEN <<>> ELSE Without(accept, s)

TcpAbort(s) ==
  /\ sock[s].state # "none"
  /\ Gone(s)
  /\ UNCHANGED <<iss, out, peer>>
------------------------------------------------------------------------------
(* TcpRetransmit, of the first segment not acknowledged. *)
TcpRetransmit(s) ==
  LET k == sock[s]
  IN  IF k.retransQ = <<>>
      THEN sock' = [sock EXCEPT ![s].timer = FALSE] /\ UNCHANGED <<sockets, accept, out>>
      ELSE /\ out' = out \cup {Segment("data", Head(k.retransQ), k.rcvNxt)}
           /\ IF k.tries + 1 >= MaxRetrans THEN Gone(s)
              ELSE sock' = [sock EXCEPT ![s].tries = @ + 1] /\ UNCHANGED <<sockets, accept>>

(* TcpTick's turn of a socket whose timer has expired.  RetransCount does not  *)
(* grow while it is being opened, so a SYN is sent again for ever.             *)
TcpTick(s) ==
  /\ s \in Members(sockets) /\ sock[s].timer
  /\ CASE sock[s].state = "SYN_SENT" -> TcpSendSyn(s, sock[s]) /\ UNCHANGED <<sockets, accept>>
       [] sock[s].state = "SYN_RCVD" -> TcpSendSynAck(s, sock[s], 1) /\ UNCHANGED <<sockets, accept>>
       [] sock[s].state \in {"ESTABLISHED", "FIN_WAIT_1", "LAST_ACK"} -> TcpRetransmit(s) /\ UNCHANGED iss
       [] sock[s].state = "TIME_WAIT" -> Gone(s) /\ UNCHANGED <<iss, out>>
       [] sock[s].state \in {"FIN_WAIT_2", "CLOSE_WAIT"} ->
            sock' = [sock EXCEPT ![s].timer = FALSE] /\ UNCHANGED <<sockets, accept, iss, out>>
  /\ UNCHANGED peer
------------------------------------------------------------------------------
(* What the station may have on its way here: its SYN, or its answers to ours; *)
(* acknowledgements of what it has, or had; its data and its FIN; a reset.     *)
Acks == IF peer.irs = NoIss THEN {} ELSE (peer.irs + 1)..peer.rcv
Incoming ==
  (IF peer.serves THEN {} ELSE {Segment("syn", 0, 0)})
  \cup {Segment("synack", 0, i + 1) : i \in peer.answered}
  \cup {Segment("ack", peer.sent + 1, a) : a \in Acks}
  \cup {Segment("data", i, a) : i \in 1..peer.sent, a \in Acks}
  \cup {Segment("fin", peer.sent + 1, a) : a \in IF peer.fin THEN Acks ELSE {}}
  \cup {Segment("rst", 0, a) : a \in Acks}

(* TcpFindSocket: the connection, else the listener. *)
TcpFindSocket ==
  LET own == {i \in DOMAIN sockets : sock[sockets[i]].own}
  IN  IF own # {} THEN {sockets[i] : i \in {j \in own : \A h \in own : j <= h}}
      ELSE {s \in Listener : sock[s].own}

(* AckData: what is acknowledged leaves the RetransQueue, more may be sent. *)
UnackedByStart(q, a) == Kept(q, {c \in Members(q) : c > a})
Unacked(q, a) == Kept(q, {c \in Members(q) : c + 1 > a})
TcpAckData(k, a) ==
  IF a <= k.una THEN k
  ELSE LET rest == Unacked(k.retransQ, a)
       IN  [k EXCEPT !.una = a, !.retransQ = rest, !.timer = @ /\ rest # <<>>,
                     !.tries = IF rest = <<>> THEN 0 ELSE @]

Becomes(s, k) == sock' = [sock EXCEPT ![s] = k] /\ UNCHANGED <<sockets, accept, iss>>

(* The states of TcpHandleSegment, of s with the window just received.  The    *)
(* number of a segment is looked at nowhere.  A listener answers a SYN also    *)
(* when its queue is full, and then has no socket for the connection.          *)
HandleListen(s, k, m) ==
  /\ m.kind \in {"syn", "synack"}
  /\ LET new == [NoSocket EXCEPT !.state = "SYN_RCVD", !.own = k.own, !.rcvNxt = 1]
     IN  IF Len(accept) < BackLog
         THEN \E t \in Free : TcpSendSynAck(t, new, 2) /\ accept' = Append(accept, t)
         ELSE SynAckOut(2, 1) /\ UNCHANGED <<sock, accept>>
  /\ UNCHANGED sockets

HandleSynSent(s, k, m) ==
  /\ m.kind \in {"synack", "rst"}
  /\ IF m.kind = "rst" THEN Gone(s) /\ UNCHANGED iss
     ELSE Becomes(s, [k EXCEPT !.state = "ESTABLISHED", !.una = m.ack, !.rcvNxt = 1, !.timer = FALSE])
  /\ UNCHANGED out

HandleSynRcvd(s, k, m) ==
  /\ m.kind # "syn"
  /\ Becomes(s, [k EXCEPT !.state = "ESTABLISHED", !.timer = FALSE])
  /\ UNCHANGED out

Received(k, m) ==
  CASE m.kind = "fin" -> [k EXCEPT !.rcvNxt = @ + 1, !.state = "CLOSE_WAIT"]
    [] m.kind = "data" -> [k EXCEPT !.rcvNxt = @ + 1, !.recvQ = Append(@, m.seq)]
    [] OTHER -> k
HandleEstablished(s, k, m) ==
  /\ m.kind # "syn"
  /\ LET acked == TcpAckData(k, m.ack)
     IN  \E n \in IF acked = k THEN {0} ELSE Window(acked) :
           /\ Becomes(s, Received(Moved(acked, n), m))
           /\ out' = out \cup Sending(acked, n)

HandleClosing(s, k, m) ==
  /\ m.kind # "syn"
  /\ CASE k.state = "LAST_ACK" -> Gone(s) /\ UNCHANGED iss
       [] k.state \in {"FIN_WAIT_1", "FIN_WAIT_2"} /\ m.kind = "fin" ->
            Becomes(s, [k EXCEPT !.state = "TIME_WAIT", !.rcvNxt = @ + 1, !.timer = TRUE])
       [] k.state = "FIN_WAIT_1" /\ m.kind # "fin" -> Becomes(s, [k EXCEPT !.state = "FIN_WAIT_2"])
       [] OTHER -> Becomes(s, k)
  /\ UNCHANGED out

TcpRx(m, open) ==
  \E s \in TcpFindSocket :
    LET k == [sock[s] EXCEPT !.open = open]
    IN  /\ m.kind \in {"data", "fin"} => k.rcvNxt < MaxRcv
        /\ CASE k.state = "LISTEN" -> HandleListen(s, k, m)
             [] k.state = "SYN_SENT" -> HandleSynSent(s, k, m)
             [] k.state = "SYN_RCVD" -> HandleSynRcvd(s, k, m)
             [] k.state = "ESTABLISHED" -> HandleEstablished(s, k, m)
             [] OTHER -> HandleClosing(s, k, m)
        /\ UNCHANGED peer
------------------------------------------------------------------------------
(* The station: it takes what comes in order and acknowledges nothing that it  *)
(* has not sent.  Before any data a new SYN takes the place of the old.        *)
PeerTakes(m) ==
  /\ CASE m.kind = "syn" ->
            /\ peer.serves /\ (peer.irs # NoIss => peer.rcv = peer.irs + 1 /\ peer.sent = 0)
            /\ peer' = [peer EXCEPT !.irs = m.seq, !.rcv = m.seq + 1, !.answered = @ \cup {m.seq}]
       [] m.kind = "synack" ->
            /\ peer.irs = NoIss
            /\ peer' = [peer EXCEPT !.irs = m.seq, !.rcv = m.seq + 1]
       [] m.kind \in {"data", "fin"} ->
            /\ peer.irs # NoIss /\ m.seq = peer.rcv /\ m.ack <= peer.sent + (IF peer.fin THEN 2 ELSE 1)
            /\ peer' = [peer EXCEPT !.rcv = @ + 1]
  /\ UNCHANGED <<sock, sockets, accept, iss, out>>

PeerSends ==
  /\ peer.irs # NoIss /\ ~peer.fin
  /\ peer' \in {[peer EXCEPT !.sent = @ + 1], [peer EXCEPT !.fin = TRUE]} /\ peer'.sent <= MaxIn
  /\ UNCHANGED <<sock, sockets, accept, iss, out>>
------------------------------------------------------------------------------
TcpNext ==
  \/ \E s \in Sock : \/ \E own \in BOOLEAN : TcpBind(s, own)
                     \/ TcpListen(s) \/ TcpConnect(s) \/ TcpSend(s) \/ TcpRecv(s) \/ TcpClose(s)
                     \/ TcpAbort(s) \/ TcpTick(s)
  \/ TcpAccept
  \/ \E m \in Incoming, open \in {TRUE, ~peer.shuts} : TcpRx(m, open)
  \/ (\E m \in out : PeerTakes(m)) \/ PeerSends

(* The timer runs. *)
TcpFairness == \A s \in Sock : WF_tcpVars(TcpTick(s))

TcpSpec == TcpStart /\ [][TcpNext]_tcpVars
------------------------------------------------------------------------------
TcpTypeOK ==
  LET number == 0..((MaxIss + 1) * IssStep)
  IN  /\ sock \in [Sock -> [state : State, own : BOOLEAN, iss : number, una : number, nxt : number,
                            end : number, rcvNxt : 0..MaxRcv, open : BOOLEAN, timer : BOOLEAN,
                            tries : 0..MaxRetrans, sendQ : Seq(number), retransQ : Seq(number),
                            recvQ : Seq(1..MaxIn)]]
      /\ sockets \in Seq(Sock) /\ accept \in Seq(Sock) /\ Len(accept) <= BackLog
      /\ iss \in 0..MaxIss
      /\ out \subseteq [kind : {"syn", "synack", "data", "fin"}, seq : number, ack : 0..MaxRcv]

(* A connected socket is on GTcpSockets or waits to be accepted, once, and     *)
(* nothing on these lists has been freed.                                      *)
ListedOnce ==
  \A s \in Sock :
    Cardinality({i \in DOMAIN sockets : sockets[i] = s}) + Cardinality({i \in DOMAIN accept : accept[i] = s})
      = IF sock[s].state \in {"none", "CLOSED", "LISTEN"} THEN 0 ELSE 1

(* "Segments in flight are kept ... Retransmission simply re-sends the same    *)
(* buffer" (Tcp.h:26): the RetransQueue and after it the SendQueue hold in     *)
(* order, without a gap, all that was given to TcpSend and that the station    *)
(* has not got, whichever of its acknowledgements came, and in whatever order, *)
(* provided the station has taken up this socket's Iss.                        *)
Queued(k) == k.retransQ \o k.sendQ
StreamHeld ==
  \A s \in Sock : sock[s].state \in Data =>
    LET k == sock[s]
        q == Queued(k)
    IN  /\ \A i \in DOMAIN q : q[i] = k.end - Len(q) + i - 1
        /\ peer.irs = k.iss => \A c \in (k.iss + 1)..(k.end - 1) : c \in Members(q) \/ c < peer.rcv

(* The sockets and their queues, over states of the right types. *)
TcpSound == TcpTypeOK /\ ListedOnce /\ StreamHeld

(* While the station keeps its window open, what a connected socket has to     *)
(* send is acknowledged or the connection given up: no chunk stays in a queue  *)
(* with nobody to send it.                                                     *)
Owes(s) == ~peer.shuts /\ sock[s].state = "ESTABLISHED" /\ Queued(sock[s]) # <<>>
SendEnds == \A s \in Sock : Owes(s) ~> ~Owes(s)
==============================================================================
