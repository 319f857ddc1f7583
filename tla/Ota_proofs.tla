-------------------------------- MODULE Ota_proofs --------------------------------
(* Proofs about Ota, for every number of sessions, duplicates and tries,   *)
(* every size of image and every size of the connections' buffers.         *)
EXTENDS Ota, FiniteSetTheorems, SequenceTheorems, TLAPS

(***************************************************************************)
(* The inductive invariant                                                 *)
(***************************************************************************)
(* The host: where serve() is decides what it holds.                       *)
HostInv ==
  /\ hpc \in {"send", "ack", "result"} <=> hconn # 0
  /\ ~Live => answers = {} /\ backlog = << >>
  /\ hpc \in {"invite", "await", "auth", "accept"} => sent = 0
  /\ hpc = "send" => sent < Chunks
  /\ hpc \in {"await", "auth"} => tries # 0
  /\ Live => reads < ResultReads

(* The device: what it has said decides where _runUpdate() is, and a       *)
(* connection that failed has brought no data.                             *)
DeviceInv ==
  /\ UpdaterReleased
  /\ StartIsAnswered
  /\ dpc \in {"connect", "receive"} => said = {"start"}
  /\ dpc = "connect" => upd.progress = 0
  /\ dpc = "finish" =>
       said = {"start"} \/ (said = {"start", "connect"} /\ upd.progress = 0)

(* The connections: each end is held once, and both ends agree on whose it *)
(* is and on how much was sent.                                            *)
Queued(c) == \E i \in DOMAIN backlog : backlog[i] = c
Transferred == conns[dconn].up + upd.progress
ConnInv ==
  /\ Len(backlog) <= Pending
  /\ \A i, j \in DOMAIN backlog : backlog[i] = backlog[j] => i = j
  /\ ~Queued(hconn)
  /\ \A c \in Conns : HostHolds(c) => conns[c].for = session
  /\ \A c \in Conns : conns[c].dev => c = dconn
  /\ dpc = "receive" => dconn # 0
  /\ dconn # 0 => /\ dpc \in {"receive", "finish"} /\ conns[dconn].for = inv
                  /\ Transferred <= Size
                  /\ dconn = hconn => Transferred <= 2 * sent
                  /\ Queued(dconn) => Transferred = 0

(* The nonces: each belongs to one session, and a message that carries it  *)
(* comes from that session.                                                *)
NonceOf(n, s) == n \in 1 .. Len(issued) /\ issued[n] = s
AuthInv ==
  /\ \A m \in net : m.kind = "auth" => NonceOf(m.nonce, m.session)
  /\ \A a \in answers : a.kind = "AUTH" => NonceOf(a.nonce, session)
  /\ st = "WAITAUTH" => NonceOf(Nonce, inv)
  /\ AuthorisedImage

(* The result: an "O" is on its way only from an image that was accepted.  *)
Says(data) == \E i \in 1 .. Len(data) : data[i] = "O"
ResultInv ==
  /\ \A c \in Conns : Says(conns[c].down) => conns[c].for \in installed
  /\ SuccessIsReal

IInv == TypeOK /\ HostInv /\ DeviceInv /\ ConnInv /\ AuthInv /\ ResultInv

(***************************************************************************)
(* Lemmas                                                                  *)
(***************************************************************************)
(* Neither side touches the other's variables.                             *)
LEMMA HostFrame == Run \/ HostStep => UNCHANGED <<server, attempt, ghosts>>
  BY DEF Run, HostStep, Invite, InviteTimeout, HearAnswer, HearVerdict, Accept, SendChunk,
         HearAck, HearResult

DeviceStep ==
  Begin \/ End \/ OnRx \/ UpdateStep \/ ReceiveData \/ Disconnected \/ PowerCut
LEMMA DeviceFrame == DeviceStep => UNCHANGED host
  BY DEF DeviceStep, Begin, End, OnRx, UpdateStep, BeginUpdate, Connect, RepeatAck,
         ReceiveFails, ReceivedAll, FinishUpdate, ReceiveData, Disconnected, LeavesLoop, PowerCut

(* What recv() returns is a part of what was sent, and leaves the rest.    *)
Text == {"ack", "O", "K", "error"}
LEMMA PrefixType ==
  ASSUME NEW s \in Seq(Text), NEW data \in Prefixes(s)
  PROVE  /\ data \in Seq(Text) /\ Len(data) <= Len(s)
         /\ Says(data) => Says(s)
         /\ SubSeq(s, Len(data) + 1, Len(s)) \in Seq(Text)
         /\ Says(SubSeq(s, Len(data) + 1, Len(s))) => Says(s)
<1>1. PICK n \in 0 .. Len(s) : data = SubSeq(s, 1, n)
  BY DEF Prefixes
<1>2. /\ data \in Seq(Text) /\ Len(data) = n
      /\ \A i \in 1 .. n : data[i] = s[i]
  BY <1>1, SubSeqProperties
<1>3. DEFINE rest == SubSeq(s, n + 1, Len(s))
<1>4. /\ rest \in Seq(Text) /\ Len(rest) = Len(s) - n
      /\ \A i \in 1 .. Len(s) - n : rest[i] = s[n + i]
  BY SubSeqProperties
<1>5. QED
  BY <1>2, <1>4 DEF Says

(* A reply adds its text or nothing.                                       *)
LEMMA ReplyType ==
  ASSUME NEW conn \in Connection, NEW text \in Seq(Text)
  PROVE  /\ Reply(conn, text) \in Connection
         /\ Reply(conn, text).for = conn.for /\ Reply(conn, text).up = conn.up
         /\ Reply(conn, text).dev = conn.dev
         /\ Says(Reply(conn, text).down) => Says(conn.down) \/ Says(text)
<1>1. conn.down \o text \in Seq(Text)
  BY ConcatProperties DEF Connection, Text
<1>2. Says(conn.down \o text) => Says(conn.down) \/ Says(text)
  BY ConcatProperties DEF Connection, Text, Says
<1>3. QED
  BY <1>1, <1>2 DEF Reply, Connection, Text

(* The four texts the device sends.                                        *)
LEMMA Texts ==
  /\ << >> \in Seq(Text) /\ Ack \in Seq(Text)
  /\ <<"O", "K">> \in Seq(Text) /\ <<"error">> \in Seq(Text)
  /\ ~Says(<< >>) /\ ~Says(Ack) /\ ~Says(<<"error">>)
  BY DEF Text, Ack, Says

(* While the kernel's queue has room, some connection is not held.         *)
LEMMA FreeConnection ==
  ASSUME TypeOK, Len(backlog) < Pending
  PROVE  \E c \in Conns : ~HostHolds(c)
<1> SUFFICES ASSUME \A c \in Conns : HostHolds(c) PROVE FALSE
  OBVIOUS
<1>1. /\ Pending \in Nat /\ Len(backlog) \in Nat /\ Len(backlog) < Pending
      /\ DOMAIN backlog = 1 .. Len(backlog)
  BY OtaAssumption DEF TypeOK, TcpType
<1> DEFINE at(c) == CHOOSE i \in DOMAIN backlog : backlog[i] = c
           place(c) == IF c = hconn THEN Pending ELSE at(c)
           f == [c \in Conns |-> place(c)]
<1>2. \A c \in Conns : c # hconn => at(c) \in DOMAIN backlog /\ backlog[at(c)] = c
  BY DEF HostHolds
<1> HIDE DEF at
<1>3. \A c \in Conns : place(c) \in 1 .. Pending
  BY <1>1, <1>2
<1>4. \A c, d \in Conns : place(c) = place(d) => c = d
  BY <1>1, <1>2
<1> HIDE DEF place
<1>5. f \in [Conns -> 1 .. Pending]
  BY <1>3
<1>6. /\ IsFiniteSet(Conns) /\ IsFiniteSet(1 .. Pending)
      /\ Cardinality(1 .. Pending) < Cardinality(Conns)
  BY <1>1, FS_Interval DEF Conns
<1>7. \E c, d \in Conns : c # d /\ f[c] = f[d]
  <2> HIDE DEF f
  <2>1. QED
    BY <1>5, <1>6, FS_PigeonHole
<1>8. QED
  BY <1>4, <1>7

(* serve() returns.                                                        *)
LEMMA EndsType ==
  ASSUME TypeOK, NEW how, Ends(how)
  PROVE  /\ answers' = {} /\ backlog' = << >> /\ hconn' = 0 /\ hpc' = "done"
         /\ outcome' = how
         /\ conns' \in [Conns -> Connection]
         /\ \A c \in Conns : c # dconn => conns'[c] = NoConn
         /\ dconn \in Conns => conns'[dconn] = [conns[dconn] EXCEPT !.host = FALSE]
<1>1. NoConn \in Connection
  BY OtaAssumption, EmptySeq DEF NoConn, Connection, Sessions
<1>2. QED
  BY <1>1 DEF Ends, TypeOK, TcpType, Connection

(* client.stop() after a last reply.                                       *)
LEMMA CloseConnType ==
  ASSUME TypeOK, NEW text \in Seq(Text), CloseConn(text)
  PROVE  /\ conns' \in [Conns -> Connection]
         /\ \A c \in Conns : c # dconn => conns'[c] = conns[c]
         /\ dconn \in Conns =>
              /\ ~conns'[dconn].dev
              /\ HostHolds(dconn) => conns'[dconn].for = conns[dconn].for
              /\ Says(conns'[dconn].down) =>
                   /\ conns'[dconn].for = conns[dconn].for
                   /\ Says(conns[dconn].down) \/ Says(text)
<1>1. NoConn \in Connection /\ ~NoConn.dev /\ ~Says(NoConn.down)
  BY OtaAssumption, EmptySeq DEF NoConn, Connection, Sessions, Says
<1>2. ASSUME dconn \in Conns
      PROVE  /\ Closed(Reply(conns[dconn], text)) \in Connection
             /\ ~Closed(Reply(conns[dconn], text)).dev
             /\ Closed(Reply(conns[dconn], text)).for = conns[dconn].for
             /\ Says(Closed(Reply(conns[dconn], text)).down) =>
                  Says(conns[dconn].down) \/ Says(text)
  <2>1. conns[dconn] \in Connection
    BY <1>2 DEF TypeOK, TcpType
  <2>2. PICK conn \in Connection :
          /\ conn = Reply(conns[dconn], text) /\ conn.for = conns[dconn].for
          /\ Says(conn.down) => Says(conns[dconn].down) \/ Says(text)
    BY <2>1, ReplyType
  <2>3. QED
    BY <2>2 DEF Closed, Connection
<1>3. conns \in [Conns -> Connection]
  BY DEF TypeOK, TcpType
<1>4. conns' = [c \in Conns |->
        IF c # dconn THEN conns[c]
        ELSE IF HostHolds(c) THEN Closed(Reply(conns[c], text)) ELSE NoConn]
  BY DEF CloseConn
<1>5. conns' \in [Conns -> Connection]
  BY <1>1, <1>2, <1>3, <1>4
<1>6. QED
  BY <1>1, <1>2, <1>4, <1>5

(***************************************************************************)
(* Types                                                                   *)
(***************************************************************************)
LEMMA InitIInv == Init => IInv
<1> SUFFICES ASSUME Init PROVE IInv
  OBVIOUS
<1> USE OtaAssumption DEF Init
<1>1. HostType /\ NetType
  <2>1. session \in Sessions
    BY DEF Sessions
  <2>2. tries \in 0 .. MaxTries /\ sent \in 0 .. Chunks /\ reads \in 0 .. ResultReads
        /\ dups \in 0 .. MaxDups
    OBVIOUS
  <2>3. knows \in BOOLEAN /\ lastOk \in BOOLEAN
    OBVIOUS
  <2>4. HostType
    BY <2>1, <2>2, <2>3 DEF HostType
  <2>5. NetType
    BY <2>2 DEF NetType
  <2>6. QED
    BY <2>4, <2>5
<1>2. TcpType
  <2>1. NoConn \in Connection
    BY EmptySeq DEF NoConn, Connection, Sessions
  <2>2. QED
    BY <2>1, EmptySeq DEF TcpType
<1>3. DeviceType /\ GhostType
  <2>1. upd \in [running: BOOLEAN, progress: 0 .. Size]
    BY DEF Idle, Size
  <2>2. DeviceType
    <3>1. tried \in 0 .. AckTries /\ inv \in Sessions
      BY DEF Sessions
    <3>2. QED
      BY <2>1, <3>1 DEF DeviceType
  <2>3. GhostType
    BY EmptySeq DEF GhostType, Sessions
  <2>4. QED
    BY <2>2, <2>3
<1>4. HostInv
  BY DEF HostInv, Live
<1>5. DeviceInv
  BY DEF DeviceInv, UpdaterReleased, StartIsAnswered, Idle
<1>6. ConnInv
  BY EmptySeq DEF ConnInv, Queued, HostHolds, NoConn, Conns
<1>7. AuthInv
  BY DEF AuthInv, AuthorisedImage
<1>8. ResultInv
  BY EmptySeq DEF ResultInv, SuccessIsReal, Says, NoConn
<1>9. QED
  BY <1>1, <1>2, <1>3, <1>4, <1>5, <1>6, <1>7, <1>8 DEF IInv, TypeOK

(* What is left of a connection after recv().                              *)
LEMMA TakesType ==
  ASSUME TypeOK, hconn # 0, NEW data \in Prefixes(conns[hconn].down), Takes(data)
  PROVE  /\ conns' \in [Conns -> Connection]
         /\ \A c \in Conns : c # hconn => conns'[c] = conns[c]
         /\ conns'[hconn] = [conns[hconn] EXCEPT !.down = conns'[hconn].down]
         /\ Says(data) \/ Says(conns'[hconn].down) => Says(conns[hconn].down)
<1> DEFINE conn == conns[hconn]
           rest == SubSeq(conn.down, Len(data) + 1, Len(conn.down))
<1>1. hconn \in Conns /\ conns \in [Conns -> Connection]
  BY DEF TypeOK, HostType, TcpType
<1>2. conn \in Connection /\ conn.down \in Seq(Text)
  BY <1>1 DEF Connection, Text
<1>3. rest \in Seq(Text) /\ (Says(data) => Says(conn.down)) /\ (Says(rest) => Says(conn.down))
  BY <1>2, PrefixType
<1>4. conns' = [conns EXCEPT ![hconn] = [conn EXCEPT !.down = rest]]
  BY <1>1 DEF Takes, Connection
<1> HIDE DEF rest
<1>5. [conn EXCEPT !.down = rest] \in Connection
  BY <1>2, <1>3 DEF Connection, Text
<1>6. QED
  BY <1>1, <1>2, <1>3, <1>4, <1>5 DEF Connection

(* The host's own variables.                                               *)
LEMMA HostKeepsHostType == IInv /\ (Run \/ HostStep) => HostType'
<1> SUFFICES ASSUME IInv, Run \/ HostStep PROVE HostType'
  OBVIOUS
<1>0. TypeOK /\ HostType /\ HostInv /\ TcpType
  BY DEF IInv, TypeOK
<1> USE OtaAssumption, <1>0 DEF HostType, HostInv, Sessions
<1>1. CASE Run
  <2>1. knows' \in BOOLEAN /\ lastOk' \in BOOLEAN
    BY <1>1 DEF Run
  <2>2. session' \in Sessions' /\ hconn' \in Conns' \cup {0} /\ hpc' = "invite"
    BY <1>1 DEF Run, Conns
  <2>3. tries' \in 0 .. MaxTries /\ sent' \in 0 .. Chunks /\ reads' \in 0 .. ResultReads
    BY <1>1 DEF Run
  <2>4. QED
    BY <2>1, <2>2, <2>3
<1>2. CASE Invite
  <2>1. tries' \in 0 .. MaxTries /\ UNCHANGED <<session, knows, sent, lastOk, reads>>
    <3>1. /\ tries < MaxTries /\ tries' = tries + 1
          /\ UNCHANGED <<session, knows, sent, lastOk, reads>>
      BY <1>2, Zenon DEF Invite
    <3>2. tries \in 0 .. MaxTries /\ MaxTries \in Nat
      OBVIOUS
    <3>3. QED
      BY <3>1, <3>2
  <2>2. (hpc' = "await" /\ hconn' = hconn) \/ Ends("not found")
    BY <1>2 DEF Invite
  <2>3. hpc' \in {"await", "done"} /\ hconn' \in {hconn, 0}
    BY <2>2, EndsType
  <2>4. QED
    BY <2>1, <2>3 DEF Conns
<1>3. CASE InviteTimeout
  BY <1>3, EndsType DEF InviteTimeout
<1>4. CASE HearAnswer
  BY <1>4, EndsType DEF HearAnswer, Authenticate
<1>5. CASE HearVerdict
  BY <1>5, EndsType DEF HearVerdict
<1>6. CASE Accept
  <2>1. backlog # << >> => Head(backlog) \in Conns
    BY HeadTailProperties DEF TcpType
  <2>2. QED
    BY <1>6, <2>1, EndsType DEF Accept
<1>7. CASE SendChunk
  <2>1. CASE sent' = sent + 1 /\ hpc' = "ack" /\ UNCHANGED hconn
    <3>1. sent < Chunks
      BY <1>7 DEF SendChunk
    <3>2. sent' \in 0 .. Chunks
      BY <2>1, <3>1
    <3>3. QED
      BY <1>7, <2>1, <3>2 DEF SendChunk
  <2>2. CASE Ends("upload failed") /\ UNCHANGED sent
    BY <1>7, <2>2, EndsType DEF SendChunk
  <2>3. QED
    BY <1>7, <2>1, <2>2 DEF SendChunk
<1>8. CASE HearAck
  <2>1. lastOk' \in BOOLEAN
    BY <1>8 DEF HearAck, HasOk
  <2>2. QED
    BY <1>8, <2>1, EndsType DEF HearAck
<1>9. CASE HearResult
  <2>1. reads' \in 0 .. ResultReads
    <3>1. reads < ResultReads /\ reads' \in {reads, reads + 1}
      BY <1>9 DEF HearResult, Live
    <3>2. QED
      BY <3>1
  <2>2. hpc' \in {hpc, "done"} /\ hconn' \in {hconn, 0}
    BY <1>9, EndsType DEF HearResult
  <2>3. QED
    BY <1>9, <2>1, <2>2 DEF HearResult
<1>10. QED
  BY <1>1, <1>2, <1>3, <1>4, <1>5, <1>6, <1>7, <1>8, <1>9 DEF HostStep

(* The datagrams.                                                          *)
LEMMA HostKeepsNetType == IInv /\ (Run \/ HostStep) => NetType'
<1> SUFFICES ASSUME IInv, Run \/ HostStep PROVE NetType'
  OBVIOUS
<1>0. TypeOK /\ HostType /\ NetType /\ HostInv
  BY DEF IInv, TypeOK
<1> USE OtaAssumption, <1>0 DEF NetType
<1>1. CASE Invite
  <2>1. session \in Sessions /\ tries + 1 \in 1 .. MaxTries
    <3>1. tries \in 0 .. MaxTries /\ tries < MaxTries /\ session \in Sessions
      BY <1>1 DEF Invite, HostType
    <3>2. QED
      BY <3>1
  <2>2. net' \subseteq Message
    <3>1. [kind |-> "invite", session |-> session, try |-> tries + 1,
            nonce |-> 0, good |-> FALSE] \in Message
      BY <2>1 DEF Message
    <3>2. QED
      BY <1>1, <3>1 DEF Invite
  <2>3. QED
    BY <1>1, <2>2, EndsType DEF Invite
<1>2. CASE HearAnswer
  <2>1. ASSUME NEW a \in answers, Authenticate(a.nonce) PROVE net' \subseteq Message
    <3>1. tries \in 1 .. MaxTries /\ a.nonce \in Nat
      <4>1. tries \in 0 .. MaxTries /\ tries # 0 /\ a.nonce \in Nat
        BY <1>2, <2>1 DEF HearAnswer, HostInv, HostType
      <4>2. QED
        BY <4>1
    <3>2. QED
      BY <2>1, <3>1 DEF Authenticate, Message, HostType
  <2>2. net' \subseteq Message
    BY <1>2, <2>1 DEF HearAnswer
  <2>3. answers' \subseteq answers
    BY <1>2, EndsType DEF HearAnswer
  <2>4. QED
    BY <1>2, <2>2, <2>3 DEF HearAnswer
<1>3. CASE ~Invite /\ ~HearAnswer
  BY <1>3, EndsType DEF HostStep, Run, datagrams, InviteTimeout, HearVerdict, Accept, SendChunk, HearAck, HearResult
<1>4. QED
  BY <1>1, <1>2, <1>3

(* The connections.                                                        *)
LEMMA HostKeepsTcpType == IInv /\ (Run \/ HostStep) => TcpType'
<1> SUFFICES ASSUME IInv, Run \/ HostStep PROVE TcpType'
  OBVIOUS
<1>0. TypeOK /\ HostType /\ TcpType /\ HostInv /\ << >> \in Seq(Conns)
  BY EmptySeq DEF IInv, TypeOK
<1> USE <1>0 DEF TcpType
<1>1. CASE Accept
  <2>1. backlog # << >> => Tail(backlog) \in Seq(Conns)
    BY HeadTailProperties
  <2>2. QED
    BY <1>1, <2>1, EndsType DEF Accept
<1>2. CASE SendChunk
  <2>1. CASE /\ conns' = [conns EXCEPT ![hconn].up = IF conns[hconn].dev THEN @ + 2 ELSE @]
             /\ UNCHANGED backlog
    <3>1. CASE hconn \in Conns
      <4>1. conns[hconn] \in Connection /\ conns[hconn].up \in Nat
        BY <3>1 DEF Connection
      <4>2. [conns[hconn] EXCEPT !.up = IF conns[hconn].dev THEN @ + 2 ELSE @] \in Connection
        <5>1. conns[hconn].up + 2 \in Nat
          BY <4>1
        <5>2. QED
          BY <4>1, <5>1 DEF Connection
      <4>3. QED
        BY <2>1, <4>2
    <3>2. CASE hconn \notin Conns
      BY <2>1, <3>2
    <3>3. QED
      BY <3>1, <3>2
  <2>2. CASE Ends("upload failed")
    BY <2>2, EndsType
  <2>3. QED
    BY <1>2, <2>1, <2>2 DEF SendChunk
<1>3. CASE HearAck
  <2>1. hconn # 0
    BY <1>3 DEF HearAck, HostInv
  <2>2. QED
    BY <1>3, <2>1, EndsType, TakesType DEF HearAck
<1>4. CASE HearResult
  <2>1. hconn # 0
    BY <1>4 DEF HearResult, HostInv
  <2>2. QED
    BY <1>4, <2>1, EndsType, TakesType DEF HearResult
<1>5. CASE ~Accept /\ ~SendChunk /\ ~HearAck /\ ~HearResult
  BY <1>5, EndsType DEF HostStep, Run, tcp, Invite, InviteTimeout, HearAnswer, HearVerdict
<1>6. QED
  BY <1>1, <1>2, <1>3, <1>4, <1>5

LEMMA HostKeepsTypes == IInv /\ (Run \/ HostStep) => TypeOK'
<1> SUFFICES ASSUME IInv, Run \/ HostStep PROVE TypeOK'
  OBVIOUS
<1>1. DeviceType' /\ GhostType'
  BY HostFrame DEF IInv, TypeOK, DeviceType, GhostType, server, attempt, ghosts
<1>2. QED
  BY <1>1, HostKeepsHostType, HostKeepsNetType, HostKeepsTcpType DEF TypeOK

(* Every step of the device keeps the types: the datagrams.                *)
LEMMA DeviceKeepsNetType == IInv /\ DeviceStep => NetType'
<1> SUFFICES ASSUME IInv, DeviceStep PROVE NetType'
  OBVIOUS
<1>0. NetType /\ issued \in Seq(Sessions)
  BY DEF IInv, TypeOK, GhostType
<1>1. CASE OnRx
  <2>1. PICK m \in net :
          Parses(m) /\ (RxInvitation(m) \/ RxIgnored(m) \/ RxUnexpected(m) \/ RxResponse(m))
    BY <1>1 DEF OnRx
  <2>2. net' \subseteq net /\ dups' \in 0 .. MaxDups
    BY <1>0, <2>1, OtaAssumption DEF Parses, NetType
  <2>3. m.session \in Sessions
    BY <1>0 DEF NetType, Message
  <2>4. Nonce' \in Nat
    BY <1>0, <2>1, <2>3, AppendProperties
       DEF RxInvitation, RxIgnored, RxUnexpected, RxResponse, Nonce
  <2>5. \A kind \in {"AUTH", "OK", "FAILED"}, n \in Nat :
          Answers(m, kind, n) => answers' \subseteq [kind: {"AUTH", "OK", "FAILED"}, nonce: Nat]
    BY <1>0 DEF Answers, NetType
  <2>6. answers' \subseteq [kind: {"AUTH", "OK", "FAILED"}, nonce: Nat]
    BY <1>0, <2>1, <2>4, <2>5 DEF RxInvitation, RxIgnored, RxUnexpected, RxResponse, NetType
  <2>7. QED
    BY <1>0, <2>2, <2>6 DEF NetType
<1>2. CASE ~OnRx
  BY <1>0, <1>2
     DEF NetType, datagrams, DeviceStep, Begin, End, UpdateStep, BeginUpdate, Connect, RepeatAck,
         ReceiveFails, ReceivedAll, FinishUpdate, ReceiveData, Disconnected, LeavesLoop, PowerCut
<1>3. QED
  BY <1>1, <1>2

(* The connection the device is given is one nobody held, and new.         *)
LEMMA ConnectType ==
  ASSUME IInv, Connect, said' = said
  PROVE  /\ dconn = 0 /\ dconn' \in Conns /\ ~HostHolds(dconn')
         /\ Len(backlog) < Pending /\ backlog' = Append(backlog, dconn') /\ inv = session
         /\ conns' = [conns EXCEPT ![dconn'] =
                        [for |-> inv, up |-> 0, down |-> << >>, dev |-> TRUE, host |-> TRUE]]
         /\ conns' \in [Conns -> Connection] /\ backlog' \in Seq(Conns)
<1>1. said = {"start"} /\ dconn = 0
  BY DEF IInv, ConnInv, DeviceInv, Connect
<1>2. "connect" \notin said
  BY <1>1
<1>3. /\ Len(backlog) < Pending /\ inv = session
      /\ dconn' = CHOOSE c \in Conns : ~HostHolds(c)
      /\ backlog' = Append(backlog, dconn')
      /\ conns' = [conns EXCEPT ![dconn'] =
                     [for |-> inv, up |-> 0, down |-> << >>, dev |-> TRUE, host |-> TRUE]]
  BY <1>2 DEF Connect
<1>4. dconn' \in Conns /\ ~HostHolds(dconn')
  BY <1>3, FreeConnection DEF IInv
<1>5. TcpType /\ inv \in Sessions
  BY DEF IInv, TypeOK, DeviceType
<1>6. [for |-> inv, up |-> 0, down |-> << >>, dev |-> TRUE, host |-> TRUE] \in Connection
  BY <1>5, EmptySeq DEF Connection
<1>7. QED
  BY <1>1, <1>3, <1>4, <1>5, <1>6, AppendProperties DEF TcpType

LEMMA ConnectOrNot ==
  ASSUME Connect
  PROVE  \/ said' = said
         \/ /\ said' = said \cup {"connect"} /\ st' = "IDLE" /\ dpc' = "finish"
            /\ UNCHANGED <<tcp, dconn, written, tried>>
  BY DEF Connect

(* A reply on the device's own connection, after n units were read.        *)
LEMMA ReceiveType ==
  ASSUME IInv, dpc = "receive", NEW n \in Nat, n <= conns[dconn].up,
         \/ conns' = [conns EXCEPT ![dconn] = [conns[dconn] EXCEPT !.up = @ - n]]
         \/ conns' = [conns EXCEPT ![dconn] = Reply([conns[dconn] EXCEPT !.up = @ - n], Ack)]
  PROVE  /\ dconn \in Conns /\ conns' \in [Conns -> Connection]
         /\ \A c \in Conns : c # dconn => conns'[c] = conns[c]
         /\ conns'[dconn].for = conns[dconn].for /\ conns'[dconn].dev = conns[dconn].dev
         /\ conns'[dconn].up = conns[dconn].up - n
         /\ Says(conns'[dconn].down) => Says(conns[dconn].down)
<1>1. dconn \in Conns /\ conns \in [Conns -> Connection]
  BY DEF IInv, TypeOK, DeviceType, TcpType, ConnInv
<1>2. conns[dconn] \in Connection /\ conns[dconn].up - n \in Nat
  <2>1. conns[dconn].up \in Nat
    BY <1>1 DEF Connection
  <2>2. QED
    BY <1>1, <2>1
<1>3. DEFINE rest == [conns[dconn] EXCEPT !.up = @ - n]
<1>4. /\ rest \in Connection /\ rest.for = conns[dconn].for /\ rest.dev = conns[dconn].dev
      /\ rest.up = conns[dconn].up - n /\ rest.down = conns[dconn].down
  BY <1>2 DEF Connection
<1> HIDE DEF rest
<1>5. PICK conn \in {rest, Reply(rest, Ack)} : conns' = [conns EXCEPT ![dconn] = conn]
  BY DEF rest
<1>6. /\ conn \in Connection /\ conn.for = rest.for /\ conn.dev = rest.dev
      /\ conn.up = rest.up /\ (Says(conn.down) => Says(rest.down))
  BY <1>4, <1>5, ReplyType, Texts
<1>7. QED
  BY <1>1, <1>4, <1>5, <1>6

(* The connections and the device's own variables.                         *)
LEMMA DeviceKeepsTcpType == IInv /\ DeviceStep => TcpType'
<1> SUFFICES ASSUME IInv, DeviceStep PROVE TcpType'
  OBVIOUS
<1>0. TypeOK /\ TcpType
  BY DEF IInv, TypeOK
<1>1. CASE Connect
  <2>1. CASE said' = said
    BY <1>1, <2>1, ConnectType DEF TcpType
  <2>2. CASE UNCHANGED tcp
    BY <1>0, <2>2 DEF TcpType, tcp
  <2>3. QED
    BY <1>1, <2>1, <2>2, ConnectOrNot
<1>2. CASE ReceiveData
  <2>1. PICK n \in 1 .. ReadUnits :
          /\ n <= conns[dconn].up
          /\ \/ conns' = [conns EXCEPT ![dconn] = [conns[dconn] EXCEPT !.up = @ - n]]
             \/ conns' = [conns EXCEPT ![dconn] = Reply([conns[dconn] EXCEPT !.up = @ - n], Ack)]
    BY <1>2 DEF ReceiveData
  <2>2. n \in Nat /\ dpc = "receive"
    BY <1>2, OtaAssumption DEF ReceiveData
  <2>3. conns' \in [Conns -> Connection]
    BY <2>1, <2>2, ReceiveType
  <2>4. QED
    BY <1>0, <1>2, <2>3 DEF TcpType, ReceiveData
<1>3. CASE RepeatAck
  <2>1. dconn \in Conns
    BY <1>3 DEF IInv, TypeOK, DeviceType, ConnInv, RepeatAck
  <2>2. Reply(conns[dconn], Ack) \in Connection
    BY <1>0, <2>1, ReplyType, Texts DEF TcpType
  <2>3. QED
    BY <1>0, <1>3, <2>2 DEF TcpType, RepeatAck
<1>4. CASE ReceiveFails
  BY <1>0, <1>4, CloseConnType, Texts DEF TcpType, ReceiveFails
<1>5. CASE FinishUpdate
  BY <1>0, <1>5, CloseConnType, Texts DEF TcpType, FinishUpdate
<1>6. CASE PowerCut
  BY <1>0, <1>6, CloseConnType, Texts DEF TcpType, PowerCut
<1>7. CASE Begin \/ End \/ OnRx \/ BeginUpdate \/ ReceivedAll \/ Disconnected
  BY <1>0, <1>7
     DEF TcpType, tcp, Begin, End, OnRx, BeginUpdate, ReceivedAll, Disconnected, LeavesLoop
<1>8. QED
  BY <1>1, <1>2, <1>3, <1>4, <1>5, <1>6, <1>7 DEF DeviceStep, UpdateStep

LEMMA DeviceKeepsDeviceType == IInv /\ DeviceStep => DeviceType'
<1> SUFFICES ASSUME IInv, DeviceStep PROVE DeviceType'
  OBVIOUS
<1>0. DeviceType /\ 0 \in 0 .. AckTries /\ Idle \in [running: BOOLEAN, progress: 0 .. Size]
  BY OtaAssumption DEF IInv, TypeOK, Idle, Size
<1>1. CASE Connect
  <2>1. CASE said' = said
    <3>1. dconn' \in Conns
      BY <1>1, <2>1, ConnectType
    <3>2. dpc' \in {"receive", "finish"} /\ written' \in BOOLEAN /\ tried' \in 0 .. AckTries
          /\ st' \in {"IDLE", "WAITAUTH", "RUNUPDATE"}
      BY <1>0, <1>1 DEF Connect, DeviceType
    <3>3. QED
      BY <1>0, <1>1, <3>1, <3>2 DEF DeviceType, Connect
  <2>2. CASE ~(said' = said)
    BY <1>0, <1>1, <2>2, ConnectOrNot DEF DeviceType, Connect
  <2>3. QED
    BY <2>1, <2>2
<1>2. CASE ReceiveData
  <2>1. PICK n \in 1 .. ReadUnits :
          /\ n <= conns[dconn].up
          /\ \/ upd' = [upd EXCEPT !.progress = @ + n] /\ written' = TRUE
             \/ upd' = Idle /\ written' \in BOOLEAN
    BY <1>2 DEF ReceiveData
  <2>2. dconn \in Conns /\ conns[dconn].up \in Nat /\ Transferred <= Size
    <3>1. dconn \in Conns /\ Transferred <= Size
      BY <1>2 DEF IInv, TypeOK, DeviceType, ConnInv, ReceiveData
    <3>2. QED
      BY <3>1 DEF IInv, TypeOK, TcpType, Connection
  <2>3. upd.progress \in Nat /\ Size \in Nat /\ n \in Nat
    BY <1>0, OtaAssumption DEF DeviceType, Size
  <2>4. upd.progress + n \in 0 .. Size
    BY <2>1, <2>2, <2>3 DEF Transferred
  <2>5. upd' \in [running: BOOLEAN, progress: 0 .. Size]
    BY <1>0, <2>1, <2>4 DEF DeviceType
  <2>6. QED
    BY <1>0, <1>2, <2>1, <2>5 DEF DeviceType, ReceiveData, server
<1>3. CASE OnRx
  <2>1. PICK m \in net :
          RxInvitation(m) \/ RxIgnored(m) \/ RxUnexpected(m) \/ RxResponse(m)
    BY <1>3 DEF OnRx
  <2>2. m.session \in Sessions
    BY DEF IInv, TypeOK, NetType, Message
  <2>3. inv' \in Sessions /\ st' \in {"IDLE", "WAITAUTH", "RUNUPDATE"}
    BY <1>0, <2>1, <2>2 DEF RxInvitation, RxIgnored, RxUnexpected, RxResponse, DeviceType
  <2>4. QED
    BY <1>0, <1>3, <2>3 DEF DeviceType, OnRx, attempt
<1>4. CASE RepeatAck
  <2>1. tried' \in 0 .. AckTries
    <3>1. tried \in 0 .. AckTries /\ tried < AckTries /\ tried' \in {tried, tried + 1}
      BY <1>0, <1>4 DEF DeviceType, RepeatAck
    <3>2. QED
      BY <3>1, OtaAssumption
  <2>2. QED
    BY <1>0, <1>4, <2>1 DEF DeviceType, RepeatAck
<1>5. CASE BeginUpdate
  <2>1. [running |-> TRUE, progress |-> 0] \in [running: BOOLEAN, progress: 0 .. Size]
    BY OtaAssumption DEF Size
  <2>2. QED
    BY <1>0, <1>5, <2>1 DEF DeviceType, BeginUpdate
<1>6. CASE FinishUpdate
  BY <1>0, <1>6 DEF DeviceType, FinishUpdate
<1>7. CASE ReceiveFails \/ PowerCut
  BY <1>0, <1>7 DEF DeviceType, ReceiveFails, PowerCut
<1>8. CASE Begin \/ End \/ ReceivedAll \/ Disconnected
  BY <1>0, <1>8 DEF DeviceType, attempt, server, Begin, End, ReceivedAll, Disconnected, LeavesLoop
<1>9. QED
  BY <1>1, <1>2, <1>3, <1>4, <1>5, <1>6, <1>7, <1>8 DEF DeviceStep, UpdateStep

LEMMA DeviceKeepsGhostType == IInv /\ DeviceStep => GhostType'
<1> SUFFICES ASSUME IInv, DeviceStep PROVE GhostType'
  OBVIOUS
<1>0. GhostType /\ inv \in Sessions
  BY DEF IInv, TypeOK, DeviceType
<1>1. CASE OnRx
  <2>1. PICK m \in net :
          RxInvitation(m) \/ RxIgnored(m) \/ RxUnexpected(m) \/ RxResponse(m)
    BY <1>1 DEF OnRx
  <2>2. m.session \in Sessions
    BY DEF IInv, TypeOK, NetType, Message
  <2>3. issued' \in Seq(Sessions) /\ grantedTo' \in Sessions
    BY <1>0, <2>1, <2>2, AppendProperties
       DEF GhostType, RxInvitation, RxIgnored, RxUnexpected, RxResponse
  <2>4. QED
    BY <1>0, <1>1, <2>3 DEF GhostType, OnRx
<1>2. CASE Begin \/ End \/ ReceivedAll \/ Disconnected \/ ReceiveData \/ RepeatAck
  BY <1>0, <1>2
     DEF GhostType, ghosts, Begin, End, ReceivedAll, Disconnected, LeavesLoop, ReceiveData, RepeatAck
<1>3. CASE BeginUpdate \/ Connect \/ ReceiveFails \/ PowerCut
  BY <1>0, <1>3 DEF GhostType, Errors, BeginUpdate, Connect, ReceiveFails, PowerCut
<1>4. CASE FinishUpdate
  BY <1>0, <1>4 DEF GhostType, Errors, FinishUpdate
<1>5. QED
  BY <1>1, <1>2, <1>3, <1>4 DEF DeviceStep, UpdateStep

LEMMA DeviceKeepsTypes == IInv /\ DeviceStep => TypeOK'
<1> SUFFICES ASSUME IInv, DeviceStep PROVE TypeOK'
  OBVIOUS
<1>1. HostType'
  BY DeviceFrame DEF IInv, TypeOK, HostType, host
<1>2. QED
  BY <1>1, DeviceKeepsNetType, DeviceKeepsTcpType, DeviceKeepsDeviceType, DeviceKeepsGhostType
     DEF TypeOK

(***************************************************************************)
(* Every step keeps the invariant: the host                                *)
(***************************************************************************)
LEMMA HostKeepsHostInv == IInv /\ (Run \/ HostStep) => HostInv'
<1> SUFFICES ASSUME IInv, Run \/ HostStep PROVE HostInv'
  OBVIOUS
<1>0. TypeOK /\ HostType /\ TcpType /\ HostInv
  BY DEF IInv, TypeOK
<1> USE OtaAssumption, <1>0 DEF HostInv, Live
<1>1. ASSUME NEW how, Ends(how), UNCHANGED <<tries, reads>> PROVE HostInv'
  BY <1>1, EndsType
<1>2. CASE Run
  BY <1>2 DEF Run, datagrams, tcp
<1>3. CASE Invite
  <2>1. /\ hpc = "invite" /\ UNCHANGED <<sent, reads>> /\ tries' = tries + 1
    BY <1>3, Zenon DEF Invite
  <2>1a. tries \in 0 .. MaxTries
    BY DEF HostType
  <2>2. CASE hpc' = "await" /\ UNCHANGED <<outcome, hconn, answers, tcp>>
    BY <2>1, <2>1a, <2>2 DEF tcp
  <2>3. CASE Ends("not found")
    BY <2>1, <2>3, EndsType
  <2>4. QED
    BY <1>3, <2>2, <2>3 DEF Invite
<1>4. CASE InviteTimeout
  BY <1>1, <1>4 DEF InviteTimeout, tcp
<1>5. CASE HearAnswer
  BY <1>1, <1>5 DEF HearAnswer, Authenticate, tcp
<1>6. CASE HearVerdict
  BY <1>1, <1>6 DEF HearVerdict, tcp
<1>7. CASE Accept
  <2>1. CASE Ends("no connection")
    BY <1>1, <1>7, <2>1 DEF Accept
  <2>2. CASE backlog # << >> /\ hconn' = Head(backlog) /\ hpc' = "send"
    <3>1. Head(backlog) # 0
      BY <2>2, HeadTailProperties DEF TcpType, Conns
    <3>2. sent' = 0 /\ reads' < ResultReads
      BY <1>7 DEF Accept
    <3>3. QED
      BY <2>2, <3>1, <3>2
  <2>3. QED
    BY <1>7, <2>1, <2>2 DEF Accept
<1>8. CASE SendChunk
  BY <1>1, <1>8 DEF SendChunk
<1>9. CASE HearAck
  BY <1>1, <1>9 DEF HearAck, HostType
<1>10. CASE HearResult
  <2>1. CASE \E how \in {"success", "error response", "no result"} : Ends(how)
    BY <2>1, EndsType
  <2>2. CASE UNCHANGED <<hpc, hconn>> /\ reads' = reads + 1 /\ reads' # ResultReads
    <3>1. reads \in Nat /\ reads < ResultReads
      <4>1. reads \in 0 .. ResultReads
        BY DEF HostType
      <4>2. reads < ResultReads
        BY <1>10 DEF HearResult
      <4>3. QED
        BY <4>1, <4>2
    <3>2. reads' < ResultReads
      BY <2>2, <3>1
    <3>3. QED
      BY <1>10, <2>2, <3>2 DEF HearResult
  <2>3. QED
    BY <1>10, <2>1, <2>2 DEF HearResult
<1>11. QED
  BY <1>2, <1>3, <1>4, <1>5, <1>6, <1>7, <1>8, <1>9, <1>10 DEF HostStep

LEMMA HostKeepsDeviceInv == IInv /\ (Run \/ HostStep) => DeviceInv'
  BY HostFrame
     DEF IInv, DeviceInv, UpdaterReleased, StartIsAnswered, server, attempt, ghosts

LEMMA HostKeepsAuthInv == IInv /\ (Run \/ HostStep) => AuthInv'
<1> SUFFICES ASSUME IInv, Run \/ HostStep PROVE AuthInv'
  OBVIOUS
<1>0. AuthInv /\ HostInv
  BY DEF IInv
<1>1. UNCHANGED <<issued, st, inv, password, grantedTo>>
  BY HostFrame DEF server, attempt, ghosts
<1>2. \A a \in answers' : a.kind = "AUTH" => NonceOf(a.nonce, session')
  <2>1. CASE Run
    BY <1>0, <2>1 DEF Run, datagrams, HostInv
  <2>2. CASE HostStep
    <3>1. session' = session /\ answers' \subseteq answers
      BY <2>2, EndsType
         DEF IInv, HostStep, Invite, InviteTimeout, HearAnswer, HearVerdict, Accept, SendChunk,
             HearAck, HearResult
    <3>2. QED
      BY <1>0, <3>1 DEF AuthInv
  <2>3. QED
    BY <2>1, <2>2
<1>3. \A m \in net' : m.kind = "auth" => NonceOf(m.nonce, m.session)
  <2>1. CASE Invite
    <3>1. net' = net \/ net' = net \cup {[kind |-> "invite", session |-> session,
                                           try |-> tries + 1, nonce |-> 0, good |-> FALSE]}
      BY <2>1 DEF Invite
    <3>2. \A m \in net' : m.kind = "auth" => m \in net
      BY <3>1
    <3>3. QED
      BY <1>0, <3>2 DEF AuthInv
  <2>2. CASE HearAnswer
    <3>1. CASE UNCHANGED net
      BY <1>0, <3>1 DEF AuthInv
    <3>2. CASE ~UNCHANGED net
      <4>1. PICK a \in answers : a.kind = "AUTH" /\ Authenticate(a.nonce)
        BY <2>2, <3>2 DEF HearAnswer
      <4>2. NonceOf(a.nonce, session)
        BY <1>0, <4>1 DEF AuthInv
      <4>3. QED
        BY <1>0, <4>1, <4>2 DEF Authenticate, AuthInv
    <3>3. QED
      BY <3>1, <3>2
  <2>3. CASE ~Invite /\ ~HearAnswer
    BY <1>0, <2>3
       DEF AuthInv, HostStep, Run, datagrams, InviteTimeout, HearVerdict, Accept, SendChunk,
           HearAck, HearResult
  <2>4. QED
    BY <2>1, <2>2, <2>3
<1>4. QED
  BY <1>0, <1>1, <1>2, <1>3 DEF AuthInv, NonceOf, Nonce, AuthorisedImage

LEMMA HostKeepsResultInv == IInv /\ (Run \/ HostStep) => ResultInv'
<1> SUFFICES ASSUME IInv, Run \/ HostStep PROVE ResultInv'
  OBVIOUS
<1>0. TypeOK /\ HostInv /\ ConnInv /\ ResultInv
  BY DEF IInv
<1>1. installed' = installed
  BY HostFrame DEF ghosts
<1>2. conns \in [Conns -> Connection] /\ dconn \in Conns \cup {0}
  BY <1>0 DEF TypeOK, TcpType, DeviceType
<1>3. ASSUME NEW how, Ends(how), how = "success" => session \in installed,
             session' = session
      PROVE  ResultInv'
  <2>1. \A c \in Conns : Says(conns'[c].down) =>
          conns'[c].for = conns[c].for /\ Says(conns[c].down)
    <3>1. ~Says(NoConn.down)
      BY DEF NoConn, Says
    <3>2. dconn \in Conns =>
            conns'[dconn].for = conns[dconn].for /\ conns'[dconn].down = conns[dconn].down
      BY <1>0, <1>2, <1>3, EndsType DEF Connection
    <3>3. QED
      BY <1>0, <1>2, <1>3, <3>1, <3>2, EndsType
  <2>2. outcome' = how
    BY <1>0, <1>3, EndsType
  <2>3. QED
    BY <1>0, <1>1, <1>3, <2>1, <2>2 DEF ResultInv, SuccessIsReal
<1>4. ASSUME hconn # 0, NEW data \in Prefixes(conns[hconn].down), HasOk(data)
      PROVE  session \in installed
  <2>1. hconn \in Conns /\ conns[hconn].down \in Seq(Text)
    BY <1>0, <1>2, <1>4 DEF TypeOK, HostType, Connection, Text
  <2>2. Says(data)
    <3>1. Len(data) \in Nat
      BY <2>1, <1>4, PrefixType
    <3>2. QED
      BY <1>4, <3>1 DEF HasOk, Says
  <2>3. Says(conns[hconn].down)
    BY <1>4, <2>1, <2>2, PrefixType
  <2>4. QED
    BY <1>0, <2>1, <2>3 DEF ConnInv, ResultInv, HostHolds
<1>5. ASSUME hconn # 0, NEW data \in Prefixes(conns[hconn].down), Takes(data),
             UNCHANGED <<session, outcome>>
      PROVE  ResultInv'
  <2>1. hconn \in Conns
    BY <1>0, <1>5 DEF TypeOK, HostType
  <2>2. \A c \in Conns : Says(conns'[c].down) =>
          conns'[c].for = conns[c].for /\ Says(conns[c].down)
    <3>1. conns'[hconn].for = conns[hconn].for
      BY <1>0, <1>2, <1>5, <2>1, TakesType DEF Connection
    <3>2. QED
      BY <1>0, <1>5, <3>1, TakesType
  <2>3. QED
    BY <1>0, <1>1, <1>5, <2>2 DEF ResultInv, SuccessIsReal
<1>6. CASE Run
  BY <1>0, <1>1, <1>6 DEF ResultInv, SuccessIsReal, Run, tcp
<1>7. CASE Invite
  BY <1>0, <1>1, <1>3, <1>7 DEF ResultInv, SuccessIsReal, Invite, tcp
<1>8. CASE InviteTimeout
  BY <1>0, <1>1, <1>3, <1>8 DEF ResultInv, SuccessIsReal, InviteTimeout, tcp
<1>9. CASE HearAnswer
  BY <1>0, <1>1, <1>3, <1>9 DEF ResultInv, SuccessIsReal, HearAnswer, tcp
<1>10. CASE HearVerdict
  BY <1>0, <1>1, <1>3, <1>10 DEF ResultInv, SuccessIsReal, HearVerdict, tcp
<1>11. CASE Accept
  BY <1>0, <1>1, <1>3, <1>11 DEF ResultInv, SuccessIsReal, Accept
<1>12. CASE SendChunk
  <2>1. CASE conns' = [conns EXCEPT ![hconn].up = IF conns[hconn].dev THEN @ + 2 ELSE @]
    <3>1. \A c \in Conns : conns'[c].for = conns[c].for /\ conns'[c].down = conns[c].down
      BY <1>2, <2>1 DEF Connection
    <3>2. UNCHANGED <<session, outcome>> \/ Ends("upload failed")
      BY <1>12 DEF SendChunk
    <3>3. QED
      BY <1>0, <1>1, <1>3, <1>12, <3>1, <3>2 DEF ResultInv, SuccessIsReal, SendChunk
  <2>2. QED
    BY <1>3, <1>12, <2>1 DEF SendChunk
<1>13. CASE HearAck
  BY <1>0, <1>3, <1>4, <1>5, <1>13 DEF HearAck, HostInv
<1>14. CASE HearResult
  BY <1>0, <1>3, <1>4, <1>5, <1>14 DEF HearResult, HostInv
<1>15. QED
  BY <1>6, <1>7, <1>8, <1>9, <1>10, <1>11, <1>12, <1>13, <1>14 DEF HostStep

LEMMA HostKeepsConnInv == IInv /\ (Run \/ HostStep) => ConnInv'
<1> SUFFICES ASSUME IInv, Run \/ HostStep PROVE ConnInv'
  OBVIOUS
<1>0. TypeOK /\ HostInv /\ ConnInv
  BY DEF IInv
<1>1. UNCHANGED <<dconn, dpc, upd, inv>>
  BY HostFrame DEF server, attempt
<1>2. /\ conns \in [Conns -> Connection] /\ dconn \in Conns \cup {0}
      /\ hconn \in Conns \cup {0} /\ backlog \in Seq(Conns) /\ 0 \notin Conns
  BY <1>0 DEF TypeOK, HostType, TcpType, DeviceType, Conns
<1>3. ASSUME NEW how, Ends(how) PROVE ConnInv'
  <2>1. backlog' = << >> /\ hconn' = 0 /\ ~NoConn.dev
    BY <1>0, <1>3, EndsType DEF NoConn
  <2>2. \A c \in Conns : conns'[c].dev => c = dconn
    BY <1>0, <1>3, <2>1, EndsType
  <2>3. dconn # 0 => conns'[dconn].for = conns[dconn].for /\ conns'[dconn].up = conns[dconn].up
    BY <1>0, <1>2, <1>3, EndsType DEF Connection
  <2>4. \A c : ~Queued(c)' /\ (c \in Conns => ~HostHolds(c)')
    BY <1>2, <2>1 DEF Queued, HostHolds
  <2>5. QED
    BY <1>0, <1>1, <1>2, <2>1, <2>2, <2>3, <2>4, OtaAssumption DEF ConnInv, Transferred
<1>4. ASSUME UNCHANGED <<session, hconn, backlog, sent>>, conns' \in [Conns -> Connection],
             \A c \in Conns : /\ conns'[c].for = conns[c].for /\ conns'[c].dev = conns[c].dev
                              /\ conns'[c].up = conns[c].up
      PROVE  ConnInv'
  <2>1. \A c : (Queued(c)' <=> Queued(c)) /\ (HostHolds(c)' <=> HostHolds(c))
    BY <1>4 DEF Queued, HostHolds
  <2>2. Transferred' = Transferred \/ dconn = 0
    BY <1>1, <1>2, <1>4 DEF Transferred
  <2>3. QED
    BY <1>0, <1>1, <1>2, <1>4, <2>1, <2>2 DEF ConnInv
<1>5. ASSUME hconn # 0, NEW data \in Prefixes(conns[hconn].down), Takes(data),
             UNCHANGED <<session, hconn, backlog, sent>>
      PROVE  ConnInv'
  <2>1. \A c \in Conns : /\ conns'[c].for = conns[c].for /\ conns'[c].dev = conns[c].dev
                         /\ conns'[c].up = conns[c].up
    <3>1. /\ conns' \in [Conns -> Connection]
          /\ \A c \in Conns : c # hconn => conns'[c] = conns[c]
          /\ conns'[hconn] = [conns[hconn] EXCEPT !.down = conns'[hconn].down]
      BY Zenon, <1>0, <1>5, TakesType
    <3>2. conns[hconn] \in Connection
      BY <1>2, <1>5
    <3>3. /\ conns'[hconn].for = conns[hconn].for /\ conns'[hconn].dev = conns[hconn].dev
          /\ conns'[hconn].up = conns[hconn].up
      BY <3>1, <3>2 DEF Connection
    <3>4. QED
      BY <3>1, <3>3
  <2>2. QED
    BY <1>0, <1>4, <1>5, <2>1, TakesType
<1>6. CASE Run
  <2>1. backlog' = << >> /\ hconn' = 0 /\ conns' = conns
    BY <1>0, <1>6 DEF Run, HostInv, tcp
  <2>2. \A c : ~Queued(c)' /\ (c \in Conns => ~HostHolds(c)')
    BY <1>2, <2>1 DEF Queued, HostHolds
  <2>3. QED
    BY <1>0, <1>1, <1>2, <2>1, <2>2, OtaAssumption DEF ConnInv, Transferred
<1>7. CASE Invite
  BY <1>2, <1>3, <1>4, <1>7 DEF Invite, tcp
<1>8. CASE InviteTimeout
  BY <1>2, <1>3, <1>4, <1>8 DEF InviteTimeout, tcp
<1>9. CASE HearAnswer
  BY <1>2, <1>3, <1>4, <1>9 DEF HearAnswer, tcp
<1>10. CASE HearVerdict
  BY <1>2, <1>3, <1>4, <1>10 DEF HearVerdict, tcp
<1>11. CASE Accept
  <2>1. CASE Ends("no connection")
    BY <1>3, <2>1
  <2>2. CASE /\ backlog # << >> /\ hconn' = Head(backlog) /\ backlog' = Tail(backlog)
             /\ UNCHANGED conns
    <3>1. /\ Len(backlog) \in Nat \ {0} /\ hconn' = backlog[1]
          /\ Len(backlog') = Len(backlog) - 1
          /\ \A i \in 1 .. Len(backlog) - 1 : backlog'[i] = backlog[i + 1]
          /\ backlog' \in Seq(Conns)
      BY <1>2, <2>2, HeadTailProperties, EmptySeq
    <3>2. /\ DOMAIN backlog = 1 .. Len(backlog) /\ DOMAIN backlog' = 1 .. Len(backlog) - 1
      BY <1>2, <3>1
    <3>3. hconn = 0 /\ UNCHANGED <<session, sent>> /\ sent = 0
      BY <1>0, <1>11 DEF HostInv, Accept
    <3>4. \A c : Queued(c)' => Queued(c)
      <4>1. \A i \in DOMAIN backlog' : i + 1 \in DOMAIN backlog /\ backlog'[i] = backlog[i + 1]
        BY <3>1, <3>2
      <4>2. QED
        BY Zenon, <4>1 DEF Queued
    <3>5. Queued(hconn')
      <4>1. 1 \in DOMAIN backlog /\ backlog[1] = hconn'
        BY <3>1, <3>2
      <4>2. QED
        BY Zenon, <4>1 DEF Queued
    <3>6. ~Queued(hconn)'
      <4>1. ASSUME NEW i \in 1 .. Len(backlog) - 1, backlog[i + 1] = backlog[1] PROVE FALSE
        BY <1>0, <3>1, <3>2, <4>1 DEF ConnInv
      <4>2. QED
        BY <3>1, <3>2, <4>1 DEF Queued
    <3>7. \A c \in Conns : HostHolds(c)' => HostHolds(c)
      BY <3>4, <3>5 DEF HostHolds, Queued
    <3>8. \A i, j \in DOMAIN backlog' : backlog'[i] = backlog'[j] => i = j
      <4>1. SUFFICES ASSUME NEW i \in DOMAIN backlog', NEW j \in DOMAIN backlog',
                            backlog'[i] = backlog'[j]
                     PROVE  i = j
        OBVIOUS
      <4>2. i + 1 \in DOMAIN backlog /\ j + 1 \in DOMAIN backlog
        BY <3>1, <3>2
      <4>3. backlog[i + 1] = backlog[j + 1]
        BY <3>1, <3>2, <4>1
      <4>4. i + 1 = j + 1
        BY <1>0, <4>2, <4>3 DEF ConnInv
      <4>5. QED
        BY <3>2, <4>4
    <3>9. Len(backlog') <= Pending
      BY <1>0, <3>1, OtaAssumption DEF ConnInv
    <3>10. Transferred' = Transferred
      BY <1>1, <2>2 DEF Transferred
    <3>11. \A c \in Conns : HostHolds(c)' => conns'[c].for = session'
      BY <1>0, <2>2, <3>3, <3>7 DEF ConnInv
    <3>12. ASSUME dconn # 0
           PROVE  /\ dpc \in {"receive", "finish"} /\ conns[dconn].for = inv
                  /\ Transferred <= Size
                  /\ dconn = hconn' => Transferred <= 2 * sent
                  /\ Queued(dconn)' => Transferred = 0
      <4>1. /\ dpc \in {"receive", "finish"} /\ conns[dconn].for = inv
            /\ Transferred <= Size /\ (Queued(dconn) => Transferred = 0)
        BY <1>0, <3>12 DEF ConnInv
      <4>2. Transferred = 0 => Transferred <= 2 * sent
        BY <3>3
      <4>3. QED
        BY <1>1, <3>4, <3>5, <4>1, <4>2 DEF Queued
    <3>13. QED
      BY <1>0, <1>1, <2>2, <3>3, <3>6, <3>8, <3>9, <3>10, <3>11, <3>12 DEF ConnInv, Size
  <2>3. QED
    BY <1>11, <2>1, <2>2 DEF Accept
<1>12. CASE SendChunk
  <2>1. CASE Ends("upload failed")
    BY <1>3, <2>1
  <2>2. CASE /\ conns' = [conns EXCEPT ![hconn].up = IF conns[hconn].dev THEN @ + 2 ELSE @]
             /\ sent' = sent + 1 /\ UNCHANGED <<hconn, backlog>>
    <3>1. \A c \in Conns : conns'[c].for = conns[c].for /\ conns'[c].dev = conns[c].dev
      BY <1>2, <2>2 DEF Connection
    <3>2. UNCHANGED session /\ sent \in 0 .. Chunks /\ sent < Chunks /\ hconn \in Conns
      BY <1>0, <1>2, <1>12 DEF SendChunk, HostInv, TypeOK, HostType
    <3>3. \A c : (Queued(c)' <=> Queued(c)) /\ (HostHolds(c)' <=> HostHolds(c))
      BY <2>2 DEF Queued, HostHolds
    <3>4. ASSUME dconn # 0
          PROVE  /\ Transferred' <= Size
                 /\ dconn = hconn => Transferred' <= 2 * sent'
                 /\ Queued(dconn) => Transferred' = 0
      <4>1. conns[dconn].up \in Nat /\ upd.progress \in Nat
        BY <1>0, <1>2, <3>4, OtaAssumption DEF Connection, TypeOK, DeviceType, Size
      <4>2. CASE dconn = hconn
        <5>1. conns'[dconn].up \in {conns[dconn].up, conns[dconn].up + 2}
          BY <1>2, <2>2, <3>2, <4>2 DEF Connection
        <5>2. Transferred <= 2 * sent /\ ~Queued(dconn)
          BY <1>0, <3>4, <4>2 DEF ConnInv
        <5>3. Transferred' <= Transferred + 2 /\ Transferred \in Nat /\ Transferred' \in Nat
          BY <1>1, <4>1, <5>1 DEF Transferred
        <5>4. Transferred' <= 2 * sent' /\ 2 * sent' <= 2 * Chunks
          BY <2>2, <3>2, <5>2, <5>3, OtaAssumption
        <5>5. Transferred' <= Size
          BY <2>2, <3>2, <5>3, <5>4, OtaAssumption DEF Size
        <5>6. QED
          BY <5>2, <5>4, <5>5
      <4>3. CASE dconn # hconn
        <5>1. Transferred' = Transferred
          BY <1>1, <1>2, <2>2, <4>3 DEF Transferred
        <5>2. QED
          BY <1>0, <3>4, <4>3, <5>1 DEF ConnInv
      <4>4. QED
        BY <4>2, <4>3
    <3>5. QED
      BY <1>0, <1>1, <2>2, <3>1, <3>2, <3>3, <3>4 DEF ConnInv, Size
  <2>3. QED
    BY <1>12, <2>1, <2>2 DEF SendChunk
<1>13. CASE HearAck
  BY <1>0, <1>3, <1>5, <1>13 DEF HearAck, HostInv
<1>14. CASE HearResult
  BY <1>0, <1>3, <1>5, <1>14 DEF HearResult, HostInv
<1>15. QED
  BY <1>6, <1>7, <1>8, <1>9, <1>10, <1>11, <1>12, <1>13, <1>14 DEF HostStep

(***************************************************************************)
(* Every step keeps the invariant: the device                              *)
(***************************************************************************)
LEMMA DeviceKeepsHostInv == IInv /\ DeviceStep => HostInv'
<1> SUFFICES ASSUME IInv, DeviceStep PROVE HostInv'
  OBVIOUS
<1>1. HostInv /\ UNCHANGED host
  BY DeviceFrame DEF IInv
<1>2. ~Live => answers' = {} /\ backlog' = << >>
  <2>1. CASE Connect
    BY <1>1, <2>1 DEF Connect, HostInv, datagrams, tcp
  <2>2. CASE OnRx
    <3>1. hpc \in {"await", "auth"} => Live
      BY DEF Live
    <3>2. QED
      BY <1>1, <2>2, <3>1
         DEF OnRx, HostInv, tcp, RxInvitation, RxIgnored, RxUnexpected, RxResponse, Answers
  <2>3. CASE ~Connect /\ ~OnRx
    BY <1>1, <2>3
       DEF HostInv, datagrams, tcp, DeviceStep, Begin, End, UpdateStep, BeginUpdate, RepeatAck,
           ReceiveFails, ReceivedAll, FinishUpdate, ReceiveData, Disconnected, LeavesLoop, PowerCut
  <2>4. QED
    BY <2>1, <2>2, <2>3
<1>3. QED
  BY <1>1, <1>2 DEF HostInv, host, Live

LEMMA DeviceKeepsDeviceInv == IInv /\ DeviceStep => DeviceInv'
<1> SUFFICES ASSUME IInv, DeviceStep PROVE DeviceInv'
  OBVIOUS
<1>0. DeviceInv
  BY DEF IInv
<1> USE <1>0 DEF DeviceInv, UpdaterReleased, StartIsAnswered, Errors
<1>1. CASE Begin \/ End \/ OnRx
  BY <1>1 DEF Begin, End, OnRx, attempt, ghosts
<1>2. CASE BeginUpdate
  BY <1>2 DEF BeginUpdate
<1>3. CASE Connect
  BY <1>3 DEF Connect
<1>4. CASE RepeatAck
  BY <1>4 DEF RepeatAck, ghosts
<1>5. CASE ReceiveFails
  <2>1. said' = {"start", "receive"} /\ dpc' = "loop" /\ upd' = Idle
    BY <1>5 DEF ReceiveFails
  <2>2. QED
    BY <2>1 DEF Idle
<1>6. CASE ReceivedAll \/ Disconnected
  BY <1>6 DEF ReceivedAll, Disconnected, LeavesLoop, ghosts
<1>7. CASE FinishUpdate
  <2>1. dpc' = "loop" /\ upd' = Idle /\ dpc = "finish"
    BY <1>7 DEF FinishUpdate
  <2>2. Complete => upd.progress # 0
    BY OtaAssumption DEF Complete, Size
  <2>3. \/ Complete /\ said' = said \cup {"end"}
        \/ said' = said \cup {"enderror"}
    BY <1>7 DEF FinishUpdate, EndSucceeds
  <2>4. \/ said' = {"start", "end"} \/ said' = {"start", "enderror"}
        \/ said' = {"start", "connect", "enderror"}
    BY <2>1, <2>2, <2>3
  <2>5. QED
    BY <2>1, <2>4 DEF Idle
<1>8. CASE ReceiveData
  BY <1>8 DEF ReceiveData, ghosts
<1>9. CASE PowerCut
  BY <1>9 DEF PowerCut, Idle
<1>10. QED
  BY <1>1, <1>2, <1>3, <1>4, <1>5, <1>6, <1>7, <1>8, <1>9 DEF DeviceStep, UpdateStep

LEMMA DeviceKeepsAuthInv == IInv /\ DeviceStep => AuthInv'
<1> SUFFICES ASSUME IInv, DeviceStep PROVE AuthInv'
  OBVIOUS
<1>0. AuthInv /\ session' = session /\ password' = password /\ issued \in Seq(Sessions)
  BY DeviceFrame
     DEF IInv, TypeOK, GhostType, host, server, DeviceStep, Begin, End, OnRx, UpdateStep,
         BeginUpdate, Connect, RepeatAck, ReceiveFails, ReceivedAll, FinishUpdate, ReceiveData,
         Disconnected, LeavesLoop, PowerCut
<1>1. CASE OnRx
  <2>1. PICK m \in net :
          Parses(m) /\ (RxInvitation(m) \/ RxIgnored(m) \/ RxUnexpected(m) \/ RxResponse(m))
    BY <1>1 DEF OnRx
  <2>2. net' \subseteq net
    BY <2>1 DEF Parses
  <2>3. CASE RxInvitation(m) /\ password
    <3>1. issued' = Append(issued, m.session) /\ st' = "WAITAUTH" /\ inv' = m.session
          /\ Answers(m, "AUTH", Nonce')
      BY <2>3 DEF RxInvitation
    <3>2. m.session \in Sessions
      BY DEF IInv, TypeOK, NetType, Message
    <3>3. \A n, s : NonceOf(n, s) => NonceOf(n, s)'
      <4>1. /\ Len(issued') = Len(issued) + 1 /\ Len(issued) \in Nat
            /\ \A n \in 1 .. Len(issued) : issued'[n] = issued[n]
        BY <1>0, <3>1, <3>2, AppendProperties
      <4>2. QED
        BY <4>1 DEF NonceOf
    <3>4. NonceOf(Nonce, m.session)'
      <4>1. /\ Len(issued') = Len(issued) + 1 /\ Len(issued) \in Nat
            /\ issued'[Len(issued) + 1] = m.session
        BY <1>0, <3>1, <3>2, AppendProperties
      <4>2. QED
        BY <4>1 DEF NonceOf, Nonce
    <3>5. QED
      BY <1>0, <2>2, <3>1, <3>3, <3>4 DEF AuthInv, AuthorisedImage, Answers
  <2>4. CASE RxInvitation(m) /\ ~password
    BY <1>0, <2>2, <2>4 DEF AuthInv, AuthorisedImage, Answers, RxInvitation, NonceOf
  <2>5. CASE RxIgnored(m) \/ RxUnexpected(m)
    BY <1>0, <2>2, <2>5 DEF AuthInv, AuthorisedImage, RxIgnored, RxUnexpected, NonceOf
  <2>6. CASE RxResponse(m)
    <3>1. Matches(m) => m.session = inv
      BY <1>0, <2>6 DEF RxResponse, Matches, AuthInv, NonceOf
    <3>2. QED
      BY <1>0, <2>2, <2>6, <3>1 DEF AuthInv, AuthorisedImage, Answers, RxResponse, NonceOf
  <2>7. QED
    BY <2>1, <2>3, <2>4, <2>5, <2>6
<1>2. CASE ~OnRx
  <2>1. UNCHANGED <<datagrams, issued, grantedTo, inv>> /\ st' \in {st, "IDLE"}
    BY <1>2
       DEF ghosts, server, DeviceStep, Begin, End, UpdateStep, BeginUpdate, Connect, RepeatAck,
           ReceiveFails, ReceivedAll, FinishUpdate, ReceiveData, Disconnected, LeavesLoop, PowerCut
  <2>2. QED
    BY <1>0, <2>1 DEF AuthInv, AuthorisedImage, NonceOf, Nonce, datagrams
<1>3. QED
  BY <1>1, <1>2

LEMMA DeviceKeepsResultInv == IInv /\ DeviceStep => ResultInv'
<1> SUFFICES ASSUME IInv, DeviceStep PROVE ResultInv'
  OBVIOUS
<1>0. TypeOK /\ ConnInv /\ ResultInv
  BY DEF IInv
<1>1. UNCHANGED <<session, outcome>>
  BY DeviceFrame DEF host
<1>2. conns \in [Conns -> Connection] /\ dconn \in Conns \cup {0}
  BY <1>0 DEF TypeOK, TcpType, DeviceType
<1>3. installed \subseteq installed'
  BY DEF ghosts, DeviceStep, Begin, End, OnRx, UpdateStep, BeginUpdate, Connect, RepeatAck,
         ReceiveFails, ReceivedAll, FinishUpdate, ReceiveData, Disconnected, LeavesLoop, PowerCut
<1>4. ASSUME \A c \in Conns : Says(conns'[c].down) => conns'[c].for \in installed'
      PROVE  ResultInv'
  BY <1>0, <1>1, <1>3, <1>4 DEF ResultInv, SuccessIsReal
<1>5. ASSUME \A c \in Conns : c # dconn => conns'[c] = conns[c],
             dconn \in Conns => (Says(conns'[dconn].down) => conns'[dconn].for \in installed')
      PROVE  ResultInv'
  BY <1>0, <1>3, <1>4, <1>5 DEF ResultInv
<1>6. ASSUME NEW text \in Seq(Text), CloseConn(text), Says(text) => inv \in installed'
      PROVE  ResultInv'
  <2>1. dconn \in Conns => conns[dconn].for = inv /\ dconn # 0
    BY <1>0 DEF ConnInv, Conns
  <2>2. ASSUME dconn \in Conns, Says(conns'[dconn].down)
        PROVE  conns'[dconn].for \in installed'
    BY <1>0, <1>3, <1>6, <2>1, <2>2, CloseConnType DEF ResultInv
  <2>3. QED
    BY <1>0, <1>5, <1>6, <2>2, CloseConnType
<1>7. CASE UNCHANGED conns
  BY <1>0, <1>3, <1>4, <1>7 DEF ResultInv
<1>8. CASE Connect
  <2>1. CASE said' = said
    <3>1. /\ dconn' \in Conns /\ \A c \in Conns : c # dconn' => conns'[c] = conns[c]
          /\ conns'[dconn'].down = << >>
      BY <1>2, <1>8, <2>1, ConnectType
    <3>2. ~Says(<< >>)
      BY Texts
    <3>3. QED
      BY <1>0, <1>3, <1>4, <3>1, <3>2 DEF ResultInv
  <2>2. QED
    BY <1>7, <1>8, <2>1, ConnectOrNot DEF tcp
<1>9. CASE ReceiveData
  <2>1. PICK n \in 1 .. ReadUnits :
          /\ n <= conns[dconn].up
          /\ \/ conns' = [conns EXCEPT ![dconn] = [conns[dconn] EXCEPT !.up = @ - n]]
             \/ conns' = [conns EXCEPT ![dconn] = Reply([conns[dconn] EXCEPT !.up = @ - n], Ack)]
    BY <1>9 DEF ReceiveData
  <2>2. n \in Nat /\ dpc = "receive"
    BY <1>9, OtaAssumption DEF ReceiveData
  <2>3. /\ dconn \in Conns /\ conns'[dconn].for = conns[dconn].for
        /\ \A c \in Conns : c # dconn => conns'[c] = conns[c]
        /\ Says(conns'[dconn].down) => Says(conns[dconn].down)
    BY <2>1, <2>2, ReceiveType
  <2>4. QED
    BY <1>0, <1>3, <1>5, <2>3 DEF ResultInv
<1>10. CASE RepeatAck
  <2>1. dconn \in Conns
    BY <1>0, <1>2, <1>10 DEF ConnInv, RepeatAck
  <2>2. /\ Reply(conns[dconn], Ack).for = conns[dconn].for
        /\ Says(Reply(conns[dconn], Ack).down) => Says(conns[dconn].down)
    BY <1>2, <2>1, ReplyType, Texts
  <2>3. CASE conns' = [conns EXCEPT ![dconn] = Reply(@, Ack)]
    BY <1>0, <1>2, <1>3, <1>5, <2>1, <2>2, <2>3 DEF ResultInv
  <2>4. QED
    BY <1>7, <1>10, <2>3 DEF RepeatAck
<1>11. CASE ReceiveFails
  BY <1>6, <1>11, Texts DEF ReceiveFails
<1>12. CASE FinishUpdate
  <2>1. CASE CloseConn(<<"O", "K">>) /\ installed' = installed \cup {inv}
    BY <1>6, <2>1, Texts
  <2>2. CASE CloseConn(<<"error">>)
    BY <1>6, <2>2, Texts
  <2>3. QED
    BY <1>12, <2>1, <2>2 DEF FinishUpdate, EndSucceeds
<1>13. CASE PowerCut
  BY <1>6, <1>13, Texts DEF PowerCut
<1>14. CASE Begin \/ End \/ OnRx \/ BeginUpdate \/ ReceivedAll \/ Disconnected
  BY <1>7, <1>14 DEF tcp, Begin, End, OnRx, BeginUpdate, ReceivedAll, Disconnected, LeavesLoop
<1>15. QED
  BY <1>8, <1>9, <1>10, <1>11, <1>12, <1>13, <1>14 DEF DeviceStep, UpdateStep

LEMMA DeviceKeepsConnInv == IInv /\ DeviceStep => ConnInv'
<1> SUFFICES ASSUME IInv, DeviceStep PROVE ConnInv'
  OBVIOUS
<1>0. TypeOK /\ ConnInv /\ DeviceInv
  BY DEF IInv
<1>1. UNCHANGED <<session, hconn, sent>>
  BY DeviceFrame DEF host
<1>2. /\ conns \in [Conns -> Connection] /\ dconn \in Conns \cup {0} /\ 0 \notin Conns
      /\ backlog \in Seq(Conns)
  BY <1>0 DEF TypeOK, TcpType, DeviceType, Conns
<1>3. ASSUME UNCHANGED backlog
      PROVE  \A c : (Queued(c)' <=> Queued(c)) /\ (HostHolds(c)' <=> HostHolds(c))
  BY <1>1, <1>3 DEF Queued, HostHolds
<1>4. ASSUME NEW text \in Seq(Text), CloseConn(text), UNCHANGED backlog,
             dconn' = 0, dpc' = "loop"
      PROVE  ConnInv'
  <2>1. /\ \A c \in Conns : c # dconn => conns'[c] = conns[c]
        /\ dconn \in Conns =>
             ~conns'[dconn].dev /\ (HostHolds(dconn) => conns'[dconn].for = conns[dconn].for)
    BY <1>0, <1>4, CloseConnType
  <2>2. \A c \in Conns : ~conns'[c].dev
    BY <1>0, <2>1 DEF ConnInv
  <2>3. \A c \in Conns : HostHolds(c) => conns'[c].for = session
    BY <1>0, <2>1 DEF ConnInv
  <2>4. QED
    BY <1>0, <1>1, <1>3, <1>4, <2>2, <2>3 DEF ConnInv
<1>5. ASSUME UNCHANGED <<backlog, conns, dconn, upd, inv>>,
             dpc' = dpc \/ (dpc = "receive" /\ dpc' = "finish") \/ (dconn = 0 /\ dpc' # "receive")
      PROVE  ConnInv'
  <2>1. Transferred' = Transferred
    BY <1>5 DEF Transferred
  <2>2. QED
    BY <1>0, <1>1, <1>3, <1>5, <2>1 DEF ConnInv
<1>6. ASSUME dconn \in Conns, UNCHANGED <<backlog, dconn, dpc, inv>>,
             \A c \in Conns : c # dconn => conns'[c] = conns[c],
             conns'[dconn].for = conns[dconn].for, conns'[dconn].dev = conns[dconn].dev,
             Transferred' \in Nat, Transferred' <= Transferred, Transferred \in Nat
      PROVE  ConnInv'
  <2>1. \A c \in Conns : conns'[c].for = conns[c].for /\ conns'[c].dev = conns[c].dev
    BY <1>6
  <2>2. Size \in Nat /\ 2 * sent \in Nat
    BY <1>0, OtaAssumption DEF TypeOK, HostType, Size
  <2>3. /\ Transferred' <= Size /\ (dconn = hconn => Transferred' <= 2 * sent)
        /\ Queued(dconn) => Transferred' = 0
    <3>1. /\ Transferred <= Size /\ (dconn = hconn => Transferred <= 2 * sent)
          /\ Queued(dconn) => Transferred = 0
      BY <1>0, <1>2, <1>6 DEF ConnInv
    <3>2. QED
      BY <1>6, <2>2, <3>1
  <2>4. QED
    BY <1>0, <1>1, <1>3, <1>6, <2>1, <2>3 DEF ConnInv, Size
<1>7. CASE Begin \/ End \/ ReceivedAll \/ Disconnected
  BY <1>5, <1>7 DEF tcp, attempt, server, Begin, End, ReceivedAll, Disconnected, LeavesLoop
<1>8. CASE OnRx
  <2>1. dconn = 0 /\ UNCHANGED <<tcp, attempt>> /\ dpc = "loop"
    <3>1. dpc = "loop" /\ UNCHANGED <<tcp, attempt>>
      BY <1>8 DEF OnRx, Parses
    <3>2. QED
      BY <1>0, <3>1 DEF ConnInv
  <2>2. Transferred' = Transferred
    BY <2>1 DEF Transferred, tcp, attempt
  <2>3. QED
    BY <1>0, <1>1, <1>3, <2>1, <2>2 DEF ConnInv, tcp, attempt
<1>9. CASE BeginUpdate
  <2>1. dconn' = 0 /\ dpc' # "receive" /\ UNCHANGED <<backlog, conns>>
    BY <1>0, <1>9 DEF BeginUpdate, ConnInv, tcp
  <2>2. dconn = 0
    BY <1>9, <2>1 DEF BeginUpdate
  <2>3. QED
    BY <1>0, <1>1, <1>3, <2>1, <2>2 DEF ConnInv
<1>10. CASE Connect
  <2>1. CASE said' = said
    <3>1. /\ dconn' \in Conns /\ ~HostHolds(dconn') /\ Len(backlog) < Pending
          /\ backlog' = Append(backlog, dconn') /\ inv = session /\ dconn = 0
          /\ conns' = [conns EXCEPT ![dconn'] =
                         [for |-> inv, up |-> 0, down |-> << >>, dev |-> TRUE, host |-> TRUE]]
      BY <1>10, <2>1, ConnectType
    <3>2. UNCHANGED <<inv, upd>> /\ upd.progress = 0 /\ dpc' \in {"receive", "finish"}
      BY <1>0, <1>10 DEF Connect, DeviceInv
    <3>3. /\ \A c \in Conns : c # dconn' => conns'[c] = conns[c]
          /\ conns'[dconn'].for = inv /\ conns'[dconn'].up = 0
      BY <1>2, <3>1
    <3>4. Transferred' = 0
      BY <3>2, <3>3 DEF Transferred
    <3>5. /\ Len(backlog') = Len(backlog) + 1 /\ Len(backlog) \in Nat
          /\ backlog'[Len(backlog) + 1] = dconn'
          /\ \A i \in 1 .. Len(backlog) : backlog'[i] = backlog[i]
          /\ DOMAIN backlog = 1 .. Len(backlog) /\ DOMAIN backlog' = 1 .. Len(backlog) + 1
      BY <1>2, <3>1, AppendProperties
    <3>6. dconn' # hconn /\ ~Queued(dconn')
      BY <3>1 DEF HostHolds, Queued
    <3>7. \A c : Queued(c)' => Queued(c) \/ c = dconn'
      BY <3>5 DEF Queued
    <3>8. ~Queued(hconn)'
      <4>1. \A i \in DOMAIN backlog : backlog[i] # hconn
        BY <1>0 DEF ConnInv, Queued
      <4>2. QED
        BY <1>1, <3>5, <3>6, <4>1 DEF Queued
    <3>9. \A i, j \in DOMAIN backlog' : backlog'[i] = backlog'[j] => i = j
      <4>1. \A i \in 1 .. Len(backlog) : backlog[i] # dconn'
        BY <3>5, <3>6 DEF Queued
      <4>2. \A i, j \in 1 .. Len(backlog) : backlog[i] = backlog[j] => i = j
        BY <1>0, <3>5 DEF ConnInv
      <4>3. QED
        BY <3>5, <4>1, <4>2
    <3>10. \A c \in Conns : HostHolds(c)' => conns'[c].for = session
      <4>1. \A c \in Conns : HostHolds(c)' => HostHolds(c) \/ c = dconn'
        BY <1>1, <3>7 DEF HostHolds, Queued
      <4>2. QED
        BY <1>0, <3>1, <3>3, <4>1 DEF ConnInv
    <3>11. \A c \in Conns : conns'[c].dev => c = dconn'
      BY <1>0, <1>2, <3>1, <3>3 DEF ConnInv
    <3>12. Len(backlog') <= Pending
      BY <3>1, <3>5, OtaAssumption
    <3>13. 0 <= Size' /\ 0 <= 2 * sent' /\ Size' = Size
      BY <1>0, <1>1, OtaAssumption DEF TypeOK, HostType, Size
    <3>14. dconn' # 0
      BY <1>2, <3>1
    <3>15. QED
      BY <1>1, <3>2, <3>3, <3>4, <3>8, <3>9, <3>10, <3>11, <3>12, <3>13, <3>14 DEF ConnInv
  <2>2. CASE UNCHANGED <<tcp, dconn>> /\ dpc' = "finish"
    <3>1. dconn = 0
      BY <1>0, <1>10 DEF Connect, ConnInv
    <3>2. QED
      BY <1>5, <1>10, <2>2, <3>1 DEF tcp, Connect
  <2>3. QED
    BY <1>10, <2>1, <2>2, ConnectOrNot
<1>11. CASE ReceiveData
  <2>1. PICK n \in 1 .. ReadUnits :
          /\ n <= conns[dconn].up
          /\ \/ conns' = [conns EXCEPT ![dconn] = [conns[dconn] EXCEPT !.up = @ - n]]
             \/ conns' = [conns EXCEPT ![dconn] = Reply([conns[dconn] EXCEPT !.up = @ - n], Ack)]
          /\ upd' = [upd EXCEPT !.progress = @ + n] \/ upd' = Idle
    BY <1>11 DEF ReceiveData
  <2>2. n \in Nat /\ dpc = "receive" /\ UNCHANGED <<backlog, dconn, dpc, inv>>
    BY <1>11, OtaAssumption DEF ReceiveData, server
  <2>3. /\ dconn \in Conns /\ conns'[dconn].for = conns[dconn].for
        /\ conns'[dconn].dev = conns[dconn].dev /\ conns'[dconn].up = conns[dconn].up - n
        /\ \A c \in Conns : c # dconn => conns'[c] = conns[c]
    BY <2>1, <2>2, ReceiveType
  <2>4. conns[dconn].up \in Nat /\ upd.progress \in Nat /\ "progress" \in DOMAIN upd
    BY <1>0, <1>2, <2>3, OtaAssumption DEF Connection, TypeOK, DeviceType, Size
  <2>5. upd'.progress \in {upd.progress + n, 0}
    BY <2>1, <2>4 DEF Idle
  <2>6. Transferred \in Nat /\ Transferred' \in Nat /\ Transferred' <= Transferred
    BY <2>1, <2>2, <2>3, <2>4, <2>5 DEF Transferred
  <2>7. QED
    BY <1>6, <2>2, <2>3, <2>6
<1>12. CASE RepeatAck
  <2>1. dconn \in Conns /\ dpc = "receive"
    BY <1>0, <1>2, <1>12 DEF ConnInv, RepeatAck
  <2>2. CASE conns' = [conns EXCEPT ![dconn] = Reply(@, Ack)] /\ UNCHANGED dpc
    <3>1. /\ \A c \in Conns : c # dconn => conns'[c] = conns[c]
          /\ conns'[dconn].for = conns[dconn].for /\ conns'[dconn].dev = conns[dconn].dev
          /\ conns'[dconn].up = conns[dconn].up
      BY <1>2, <2>1, <2>2, ReplyType, Texts
    <3>2. conns[dconn].up \in Nat /\ upd.progress \in Nat
      BY <1>0, <1>2, <2>1, OtaAssumption DEF Connection, TypeOK, DeviceType, Size
    <3>3. Transferred' = Transferred /\ Transferred \in Nat
      BY <1>12, <3>1, <3>2 DEF Transferred, RepeatAck
    <3>4. QED
      BY <1>6, <1>12, <2>1, <2>2, <3>1, <3>3 DEF RepeatAck
  <2>3. CASE UNCHANGED conns /\ dpc' = "finish"
    BY <1>5, <1>12, <2>1, <2>3 DEF RepeatAck
  <2>4. QED
    BY <1>12, <2>2, <2>3 DEF RepeatAck
<1>13. CASE ReceiveFails
  BY <1>4, <1>13, Texts DEF ReceiveFails
<1>14. CASE FinishUpdate
  BY <1>4, <1>14, Texts DEF FinishUpdate
<1>15. CASE PowerCut
  BY <1>4, <1>15, Texts DEF PowerCut
<1>16. QED
  BY <1>7, <1>8, <1>9, <1>10, <1>11, <1>12, <1>13, <1>14, <1>15 DEF DeviceStep, UpdateStep

(***************************************************************************)
(* The theorems                                                            *)
(***************************************************************************)
LEMMA StepIInv == IInv /\ [Next]_vars => IInv'
<1> SUFFICES ASSUME IInv, [Next]_vars PROVE IInv'
  OBVIOUS
<1>1. CASE Run \/ HostStep
  BY <1>1, HostKeepsTypes, HostKeepsHostInv, HostKeepsDeviceInv, HostKeepsConnInv,
     HostKeepsAuthInv, HostKeepsResultInv DEF IInv
<1>2. CASE DeviceStep
  BY <1>2, DeviceKeepsTypes, DeviceKeepsHostInv, DeviceKeepsDeviceInv, DeviceKeepsConnInv,
     DeviceKeepsAuthInv, DeviceKeepsResultInv DEF IInv
<1>3. CASE UNCHANGED vars
  <2>1. UNCHANGED <<host, datagrams, tcp, server, attempt, ghosts>>
    BY <1>3 DEF vars
  <2> USE <2>1 DEF host, datagrams, tcp, server, attempt, ghosts
  <2>2. TypeOK'
    BY DEF IInv, TypeOK, HostType, NetType, TcpType, DeviceType, GhostType
  <2>3. HostInv' /\ DeviceInv'
    BY DEF IInv, HostInv, Live, DeviceInv, UpdaterReleased, StartIsAnswered
  <2>4. ConnInv'
    <3>1. \A c : (Queued(c)' <=> Queued(c)) /\ (HostHolds(c)' <=> HostHolds(c))
      BY DEF Queued, HostHolds
    <3>2. Transferred' = Transferred
      BY DEF Transferred
    <3>3. QED
      BY <3>1, <3>2 DEF IInv, ConnInv
  <2>5. AuthInv' /\ ResultInv'
    BY DEF IInv, AuthInv, NonceOf, Nonce, AuthorisedImage, ResultInv, SuccessIsReal
  <2>6. QED
    BY <2>2, <2>3, <2>4, <2>5 DEF IInv
<1>4. QED
  BY <1>1, <1>2, <1>3 DEF Next, DeviceStep

(* The invariant the results below are read off from.                      *)
THEOREM OtaInvariant == Spec => []IInv
  BY InitIInv, StepIInv, PTL DEF Spec

(* Every variable of the update keeps its type, the updater's progress never *)
(* passes the size that was announced.                                       *)
THEOREM OtaTypes == Spec => []TypeOK
<1>1. IInv => TypeOK
  BY DEF IInv
<1>2. QED
  BY <1>1, OtaInvariant, PTL

(* espota.py reports success only for an image Update.end() accepted whole, *)
(* in this very run, however datagrams, connections and replies were        *)
(* repeated, delayed or lost.                                               *)
THEOREM SuccessMeansInstalled == Spec => []SuccessIsReal
<1>1. IInv => SuccessIsReal
  BY DEF IInv, ResultInv
<1>2. QED
  BY <1>1, OtaInvariant, PTL

(* With a password, _runUpdate() fetches the image of the session whose     *)
(* response was accepted, never that of a session invited in between.       *)
THEOREM ImageIsAuthorised == Spec => []AuthorisedImage
<1>1. IInv => AuthorisedImage
  BY DEF IInv, AuthInv
<1>2. QED
  BY <1>1, OtaInvariant, PTL

(* On every path out of _runUpdate() the start callback is followed by the  *)
(* end callback or by an error, never by both and never by none.            *)
THEOREM EveryStartIsAnswered == Spec => []StartIsAnswered
<1>1. IInv => StartIsAnswered
  BY DEF IInv, DeviceInv
<1>2. QED
  BY <1>1, OtaInvariant, PTL

(* On every path out of _runUpdate(), and after a restart, Update is free,  *)
(* so that the next update can begin.                                       *)
THEOREM UpdaterIsReleased == Spec => []UpdaterReleased
<1>1. IInv => UpdaterReleased
  BY DEF IInv, DeviceInv
<1>2. QED
  BY <1>1, OtaInvariant, PTL
================================================================================
