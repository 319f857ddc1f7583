---------------------------------- MODULE Ota ----------------------------------
(***************************************************************************)
(* Updates over the network: ArduinoOTA.cpp on the device, tools/espota.py *)
(* on the host.  The host invites the device by UDP, answers a nonce when  *)
(* a password is set, and waits on a TCP port for the device to fetch the  *)
(* image; the device acknowledges what it wrote and ends with "OK" or an   *)
(* error.  Datagrams are delayed, reordered, duplicated, and lost when     *)
(* they are never received; the host repeats its invitation, each time     *)
(* from a new socket; either side may give up, or the device lose power,   *)
(* at any moment, and a new run of espota.py may follow an abandoned one   *)
(* whose datagrams still travel.                                           *)
(*                                                                         *)
(* A run of espota.py is a session; the session stands for its port, size  *)
(* and digest.  Half a chunk is the unit of data.  Update is reduced to    *)
(* whether it runs and how far (the module Updater has its inside).        *)
(***************************************************************************)
EXTENDS Integers, Sequences

CONSTANTS
  MaxSessions, \* bound: how often espota.py is run
  MaxDups,     \* bound: datagrams duplicated on the way to the device
  MaxTries,    \* invitations a session sends (10 in espota.py)
  ResultReads, \* reads it waits for the result (5)
  AckTries,    \* times an acknowledgement is repeated (3)
  Chunks,      \* chunks in the image
  ReadUnits,   \* most units the device reads at once
  Pending,     \* connections the host's kernel holds before accept()
  SendBuffer   \* replies a connection holds on their way to the host

ASSUME OtaAssumption ==
  /\ MaxSessions \in Nat /\ MaxDups \in Nat /\ MaxTries \in Nat \ {0}
  /\ ResultReads \in Nat \ {0} /\ AckTries \in Nat
  /\ Chunks \in Nat \ {0} /\ ReadUnits \in Nat \ {0}
  /\ Pending \in Nat \ {0} /\ SendBuffer \in Nat

VARIABLES
  session,   \* the latest run of espota.py, 0 before the first
  knows,     \* it was given the right password
  hpc,       \* where its serve() is
  tries,     \* inv_tries
  sent,      \* chunks sent
  lastOk,    \* last_response_contained_ok
  reads,     \* count
  hconn,     \* connection, 0 before accept()
  outcome,   \* how serve() ended
  net,       \* datagrams on their way to the device
  answers,   \* datagrams on their way to the host's current socket
  dups,      \* duplications so far
  backlog,   \* connections the host's kernel holds
  conns,     \* the TCP connections
  password,  \* the device has a password; never changes
  on,        \* _initialized
  st,        \* _state
  inv,       \* the session of _ota_port, _size and _md5
  dpc,       \* where handle() is: "loop" outside _runUpdate()
  dconn,     \* client, 0 when it is not connected
  written,   \* written > 0
  tried,     \* tried
  upd,       \* Update: isRunning() and its progress
  issued,    \* ghost: the session each nonce was made for
  grantedTo, \* ghost: the session whose response was accepted last
  said,      \* ghost: callbacks called in the latest update attempt
  installed  \* ghost: sessions whose whole image Update.end() accepted

host == <<session, knows, hpc, tries, sent, lastOk, reads, hconn, outcome>>
datagrams == <<net, answers, dups>>
tcp == <<backlog, conns>>
server == <<password, on, st, inv>>
attempt == <<dpc, dconn, written, tried, upd>>
ghosts == <<issued, grantedTo, said, installed>>
vars == <<host, datagrams, tcp, server, attempt, ghosts>>

Sessions == 0 .. MaxSessions
Size == 2 * Chunks
Conns == 1 .. Pending + 1
Idle == [running |-> FALSE, progress |-> 0]
Errors == {"begin", "connect", "receive", "enderror"}

\* A closed connection that nobody holds.
NoConn == [for |-> 0, up |-> 0, down |-> << >>, dev |-> FALSE, host |-> FALSE]
HostHolds(c) == c = hconn \/ \E i \in DOMAIN backlog : backlog[i] = c
Live == hpc \notin {"none", "done"}

(***************************************************************************)
(* The host: serve() of espota.py                                          *)
(***************************************************************************)
Run ==
  /\ ~Live /\ session < MaxSessions
  /\ session' = session + 1 /\ knows' \in BOOLEAN
  /\ hpc' = "invite" /\ tries' = 0 /\ outcome' = "none"
  /\ sent' = 0 /\ lastOk' = FALSE /\ reads' = 0 /\ hconn' = 0
  /\ UNCHANGED <<datagrams, tcp, server, attempt, ghosts>>

\* serve() returns and the process ends: its sockets are closed.
Ends(how) ==
  /\ hpc' = "done" /\ outcome' = how
  /\ answers' = {} /\ backlog' = << >> /\ hconn' = 0
  /\ conns' = [c \in Conns |-> IF c = dconn THEN [conns[c] EXCEPT !.host = FALSE]
                                            ELSE NoConn]

\* The invitations are not counted.
InviteMutant ==
  /\ hpc = "invite" /\ tries' = 1 /\ hpc' = "await"
  /\ net' = net \cup {[kind |-> "invite", session |-> session, try |-> 1,
                       nonce |-> 0, good |-> FALSE]}
  /\ UNCHANGED <<session, knows, sent, lastOk, reads, hconn, outcome,
                 answers, dups, tcp, server, attempt, ghosts>>

\* A datagram that cannot be sent at all ends the run.
Invite ==
  /\ hpc = "invite" /\ tries < MaxTries /\ tries' = tries + 1
  /\ \/ /\ hpc' = "await"
        /\ net' = net \cup {[kind |-> "invite", session |-> session, try |-> tries + 1,
                             nonce |-> 0, good |-> FALSE]}
        /\ UNCHANGED <<outcome, hconn, answers, tcp>>
     \/ Ends("not found") /\ UNCHANGED net
  /\ UNCHANGED <<session, knows, sent, lastOk, reads, dups, server, attempt, ghosts>>

\* No answer in time: the socket is closed, what comes later is not read.
InviteTimeout ==
  /\ hpc = "await"
  /\ IF tries < MaxTries
     THEN hpc' = "invite" /\ answers' = {} /\ UNCHANGED <<outcome, hconn, tcp>>
     ELSE Ends("no response")
  /\ UNCHANGED <<session, knows, tries, sent, lastOk, reads, net, dups,
                 server, attempt, ghosts>>

Authenticate(n) ==
  /\ net' = net \cup {[kind |-> "auth", session |-> session, try |-> tries,
                       nonce |-> n, good |-> knows]}
  /\ hpc' = "auth"

\* The count of invitations is looked at after the answer has come.
HearAnswer ==
  /\ hpc = "await"
  /\ \E a \in answers :
       CASE tries = MaxTries -> Ends("no response") /\ UNCHANGED net
         [] tries < MaxTries /\ a.kind = "AUTH" ->
              /\ Authenticate(a.nonce) /\ answers' = answers \ {a}
              /\ UNCHANGED <<outcome, hconn, tcp>>
         [] tries < MaxTries /\ a.kind = "OK" ->
              /\ hpc' = "accept" /\ answers' = {}
              /\ UNCHANGED <<outcome, hconn, tcp, net>>
         [] OTHER -> Ends("bad answer") /\ UNCHANGED net
  /\ UNCHANGED <<session, knows, tries, sent, lastOk, reads, dups, server,
                 attempt, ghosts>>

HearVerdict ==
  /\ hpc = "auth"
  /\ \/ \E a \in answers :
          IF a.kind = "OK"
          THEN hpc' = "accept" /\ answers' = {} /\ UNCHANGED <<outcome, hconn, tcp>>
          ELSE Ends("refused")
     \/ Ends("no verdict")
  /\ UNCHANGED <<session, knows, tries, sent, lastOk, reads, net, dups,
                 server, attempt, ghosts>>

Accept ==
  /\ hpc = "accept"
  /\ \/ /\ backlog # << >>
        /\ hconn' = Head(backlog) /\ backlog' = Tail(backlog)
        /\ hpc' = "send" /\ UNCHANGED <<outcome, answers, conns>>
     \/ Ends("no connection")
  /\ UNCHANGED <<session, knows, tries, sent, lastOk, reads, net, dups,
                 server, attempt, ghosts>>

\* sendall(): it may also succeed on a connection the device has closed.
SendChunk ==
  /\ hpc = "send"
  /\ \/ /\ conns' = [conns EXCEPT ![hconn].up = IF conns[hconn].dev THEN @ + 2 ELSE @]
        /\ sent' = sent + 1 /\ hpc' = "ack"
        /\ UNCHANGED <<outcome, hconn, answers, backlog>>
     \/ Ends("upload failed") /\ UNCHANGED sent
  /\ UNCHANGED <<session, knows, tries, lastOk, reads, net, dups, server,
                 attempt, ghosts>>

\* recv(): some of what has arrived, or nothing once the device has closed.
Receives(data) ==
  /\ \/ /\ conns[hconn].down # << >>
        /\ \E n \in 1 .. Len(conns[hconn].down) :
             data = SubSeq(conns[hconn].down, 1, n)
     \/ conns[hconn].down = << >> /\ ~conns[hconn].dev /\ data = << >>

Takes(data) ==
  conns' = [conns EXCEPT ![hconn].down = SubSeq(@, Len(data) + 1, Len(@))]

HasOk(data) ==
  \E i \in 1 .. Len(data) - 1 : data[i] = "O" /\ data[i + 1] = "K"

Prefixes(s) == {SubSeq(s, 1, n) : n \in 0 .. Len(s)}

\* One response per chunk, whatever it holds; only the last one is looked at.
HearAck ==
  /\ hpc = "ack"
  /\ \/ \E data \in Prefixes(conns[hconn].down) :
          /\ Receives(data) /\ lastOk' = HasOk(data)
          /\ IF sent = Chunks /\ HasOk(data)
             THEN Ends("success")
             ELSE /\ Takes(data) /\ hpc' = IF sent < Chunks THEN "send" ELSE "result"
                  /\ UNCHANGED <<outcome, hconn, answers, backlog>>
     \/ Ends("upload failed") /\ UNCHANGED lastOk
  /\ UNCHANGED <<session, knows, tries, sent, reads, net, dups, server,
                 attempt, ghosts>>

HearResult ==
  /\ hpc = "result"
  /\ \/ \E data \in Prefixes(conns[hconn].down) :
          /\ Receives(data) /\ reads' = reads + 1
          /\ IF HasOk(data) THEN Ends("success")
             ELSE IF reads' = ResultReads THEN Ends("error response")
             ELSE Takes(data) /\ UNCHANGED <<hpc, outcome, hconn, answers, backlog>>
     \/ Ends("no result") /\ UNCHANGED reads
  /\ UNCHANGED <<session, knows, tries, sent, lastOk, net, dups, server,
                 attempt, ghosts>>

HostStep ==
  Invite \/ InviteTimeout \/ HearAnswer \/ HearVerdict \/ Accept \/ SendChunk
    \/ HearAck \/ HearResult

(***************************************************************************)
(* The device: handle() and _onRx()                                        *)
(***************************************************************************)
Begin ==
  /\ ~on /\ on' = TRUE /\ st' = "IDLE"
  /\ UNCHANGED <<host, datagrams, tcp, password, inv, attempt, ghosts>>

End ==
  /\ on /\ dpc = "loop" /\ on' = FALSE /\ st' = "IDLE"
  /\ UNCHANGED <<host, datagrams, tcp, password, inv, attempt, ghosts>>

\* parsePacket(), of a datagram that may come again.
Parses(m) ==
  /\ on /\ dpc = "loop" /\ st # "RUNUPDATE"
  /\ m \in net
  /\ \/ net' = net \ {m} /\ UNCHANGED dups
     \/ dups < MaxDups /\ dups' = dups + 1 /\ UNCHANGED net

\* To remoteIP() and remotePort(): lost when that socket has been closed.
Answers(m, kind, n) ==
  answers' = IF hpc \in {"await", "auth"} /\ m.session = session /\ m.try = tries
             THEN answers \cup {[kind |-> kind, nonce |-> n]} ELSE answers

\* A nonce that does not change.
NonceMutant == IF issued = << >> THEN 0 ELSE 1

\* _nonce is the latest one made: micros() is never the same.
Nonce == Len(issued)

RxInvitation(m) ==
  /\ st = "IDLE" /\ m.kind = "invite"
  /\ inv' = m.session
  /\ IF password
     THEN /\ issued' = Append(issued, m.session)
          /\ st' = "WAITAUTH" /\ Answers(m, "AUTH", Nonce')
     ELSE st' = "RUNUPDATE" /\ Answers(m, "OK", 0) /\ UNCHANGED issued
  /\ UNCHANGED grantedTo

\* A response that nothing waits for.
RxIgnored(m) ==
  /\ st = "IDLE" /\ m.kind = "auth"
  /\ UNCHANGED <<st, inv, answers, issued, grantedTo>>

\* Anything but a response, a repeated invitation say, ends the wait in silence.
RxUnexpected(m) ==
  /\ st = "WAITAUTH" /\ m.kind = "invite"
  /\ st' = "IDLE" /\ UNCHANGED <<inv, answers, issued, grantedTo>>

Matches(m) == m.good /\ m.nonce = Nonce

RxResponse(m) ==
  /\ st = "WAITAUTH" /\ m.kind = "auth"
  /\ IF Matches(m)
     THEN st' = "RUNUPDATE" /\ grantedTo' = m.session /\ Answers(m, "OK", 0)
     ELSE st' = "IDLE" /\ Answers(m, "FAILED", 0) /\ UNCHANGED grantedTo
  /\ UNCHANGED <<inv, issued>>

OnRx ==
  /\ \E m \in net :
       /\ Parses(m)
       /\ RxInvitation(m) \/ RxIgnored(m) \/ RxUnexpected(m) \/ RxResponse(m)
  /\ UNCHANGED <<host, tcp, password, on, attempt, said, installed>>

(***************************************************************************)
(* The device: _runUpdate()                                                *)
(***************************************************************************)
BeginUpdate ==
  /\ on /\ dpc = "loop" /\ st = "RUNUPDATE"
  /\ \/ /\ ~upd.running /\ upd' = [running |-> TRUE, progress |-> 0]
        /\ dpc' = "connect" /\ said' = {"start"} /\ UNCHANGED st
     \/ st' = "IDLE" /\ said' = {"begin"} /\ UNCHANGED <<dpc, upd>>
  /\ UNCHANGED <<host, datagrams, tcp, password, on, inv, dconn, written, tried,
                 issued, grantedTo, installed>>

\* After a failure the code goes on: the loop is left at once.
Connect ==
  /\ dpc = "connect"
  /\ \/ /\ Live /\ inv = session /\ Len(backlog) < Pending
        /\ LET c == CHOOSE c \in Conns : ~HostHolds(c) IN
             /\ conns' = [conns EXCEPT ![c] = [for |-> inv, up |-> 0, down |-> << >>,
                                               dev |-> TRUE, host |-> TRUE]]
             /\ backlog' = Append(backlog, c) /\ dconn' = c
        /\ dpc' = "receive" /\ written' = FALSE /\ tried' = 0 /\ UNCHANGED <<st, said>>
     \/ /\ said' = said \cup {"connect"} /\ st' = "IDLE"
        /\ dpc' = "finish" /\ UNCHANGED <<tcp, dconn, written, tried>>
  /\ UNCHANGED <<host, datagrams, password, on, inv, upd, issued, grantedTo, installed>>

Finished == upd.progress = IF upd.running THEN Size ELSE 0

\* What a reply does to the connection: it is lost when it cannot be sent.
Reply(conn, text) ==
  IF conn.host /\ Len(conn.down) + Len(text) <= SendBuffer
  THEN [conn EXCEPT !.down = @ \o text] ELSE conn
Ack == <<"ack">>

\* Data arrives in any pieces; a failed write resets Update, so it is "finished",
\* and is acknowledged too when it took a part before it failed.
ReceiveData ==
  /\ dpc = "receive" /\ ~Finished
  /\ \E n \in 1 .. ReadUnits :
       /\ n <= conns[dconn].up /\ tried' = 0
       /\ LET rest == [conns[dconn] EXCEPT !.up = @ - n] IN
          /\ \/ upd' = [upd EXCEPT !.progress = @ + n] /\ written' = TRUE
             \/ upd' = Idle /\ written' \in BOOLEAN
          /\ \E conn \in {rest} \cup (IF written' THEN {Reply(rest, Ack)} ELSE {}) :
               conns' = [conns EXCEPT ![dconn] = conn]
  /\ UNCHANGED <<host, datagrams, backlog, server, dpc, dconn, ghosts>>

\* client.stop(), or the end of client's scope.
Closed(conn) == [conn EXCEPT !.dev = FALSE, !.up = 0]
CloseConn(text) ==
  conns' = [c \in Conns |->
    IF c # dconn THEN conns[c]
    ELSE IF HostHolds(c) THEN Closed(Reply(conns[c], text)) ELSE NoConn]

\* The repetitions are not counted.
RepeatAckMutant ==
  /\ dpc = "receive" /\ ~Finished /\ written
  /\ conns' = [conns EXCEPT ![dconn] = Reply(@, Ack)]
  /\ UNCHANGED <<host, datagrams, backlog, server, dpc, dconn, written, tried, upd, ghosts>>

\* One repetition too many.
RepeatAckOnceMoreMutant ==
  /\ dpc = "receive" /\ ~Finished /\ written /\ tried <= AckTries
  /\ tried' = tried + 1 /\ conns' = [conns EXCEPT ![dconn] = Reply(@, Ack)]
  /\ UNCHANGED <<host, datagrams, backlog, server, dpc, dconn, written, upd, ghosts>>

RepeatAck ==
  /\ dpc = "receive" /\ ~Finished
  /\ written /\ tried < AckTries
  /\ \/ /\ tried' = tried + 1
        /\ conns' = [conns EXCEPT ![dconn] = Reply(@, Ack)]
        /\ UNCHANGED <<st, dpc>>
     \/ st' = "IDLE" /\ dpc' = "finish" /\ UNCHANGED <<tried, conns>>
  /\ UNCHANGED <<host, datagrams, backlog, password, on, inv, dconn, written, upd, ghosts>>

\* Without Update.abort().
ReceiveFailsMutant ==
  /\ dpc = "receive" /\ ~Finished /\ (~written \/ tried = AckTries)
  /\ said' = said \cup {"receive"}
  /\ st' = "IDLE" /\ dpc' = "loop" /\ dconn' = 0 /\ CloseConn(<< >>)
  /\ UNCHANGED <<host, datagrams, backlog, password, on, inv, written, tried, upd,
                 issued, grantedTo, installed>>

\* No data for _ota_timeout, and none before or too many repetitions.
ReceiveFails ==
  /\ dpc = "receive" /\ ~Finished
  /\ (~written \/ tried = AckTries)
  /\ said' = said \cup {"receive"} /\ upd' = Idle
  /\ st' = "IDLE" /\ dpc' = "loop" /\ dconn' = 0 /\ CloseConn(<< >>)
  /\ UNCHANGED <<host, datagrams, backlog, password, on, inv, written, tried,
                 issued, grantedTo, installed>>

\* The end of the loop, and the one because connected() saw the host close.
LeavesLoop ==
  /\ dpc = "receive" /\ dpc' = "finish"
  /\ UNCHANGED <<host, datagrams, tcp, server, dconn, written, tried, upd, ghosts>>
ReceivedAll == LeavesLoop /\ Finished
Disconnected == LeavesLoop /\ ~Finished /\ ~conns[dconn].host

\* Update.end() with its check of the digest; then ESP.restart(), or not.
Complete == upd.running /\ upd.progress = Size

\* Update.end(true): what has come is taken for the whole.
EndSucceedsMutant == upd.running

EndSucceeds == Complete

FinishUpdate ==
  /\ dpc = "finish"
  /\ \/ /\ EndSucceeds
        /\ said' = said \cup {"end"} /\ CloseConn(<<"O", "K">>)
        /\ installed' = IF Complete THEN installed \cup {inv} ELSE installed
        /\ on' \in BOOLEAN
     \/ /\ said' = said \cup {"enderror"} /\ CloseConn(<<"error">>)
        /\ UNCHANGED <<installed, on>>
  /\ upd' = Idle /\ st' = "IDLE" /\ dpc' = "loop" /\ dconn' = 0
  /\ UNCHANGED <<host, datagrams, backlog, password, inv, written, tried, issued, grantedTo>>

UpdateStep ==
  BeginUpdate \/ Connect \/ RepeatAck \/ ReceiveFails \/ ReceivedAll \/ FinishUpdate

(***************************************************************************)
(* Power                                                                   *)
(***************************************************************************)
PowerCut ==
  /\ on
  /\ on' = FALSE /\ st' = "IDLE" /\ dpc' = "loop" /\ upd' = Idle /\ said' = {}
  /\ dconn' = 0 /\ CloseConn(<< >>)
  /\ UNCHANGED <<host, datagrams, backlog, password, inv, written, tried, issued,
                 grantedTo, installed>>

Init ==
  /\ session = 0 /\ knows = FALSE /\ hpc = "none" /\ tries = 0
  /\ sent = 0 /\ lastOk = FALSE /\ reads = 0 /\ hconn = 0 /\ outcome = "none"
  /\ net = {} /\ answers = {} /\ dups = 0
  /\ backlog = << >> /\ conns = [c \in Conns |-> NoConn]
  /\ password \in BOOLEAN /\ on = FALSE /\ st = "IDLE" /\ inv = 0
  /\ dpc = "loop" /\ dconn = 0 /\ written = FALSE /\ tried = 0 /\ upd = Idle
  /\ issued = << >> /\ grantedTo = 0 /\ said = {} /\ installed = {}

Next ==
  \/ Run \/ HostStep
  \/ Begin \/ End \/ OnRx \/ UpdateStep \/ ReceiveData \/ Disconnected
  \/ PowerCut

Spec == Init /\ [][Next]_vars

\* The host's process is scheduled and its timeouts expire; the sketch keeps
\* calling handle().  Nothing is assumed of the network, not even that connected()
\* ever notices a host that is gone, nor of who runs espota.py.
FairSpec == Spec /\ WF_vars(HostStep) /\ WF_vars(UpdateStep)

(***************************************************************************)
(* Properties                                                              *)
(***************************************************************************)
Message == [kind: {"invite", "auth"}, session: Sessions, try: 1 .. MaxTries,
            nonce: Nat, good: BOOLEAN]
Connection == [for: Sessions, up: Nat, down: Seq({"ack", "O", "K", "error"}),
               dev: BOOLEAN, host: BOOLEAN]

HostType ==
  /\ session \in Sessions /\ knows \in BOOLEAN
  /\ hpc \in {"none", "invite", "await", "auth", "accept", "send", "ack", "result", "done"}
  /\ tries \in 0 .. MaxTries /\ sent \in 0 .. Chunks /\ lastOk \in BOOLEAN
  /\ reads \in 0 .. ResultReads /\ hconn \in Conns \cup {0}

NetType ==
  /\ net \subseteq Message /\ dups \in 0 .. MaxDups
  /\ answers \subseteq [kind: {"AUTH", "OK", "FAILED"}, nonce: Nat]

TcpType == backlog \in Seq(Conns) /\ conns \in [Conns -> Connection]

DeviceType ==
  /\ password \in BOOLEAN /\ on \in BOOLEAN
  /\ st \in {"IDLE", "WAITAUTH", "RUNUPDATE"} /\ inv \in Sessions
  /\ dpc \in {"loop", "connect", "receive", "finish"} /\ dconn \in Conns \cup {0}
  /\ written \in BOOLEAN /\ tried \in 0 .. AckTries
  /\ upd \in [running: BOOLEAN, progress: 0 .. Size]

GhostType ==
  /\ issued \in Seq(Sessions) /\ grantedTo \in Sessions
  /\ said \subseteq {"start", "end"} \cup Errors /\ installed \subseteq Sessions

\* Every variable has its type.
TypeOK == HostType /\ NetType /\ TcpType /\ DeviceType /\ GhostType

\* When espota.py reports success, the device's Update.end() has accepted the
\* whole image of that very run, over whatever connections and repetitions.
SuccessIsReal == outcome = "success" => session \in installed

\* An attempt whose start callback was called is over with exactly one of the
\* end callback or errors, on every path out of _runUpdate().
StartIsAnswered ==
  (dpc = "loop" /\ "start" \in said) => (("end" \in said) # (said \cap Errors # {}))

\* Outside _runUpdate() the updater is free, so the next update can begin: even
\* the failed connection, which goes on to the loop, gives it back.
UpdaterReleased == dpc = "loop" => ~upd.running

\* With a password, the image about to be fetched is that of the session whose
\* response was accepted, not of another one invited meanwhile.
AuthorisedImage == (password /\ st = "RUNUPDATE") => grantedTo = inv

\* Every run of espota.py ends.
HostEnds == Live ~> hpc = "done"

\* An update that was granted ends, whatever the host and the network do.
UpdateEnds == st = "RUNUPDATE" ~> (st = "IDLE" /\ dpc = "loop")
================================================================================
