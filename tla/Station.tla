--------------------------------- MODULE Station ---------------------------------
(***************************************************************************)
(* The WiFi station on top of the network events: an event of the driver   *)
(* goes through the system event loop, whose task changes the status bits  *)
(* (STA.cpp, NetworkInterface.cpp) and posts it to a queue; the task       *)
(* "arduino_events" takes it from there and walks the list of callbacks    *)
(* (NetworkEvents.cpp), one of which sets the status and reconnects.  The  *)
(* sketch reads the bits and the status, gives the driver orders of its    *)
(* own and changes the list, all while events are on their way.            *)
(*                                                                         *)
(* One access point, a dynamic address, no scan, no smart config; of the   *)
(* SoftAP there is its entry in the list and the registration for IP       *)
(* events that all interfaces share.  A change of the list is one step.    *)
(***************************************************************************)
EXTENDS Integers, Sequences, SequencesExt

CONSTANTS
  AutoReconnect, \* _autoReconnect
  QueueSize,     \* 32 in initNetworkEvents()
  MaxCalls,      \* bound: calls of the sketch
  MaxLosses      \* bound: links the driver loses or fails to make

ASSUME StationAssumption ==
  AutoReconnect \in BOOLEAN /\ QueueSize \in Nat \ {0} /\ {MaxCalls, MaxLosses} \subseteq Nat

VARIABLES
  link,     \* the driver: "off", "idle", "joining", "linked"
  ip,       \* the driver has an address
  owes,     \* it has yet to report one that config() took
  losses,   \* links it lost or failed to make
  sys,      \* the system event loop's queue
  posting,  \* what its task is posting
  queue,    \* _arduino_event_queue
  netif,    \* _esp_netif is set and its callback registered
  hooked,   \* _sta_ev_instance
  ipHooked, \* _ip_ev_instance, one for all interfaces
  bits,     \* the interface's event group, _initial_bits when there is none
  list,     \* cbEventList
  event,    \* what the event task is at, <<>> while it waits
  index,    \* i of its walk
  reply,    \* where _onStaArduinoEvent() is
  status,   \* _status
  first,    \* first_connect
  app,      \* where the sketch is
  calls,    \* calls so far
  wanted,   \* ghost: the sketch's last word was to connect
  why,      \* ghost: the reason of the last loss
  heard,    \* ghost: how often the station's callback got this event
  fresh,    \* ghost: no system callback came or went during this walk
  missed,   \* ghost: a walk did not call it exactly once
  stale,    \* ghost: a call trusted a bit that an event on its way belies
  leftover, \* ghost: bits were set while the interface was being taken down
  unheard   \* ghost: an IP event found the handler gone and the station up

driver == <<link, ip, losses, why, owes>>
walk == <<list, event, index, reply, heard, fresh, missed>>
sketch == <<app, calls, wanted, stale>>
interface == <<netif, hooked, ipHooked, bits, leftover, unheard>>
state == <<status, first>>
vars == <<driver, sys, posting, queue, walk, sketch, interface, state>>

Ev(name) == [name |-> name, reason |-> "none"]
Lost(reason) == [name |-> "disconnected", reason |-> reason]

(***************************************************************************)
(* The driver (external)                                                   *)
(***************************************************************************)
Reasons == {"beacon", "expire", "auth_fail"}

Joins ==
  /\ link = "joining"
  /\ link' = "linked" /\ sys' = Append(sys, Ev("connected"))
  /\ UNCHANGED <<ip, losses, why, owes, posting, queue, walk, sketch, interface, state>>

Addressed ==
  /\ link = "linked" /\ ~ip
  /\ ip' = TRUE /\ owes' = FALSE /\ sys' = Append(sys, Ev("got_ip"))
  /\ UNCHANGED <<link, losses, why, posting, queue, walk, sketch, interface, state>>

LosesAddress ==
  /\ ip /\ losses < MaxLosses
  /\ ip' = FALSE /\ sys' = Append(sys, Ev("lost_ip")) /\ losses' = losses + 1
  /\ UNCHANGED <<link, why, owes, posting, queue, walk, sketch, interface, state>>

\* An address that config() took is reported lost if there is none by then.
ReportsLoss ==
  /\ owes
  /\ owes' = FALSE /\ sys' = Append(sys, Ev("lost_ip"))
  /\ UNCHANGED <<link, ip, losses, why, posting, queue, walk, sketch, interface, state>>

Loses(reason) ==
  /\ link \in {"joining", "linked"} /\ losses < MaxLosses
  /\ link' = "idle" /\ ip' = FALSE /\ why' = reason
  /\ sys' = Append(sys, Lost(reason)) /\ losses' = losses + 1
  /\ UNCHANGED <<owes, posting, queue, walk, sketch, interface, state>>

\* esp_wifi_disconnect(): an order the driver answers with an event.
DriverLeaves ==
  IF link \in {"joining", "linked"}
  THEN link' = "idle" /\ ip' = FALSE /\ why' = "leave" /\ sys' = Append(sys, Lost("leave"))
  ELSE UNCHANGED <<link, ip, why, sys>>

\* esp_wifi_connect()
DriverJoins == link' = IF link = "idle" THEN "joining" ELSE link

(***************************************************************************)
(* The system event loop's task: _onStaEvent() and _onIpEvent()            *)
(***************************************************************************)
Sets == [start |-> {"started"}, connected |-> {"connected"}, got_ip |-> {"ip"}]
ClearsMutant == [stop |-> {"started", "connected", "ip"}, disconnected |-> {"connected"},
                 lost_ip |-> {"ip"}]

Clears == [stop |-> {"started", "connected", "ip"}, disconnected |-> {"connected", "ip"},
           lost_ip |-> {"ip"}]

StatusBits(name) ==
  (bits \ (IF name \in DOMAIN Clears THEN Clears[name] ELSE {}))
    \cup (IF name \in DOMAIN Sets THEN Sets[name] ELSE {})

IsIp(e) == e.name \in {"got_ip", "lost_ip"}
Receives(e) == IF IsIp(e) THEN netif /\ ipHooked ELSE hooked

Ignored ==
  /\ sys # <<>> /\ posting = <<>> /\ ~Receives(Head(sys))
  /\ sys' = Tail(sys)
  /\ unheard' = (unheard \/ (IsIp(Head(sys)) /\ netif))
  /\ UNCHANGED <<driver, posting, queue, walk, sketch, netif, hooked, ipHooked, bits, leftover, state>>

\* The bits first, then postEvent().
SystemEvent ==
  /\ sys # <<>> /\ posting = <<>> /\ Receives(Head(sys))
  /\ bits' = StatusBits(Head(sys).name)
  /\ leftover' = (leftover \/ (~netif /\ bits' # {}))
  /\ posting' = <<Head(sys)>> /\ sys' = Tail(sys)
  /\ UNCHANGED <<driver, queue, walk, sketch, netif, hooked, ipHooked, unheard, state>>

\* postEvent() waits for room in the queue without limit.
Posts ==
  /\ posting # <<>> /\ Len(queue) < QueueSize
  /\ queue' = queue \o posting /\ posting' = <<>>
  /\ UNCHANGED <<driver, sys, walk, sketch, interface, state>>

(***************************************************************************)
(* The event task                                                          *)
(***************************************************************************)
TakeEvent ==
  /\ event = <<>> /\ queue # <<>>
  /\ event' = <<Head(queue)>> /\ queue' = Tail(queue)
  /\ index' = 1 /\ heard' = 0 /\ fresh' = TRUE
  /\ UNCHANGED <<driver, sys, posting, sketch, interface, state, list, reply, missed>>

At(callback) ==
  event # <<>> /\ reply = "none" /\ index <= Len(list) /\ list[index] = callback

\* What the sketch's own callback does there is what the sketch may do at any time.
OtherCallback ==
  /\ \E callback \in {"generic", "ap", "user"} : At(callback)
  /\ index' = index + 1
  /\ UNCHANGED <<driver, sys, posting, queue, list, event, reply, heard, fresh, missed, sketch, interface, state>>

Retried == {"beacon", "expire"}   \* _is_staReconnectableReason()

\* The status after an event; AUTH_EXPIRE leaves it alone.
Status(e) ==
  CASE e.name = "start" -> "disconnected"
    [] e.name = "stop" -> "stopped"
    [] e.name \in {"connected", "lost_ip"} -> "idle"
    [] e.name = "got_ip" -> "connected"
    [] e.name = "disconnected" ->
         CASE e.reason = "beacon" -> "lost"
           [] e.reason = "auth_fail" /\ ~first -> "failed"
           [] e.reason = "expire" -> status
           [] OTHER -> "disconnected"
    [] OTHER -> status

\* A voluntary disconnection spends neither the first retry nor an attempt.
ReconnectsMutant(e) ==
  /\ e.name = "disconnected" /\ e.reason # "leave"
  /\ AutoReconnect /\ e.reason \in Retried \ {"expire"}

Reconnects(e) ==
  /\ e.name = "disconnected" /\ e.reason # "leave"
  /\ first \/ (AutoReconnect /\ e.reason \in Retried)

\* _onStaArduinoEvent()
StationCallback ==
  LET e == event[1] IN
  /\ At("sta")
  /\ status' = Status(e)
  /\ first' = (first /\ ~Reconnects(e))
  /\ heard' = heard + 1
  /\ IF Reconnects(e)
     THEN reply' = "leave" /\ UNCHANGED index
     ELSE index' = index + 1 /\ UNCHANGED reply
  /\ UNCHANGED <<driver, sys, posting, queue, list, event, fresh, missed, sketch, interface>>

\* disconnect(): nothing unless the bit says there is a link.
Leave == IF "connected" \in bits THEN DriverLeaves ELSE UNCHANGED <<link, ip, why, sys>>

\* config() between the test and the order of connect(): the address goes
\* and the DHCP client starts anew.
Configures ==
  /\ bits' = bits \ {"ip"}
  /\ ip' = FALSE /\ owes' = (owes \/ ip)

CallbackLeaves ==
  /\ reply = "leave" /\ Leave
  /\ reply' = "join"
  /\ UNCHANGED <<losses, owes, posting, queue, list, event, index, heard, fresh, missed, sketch, interface, state>>

Returns == reply' = "none" /\ index' = index + 1

\* connect(): nothing if the bit says there is a link already.
CallbackTests ==
  /\ reply = "join"
  /\ IF netif /\ "connected" \notin bits
     THEN reply' = "config" /\ UNCHANGED index
     ELSE Returns
  /\ UNCHANGED <<driver, sys, posting, queue, list, event, heard, fresh, missed, sketch, interface, state>>

CallbackConfigures ==
  /\ reply = "config"
  /\ IF netif
     THEN Configures /\ reply' = "order" /\ UNCHANGED index
     ELSE Returns /\ UNCHANGED <<bits, ip, owes>>
  /\ UNCHANGED <<link, losses, why, sys, posting, queue, list, event, heard, fresh, missed, sketch, netif, hooked, ipHooked, leftover, unheard, state>>

CallbackJoins ==
  /\ reply = "order" /\ DriverJoins
  /\ Returns
  /\ UNCHANGED <<ip, losses, why, owes, sys, posting, queue, list, event, heard, fresh, missed, sketch, interface, state>>

EndWalk ==
  /\ event # <<>> /\ reply = "none" /\ index > Len(list)
  /\ event' = <<>>
  /\ missed' = (missed \/ (Contains(list, "sta") /\ heard # 1))
  /\ UNCHANGED <<driver, sys, posting, queue, list, index, reply, heard, fresh, sketch, interface, state>>

(***************************************************************************)
(* The sketch                                                              *)
(***************************************************************************)
Go(label) == app' = label
Calls == app = "idle" /\ calls < MaxCalls /\ calls' = calls + 1
OnItsWay ==
  {e.reason : e \in {x \in ToSet(sys \o posting \o queue \o event) : x.name = "disconnected"}}

\* begin(): wifiLowLevelInit(), onEnable(), espWiFiStart(), connect()
Begin ==
  /\ Calls /\ link = "off" /\ ~netif
  /\ Len(queue) < QueueSize
  /\ queue' = Append(queue, Ev("ready"))
  /\ Go("enable")
  /\ UNCHANGED <<driver, sys, posting, walk, wanted, stale, interface, state>>

Enables ==
  /\ app = "enable"
  /\ hooked' = TRUE /\ netif' = TRUE /\ ipHooked' = TRUE
  /\ list' = <<"sta", "generic">> \o list /\ fresh' = FALSE
  /\ Go("start")
  /\ UNCHANGED <<driver, sys, posting, queue, event, index, reply, heard, missed, calls, wanted, stale, bits, leftover, unheard, state>>

Starts ==
  /\ app = "start"
  /\ link' = "idle" /\ sys' = Append(sys, Ev("start"))
  /\ Go("connect")
  /\ UNCHANGED <<ip, losses, why, owes, posting, queue, walk, calls, wanted, stale, interface, state>>

Connect ==
  /\ netif
  /\ \/ app = "connect" /\ UNCHANGED calls
     \/ Calls
  /\ wanted' = TRUE
  /\ IF "connected" \in bits
     THEN Go("idle") /\ stale' = (stale \/ OnItsWay # {})
     ELSE Go("config") /\ UNCHANGED stale
  /\ UNCHANGED <<driver, sys, posting, queue, walk, interface, state>>

Configure ==
  /\ app = "config" /\ Configures
  /\ Go("order")
  /\ UNCHANGED <<link, losses, why, sys, posting, queue, walk, calls, wanted, stale, netif, hooked, ipHooked, leftover, unheard, state>>

Order ==
  /\ app = "order" /\ DriverJoins
  /\ stale' = (stale \/ OnItsWay # {})
  /\ Go("idle")
  /\ UNCHANGED <<ip, losses, why, owes, sys, posting, queue, walk, calls, wanted, interface, state>>

Disconnect ==
  /\ Calls /\ netif
  /\ Leave /\ wanted' = FALSE
  /\ UNCHANGED <<losses, owes, posting, queue, walk, app, stale, interface, state>>

\* reconnect() orders both at once.
Reconnect ==
  /\ Calls /\ netif
  /\ Leave /\ wanted' = TRUE
  /\ Go("rejoin")
  /\ UNCHANGED <<losses, owes, posting, queue, walk, stale, interface, state>>

Rejoins ==
  /\ app = "rejoin" /\ DriverJoins
  /\ stale' = (stale \/ OnItsWay \ {"leave"} # {})
  /\ Go("idle")
  /\ UNCHANGED <<ip, losses, why, owes, sys, posting, queue, walk, calls, wanted, interface, state>>

\* end(): espWiFiStop(), wifiLowLevelDeinit(), onDisable()
Stops ==
  /\ Calls /\ netif /\ ~Contains(list, "ap")
  /\ link' = "off" /\ ip' = FALSE /\ why' = "leave" /\ wanted' = FALSE
  /\ sys' = sys \o (IF link = "idle" THEN <<>> ELSE <<Lost("leave")>>) \o <<Ev("stop")>>
  /\ Go("deinit")
  /\ UNCHANGED <<losses, owes, posting, queue, walk, stale, interface, state>>

Deinits ==
  /\ app = "deinit" /\ Len(queue) < QueueSize
  /\ queue' = Append(queue, Ev("off"))
  /\ Go("unlist")
  /\ UNCHANGED <<driver, sys, posting, walk, calls, wanted, stale, interface, state>>

\* onDisable() takes the callback off the list, destroys the interface and
\* only then stops the driver's events.
Unlists ==
  /\ app = "unlist"
  /\ list' = RemoveFirst(list, "sta") /\ fresh' = FALSE
  /\ Go("destroy")
  /\ UNCHANGED <<driver, sys, posting, queue, event, index, reply, heard, missed, calls, wanted, stale, interface, state>>

Destroys ==
  /\ app = "destroy"
  /\ netif' = FALSE /\ ipHooked' = FALSE /\ bits' = {}
  /\ Go("unhook")
  /\ UNCHANGED <<driver, sys, posting, queue, walk, calls, wanted, stale, hooked, leftover, unheard, state>>

Unhooks ==
  /\ app = "unhook"
  /\ hooked' = FALSE /\ list' = RemoveFirst(list, "generic")
  /\ Go("idle")
  /\ UNCHANGED <<driver, sys, posting, queue, event, index, reply, heard, fresh, missed, calls, wanted, stale, netif, ipHooked, bits, leftover, unheard, state>>

\* WiFi.AP: its callback goes to the front of the list, and initNetif()
\* registers for IP events if nobody is.
SoftApOn ==
  /\ Calls /\ netif /\ ~Contains(list, "ap")
  /\ list' = <<"ap">> \o list /\ fresh' = FALSE /\ ipHooked' = TRUE
  /\ UNCHANGED <<driver, sys, posting, queue, event, index, reply, heard, missed, app, wanted, stale, netif, hooked, bits, leftover, unheard, state>>

\* destroyNetif() unregisters for all interfaces, the station's too.
SoftApOff ==
  /\ Calls /\ Contains(list, "ap")
  /\ list' = RemoveFirst(list, "ap") /\ fresh' = FALSE /\ ipHooked' = FALSE
  /\ UNCHANGED <<driver, sys, posting, queue, event, index, reply, heard, missed, app, wanted, stale, netif, hooked, bits, leftover, unheard, state>>

\* onEvent() puts the sketch's callback at the end.
OnEventMutant ==
  /\ Calls /\ ~Contains(list, "user")
  /\ list' = <<"user">> \o list
  /\ UNCHANGED <<driver, sys, posting, queue, event, index, reply, heard, fresh, missed, app, wanted, stale, interface, state>>

OnEvent ==
  /\ Calls /\ ~Contains(list, "user")
  /\ list' = Append(list, "user")
  /\ UNCHANGED <<driver, sys, posting, queue, event, index, reply, heard, fresh, missed, app, wanted, stale, interface, state>>

RemoveEvent ==
  /\ Calls /\ Contains(list, "user")
  /\ list' = RemoveFirst(list, "user")
  /\ UNCHANGED <<driver, sys, posting, queue, event, index, reply, heard, fresh, missed, app, wanted, stale, interface, state>>

Init ==
  /\ link = "off" /\ ip = FALSE /\ losses = 0 /\ why = "leave" /\ owes = FALSE
  /\ sys = <<>> /\ posting = <<>> /\ queue = <<>>
  /\ list = <<>> /\ event = <<>> /\ index = 1 /\ reply = "none"
  /\ heard = 0 /\ fresh = TRUE /\ missed = FALSE
  /\ app = "idle" /\ calls = 0 /\ wanted = FALSE /\ stale = FALSE
  /\ netif = FALSE /\ hooked = FALSE /\ ipHooked = FALSE /\ bits = {}
  /\ leftover = FALSE /\ unheard = FALSE
  /\ status = "stopped" /\ first = TRUE

Next ==
  \/ Joins \/ Addressed \/ LosesAddress \/ ReportsLoss \/ \E reason \in Reasons : Loses(reason)
  \/ Ignored \/ SystemEvent \/ Posts
  \/ TakeEvent \/ OtherCallback \/ EndWalk
  \/ StationCallback \/ CallbackLeaves \/ CallbackTests \/ CallbackConfigures \/ CallbackJoins
  \/ Begin \/ Enables \/ Starts \/ Connect \/ Configure \/ Order
  \/ Disconnect \/ Reconnect \/ Rejoins
  \/ Stops \/ Deinits \/ Unlists \/ Destroys \/ Unhooks
  \/ SoftApOn \/ SoftApOff \/ OnEvent \/ RemoveEvent

Spec == Init /\ [][Next]_vars

Settled ==
  sys = <<>> /\ posting = <<>> /\ queue = <<>> /\ event = <<>> /\ app = "idle" /\ ~owes

(***************************************************************************)
(* STA.cpp:105, NetworkEvents.cpp:93.  The bits follow the system events,  *)
(* the status the queued ones.  Once all are handled both agree with the   *)
(* driver, whatever the sketch did meanwhile, if no callback was missed    *)
(* and no bit survived the interface; an expired authentication leaves     *)
(* the status behind.  The address is known as long as every IP event      *)
(* found its handler: switching the SoftAP off takes it from the station,  *)
(* too (NetworkInterface.cpp:241).                                         *)
(***************************************************************************)
StatusSettles ==
  Settled /\ netif /\ ~missed /\ ~leftover =>
    /\ "started" \in bits /\ ("connected" \in bits <=> link = "linked")
    /\ ~unheard =>
         /\ "ip" \in bits <=> ip
         /\ ip => status = "connected"
         /\ status = "connected" => ip \/ why = "expire"

(***************************************************************************)
(* STA.cpp:148-163.  A station that is meant to be connected is not left   *)
(* idle after a loss that is worth a retry, provided the sketch does not   *)
(* connect while a disconnection is still on its way: _onStaArduinoEvent() *)
(* then takes the new link down for the old loss and, trusting the old     *)
(* bit, does not bring it up again.                                        *)
(***************************************************************************)
NotAbandoned ==
  Settled /\ netif /\ wanted /\ AutoReconnect /\ link = "idle" /\ ~(stale \/ missed \/ leftover)
    => why \notin Retried \cup {"leave"}

(***************************************************************************)
(* NetworkEvents.cpp:120.  The walk goes by index over a list that changes *)
(* under it.  The station's callback still gets every event exactly once   *)
(* while no system callback comes or goes: the sketch's callbacks may, at  *)
(* any moment.                                                             *)
(***************************************************************************)
StationHears ==
  event # <<>> /\ fresh =>
    /\ heard <= 1
    /\ index > Len(list) /\ Contains(list, "sta") => heard = 1
================================================================================
