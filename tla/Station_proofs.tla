------------------------------ MODULE Station_proofs ------------------------------
(* Proofs about Station, for every capacity of the queue, every number of  *)
(* calls of the sketch and of losses, with and without reconnection.       *)
EXTENDS Station, SequenceTheorems, TLAPS

(***************************************************************************)
(* The inductive invariant                                                 *)
(***************************************************************************)
(* The events there are.                                                   *)
Event ==
  [name : {"start", "stop", "connected", "got_ip", "lost_ip", "disconnected", "ready", "off"},
   reason : Reasons \cup {"none", "leave"}]

BoolType ==
  /\ ip \in BOOLEAN /\ netif \in BOOLEAN /\ hooked \in BOOLEAN /\ leftover \in BOOLEAN
  /\ fresh \in BOOLEAN /\ missed \in BOOLEAN /\ first \in BOOLEAN
  /\ wanted \in BOOLEAN /\ stale \in BOOLEAN
  /\ owes \in BOOLEAN /\ ipHooked \in BOOLEAN /\ unheard \in BOOLEAN
ScalarType ==
  /\ link \in {"off", "idle", "joining", "linked"}
  /\ why \in {"beacon", "expire", "auth_fail", "leave"}
  /\ bits \subseteq {"started", "connected", "ip"}
  /\ index \in Nat \ {0} /\ heard \in Nat
  /\ reply \in {"none", "leave", "join", "config", "order"}
  /\ app \in {"idle", "enable", "start", "connect", "config", "order", "rejoin", "deinit",
              "unlist", "destroy", "unhook"}
QueueType ==
  /\ sys \in Seq(Event) /\ queue \in Seq(Event)
  /\ posting \in Seq(Event) /\ Len(posting) <= 1
  /\ event \in Seq(Event) /\ Len(event) <= 1
Callbacks == {"sta", "generic", "ap", "user"}
TypeInv == BoolType /\ ScalarType /\ QueueType

(* What exists at which step of begin() and end().                         *)
Down == {"start", "deinit", "unlist", "destroy"}
CallsInv ==
  /\ hooked <=> netif \/ app = "unhook"
  /\ app \in Down \cup {"connect", "config", "order", "rejoin"} => netif
  /\ app \in {"enable", "unhook"} => ~netif
  /\ link = "off" <=> ~netif \/ app \in Down
  /\ wanted => link # "off"
  /\ ip => link = "linked"
  /\ owes => ~ip
  /\ ~netif => bits = {} \/ leftover

(* The callback list: no entry twice, the station's while the interface    *)
(* is up, the sketch's behind it.                                          *)
Unique(s) == \A i, j \in 1 .. Len(s) : s[i] = s[j] => i = j
StationFirst(s) == \A i, j \in 1 .. Len(s) : s[i] = "sta" /\ s[j] = "user" => i < j
ListInv ==
  /\ list \in Seq(Callbacks) /\ Unique(list) /\ StationFirst(list)
  /\ Contains(list, "sta") <=> netif /\ app # "destroy"
  /\ Contains(list, "generic") <=> hooked

(* The walk has passed the station's entry once if it has passed it.       *)
Passed(p) == p < index \/ (p = index /\ reply # "none")
WalkInv ==
  event # <<>> /\ fresh =>
    /\ \A p \in 1 .. Len(list) :
         list[p] = "sta" => heard = IF Passed(p) THEN 1 ELSE 0
    /\ ~Contains(list, "sta") => heard = 0

(* A reply belongs to a loss that the station's callback was told of.      *)
Hot(e) == e.name = "disconnected" /\ e.reason # "leave"
ReplyInv == reply # "none" => event # <<>> /\ heard > 0 /\ Hot(event[1])

(* A bit follows the driver: what the last event still on its way to the   *)
(* system task will make of it, or else what it is, is how the driver      *)
(* stands.  Not so the address while its loss has yet to be reported, nor  *)
(* after an IP event was not heard.                                        *)
Up(bit) ==
  CASE bit = "started" -> link # "off"
    [] bit = "connected" -> link = "linked"
    [] bit = "ip" -> ip
SetsBit(e, bit) == e.name \in DOMAIN Sets /\ bit \in Sets[e.name]
ClearsBit(e, bit) == e.name \in DOMAIN Clears /\ bit \in Clears[e.name]
Moves(e, bit) == SetsBit(e, bit) \/ ClearsBit(e, bit)
BitAgrees(s, bit, on, up) ==
  /\ (\A i \in 1 .. Len(s) : ~Moves(s[i], bit)) => (on <=> up)
  /\ \A i \in 1 .. Len(s) :
       Moves(s[i], bit) /\ (\A j \in 1 .. Len(s) : j > i => ~Moves(s[j], bit))
         => (SetsBit(s[i], bit) <=> up)
Loose(bit) == bit = "ip" /\ (owes \/ unheard)
BitsInv ==
  leftover \/ \A bit \in {"started", "connected", "ip"} :
                Loose(bit) \/ BitAgrees(sys, bit, bit \in bits, Up(bit))

(* A link that is down is down by a disconnection: the stop event never    *)
(* has to clear the bit for it.                                            *)
LinkAgrees(s, on, linked) ==
  /\ (\A i \in 1 .. Len(s) : s[i].name # "disconnected") => (on => linked)
  /\ \A i \in 1 .. Len(s) :
       s[i].name = "connected" /\ (\A j \in 1 .. Len(s) : j > i => s[j].name # "disconnected")
         => linked
LinkInv == leftover \/ LinkAgrees(sys, "connected" \in bits, link = "linked")

(* The events the station's callback has not been told of.                 *)
Told == event # <<>> /\ heard > 0
Untold == (IF Told THEN <<>> ELSE event) \o queue \o posting \o sys
Twice == event # <<>> /\ heard > 1

(* The status follows the events in the same way.                          *)
Decides(e) == e.name \notin {"ready", "off"} /\ ~(e.name = "disconnected" /\ e.reason = "expire")
StatusAgrees(s, on, addressed, expired) ==
  /\ (\A i \in 1 .. Len(s) : ~Decides(s[i])) =>
       (addressed => on) /\ (on => addressed \/ expired)
  /\ \A i \in 1 .. Len(s) :
       Decides(s[i]) /\ (\A j \in 1 .. Len(s) : j > i => ~Decides(s[j])) =>
         /\ addressed => s[i].name = "got_ip"
         /\ s[i].name = "got_ip" => addressed \/ expired
StatusInv ==
  link = "off" \/ missed \/ Twice \/ unheard
    \/ StatusAgrees(Untold, status = "connected", ip, why = "expire" \/ owes)

(* While the sketch leaves the link alone, a loss on its way is the last   *)
(* disconnection, and the link stays down until the callback has answered  *)
(* it.                                                                     *)
Linking == link \in {"joining", "linked"}
Trusted == wanted /\ app \notin {"config", "order", "rejoin"} /\ ~(stale \/ missed \/ leftover \/ Twice)
NoLoss(s) == \A i \in 1 .. Len(s) : s[i].name # "disconnected"
LossLast(s, linking) ==
  \A i \in 1 .. Len(s) :
    Hot(s[i]) => ~linking /\ \A j \in 1 .. Len(s) : j > i => s[j].name # "disconnected"
LossInv ==
  Trusted => LossLast(Untold, Linking) /\ (reply # "none" => ~Linking /\ NoLoss(Untold))

(* A link that is down for a reason worth a retry will be retried.         *)
HasRetry(s) == \E i \in 1 .. Len(s) : Hot(s[i]) /\ s[i].reason \in Retried
RetryInv ==
  Trusted /\ link = "idle" =>
    why # "leave" /\ (why \in Retried /\ AutoReconnect => reply # "none" \/ HasRetry(Untold))

AnswerInv == LossInv /\ RetryInv

IInv ==
  /\ TypeInv /\ CallsInv /\ ListInv /\ WalkInv /\ ReplyInv
  /\ BitsInv /\ LinkInv /\ StatusInv /\ AnswerInv

(***************************************************************************)
(* Sequences                                                               *)
(***************************************************************************)
(* A sequence of at most one element.                                      *)
LEMMA Single ==
  ASSUME NEW S, NEW s \in Seq(S), Len(s) <= 1, s # <<>>
  PROVE  Len(s) = 1 /\ s[1] \in S /\ Head(s) = s[1] /\ s = <<s[1]>> /\ Tail(s) = <<>>
<1>1. Len(s) = 1
  <2>1. Len(s) \in Nat /\ Len(s) # 0
    BY EmptySeq, LenProperties
  <2>2. QED
    BY <2>1, SMTT(30)
<1>2. s[1] \in S /\ Head(s) = s[1]
  BY <1>1, ElementOfSeq
<1>3. <<s[1]>> \in Seq(S) /\ Len(<<s[1]>>) = 1 /\ <<s[1]>>[1] = s[1]
  BY <1>2
<1>4. s = <<s[1]>>
  <2>1. \A i \in 1 .. Len(s) : s[i] = <<s[1]>>[i]
    BY <1>1, <1>3
  <2>2. QED
    BY <1>1, <1>3, <2>1, SeqEqual
<1>5. Tail(s) = <<>>
  <2>1. Tail(s) \in Seq(S) /\ Len(Tail(s)) = 0
    BY <1>1, HeadTailProperties
  <2>2. Tail(s) # <<>> => Len(Tail(s)) \in Nat \ {0}
    BY <2>1, EmptySeq
  <2>3. QED
    BY <2>1, <2>2
<1>6. QED
  BY <1>1, <1>2, <1>4, <1>5

(* A sequence that is not empty is its head and its tail.                  *)
LEMMA HeadTail ==
  ASSUME NEW S, NEW s \in Seq(S), s # <<>>
  PROVE  /\ Head(s) \in S /\ Tail(s) \in Seq(S) /\ s = <<Head(s)>> \o Tail(s)
         /\ Len(s) \in Nat \ {0} /\ Len(Tail(s)) = Len(s) - 1 /\ Head(s) = s[1]
         /\ \A i \in 1 .. Len(Tail(s)) : Tail(s)[i] = s[i + 1]
<1>1. /\ Head(s) \in S /\ Tail(s) \in Seq(S) /\ Len(Tail(s)) = Len(s) - 1
      /\ \A i \in 1 .. Len(Tail(s)) : Tail(s)[i] = s[i + 1]
  BY HeadTailProperties
<1>2. Len(s) \in Nat \ {0} /\ Head(s) = s[1]
  BY EmptySeq
<1>3. <<Head(s)>> \in Seq(S) /\ Len(<<Head(s)>>) = 1 /\ <<Head(s)>>[1] = Head(s)
  BY <1>1
<1> DEFINE t == <<Head(s)>> \o Tail(s)
<1>4. /\ t \in Seq(S) /\ Len(t) = 1 + Len(Tail(s))
      /\ \A i \in 1 .. 1 + Len(Tail(s)) :
           t[i] = IF i <= 1 THEN <<Head(s)>>[i] ELSE Tail(s)[i - 1]
  BY <1>1, <1>3, ConcatProperties
<1> HIDE DEF t
<1>5. Len(t) = Len(s)
  BY <1>1, <1>2, <1>4
<1>6. \A i \in 1 .. Len(s) : t[i] = s[i]
  <2> TAKE i \in 1 .. Len(s)
  <2>1. CASE i = 1
    BY <1>1, <1>2, <1>3, <1>4, <2>1
  <2>2. CASE i # 1
    <3>1. i - 1 \in 1 .. Len(Tail(s)) /\ i \in 1 .. 1 + Len(Tail(s)) /\ ~(i <= 1) /\ (i - 1) + 1 = i
      BY <1>1, <1>2, <2>2
    <3>2. QED
      BY <1>1, <1>4, <3>1
  <2>3. QED
    BY <2>1, <2>2
<1>7. s = t
  BY <1>4, <1>5, <1>6, SeqEqual
<1>8. QED
  BY <1>1, <1>2, <1>7 DEF t

(* An element that occurs once is erased, and what is behind it moves up.  *)
LEMMA Erased ==
  ASSUME NEW S, NEW s \in Seq(S), NEW i \in 1 .. Len(s),
         \A j \in 1 .. Len(s) : s[j] = s[i] => j = i
  PROVE  /\ RemoveFirst(s, s[i]) \in Seq(S) /\ Len(RemoveFirst(s, s[i])) = Len(s) - 1
         /\ \A j \in 1 .. Len(s) - 1 :
              RemoveFirst(s, s[i])[j] = IF j < i THEN s[j] ELSE s[j + 1]
<1>0. Len(s) \in Nat
  BY LenProperties
<1>1. {j \in 1 .. Len(s) : s[j] = s[i]} = {i}
  OBVIOUS
<1>2. Min({i}) = i
  BY DEF Min
<1>3. RemoveFirst(s, s[i]) = RemoveAt(s, i)
  BY <1>1, <1>2 DEF RemoveFirst, SelectInSeq
<1> DEFINE a == SubSeq(s, 1, i - 1)
           b == SubSeq(s, i + 1, Len(s))
<1>4. \A j \in 1 .. Len(s) : s[j] \in S
  BY ElementOfSeq
<1>5. /\ a \in Seq(S) /\ Len(a) = i - 1
      /\ \A j \in 1 .. i - 1 : a[j] = s[j]
  <2>1. \A j \in 1 .. i - 1 : s[j] \in S
    BY <1>0, <1>4
  <2>2. 1 \in Int /\ i - 1 \in Int
    BY <1>0
  <2>3. /\ a \in Seq(S) /\ Len(a) = IF 1 <= i - 1 THEN (i - 1) - 1 + 1 ELSE 0
        /\ \A j \in 1 .. (i - 1) - 1 + 1 : a[j] = s[1 + j - 1]
    BY <2>1, <2>2, SubSeqProperties
  <2>4. QED
    BY <1>0, <2>3
<1>6. /\ b \in Seq(S) /\ Len(b) = Len(s) - i
      /\ \A j \in 1 .. Len(s) - i : b[j] = s[i + j]
  <2>1. \A j \in i + 1 .. Len(s) : s[j] \in S
    BY <1>0, <1>4
  <2>2. i + 1 \in Int /\ Len(s) \in Int
    BY <1>0
  <2>3. /\ b \in Seq(S) /\ Len(b) = IF i + 1 <= Len(s) THEN Len(s) - (i + 1) + 1 ELSE 0
        /\ \A j \in 1 .. Len(s) - (i + 1) + 1 : b[j] = s[i + 1 + j - 1]
    BY <2>1, <2>2, SubSeqProperties
  <2>4. QED
    BY <1>0, <2>3
<1> HIDE DEF a, b
<1>7. /\ a \o b \in Seq(S) /\ Len(a \o b) = (i - 1) + (Len(s) - i)
      /\ \A j \in 1 .. (i - 1) + (Len(s) - i) : (a \o b)[j] = IF j <= i - 1 THEN a[j] ELSE b[j - (i - 1)]
  <2>1. /\ a \o b \in Seq(S) /\ Len(a \o b) = Len(a) + Len(b)
        /\ \A j \in 1 .. Len(a) + Len(b) :
             (a \o b)[j] = IF j <= Len(a) THEN a[j] ELSE b[j - Len(a)]
    BY <1>5, <1>6, ConcatProperties
  <2>2. QED
    BY <1>5, <1>6, <2>1
<1>8. RemoveAt(s, i) = a \o b
  BY DEF RemoveAt, a, b
<1>9. \A j \in 1 .. Len(s) - 1 : (a \o b)[j] = IF j < i THEN s[j] ELSE s[j + 1]
  <2> TAKE j \in 1 .. Len(s) - 1
  <2>0. j \in 1 .. (i - 1) + (Len(s) - i)
    BY <1>0
  <2>1. CASE j < i
    <3>1. j \in 1 .. i - 1 /\ j <= i - 1
      BY <1>0, <2>1
    <3>2. QED
      BY <1>5, <1>7, <2>0, <2>1, <3>1
  <2>2. CASE ~(j < i)
    <3>1. j - (i - 1) \in 1 .. Len(s) - i /\ ~(j <= i - 1) /\ i + (j - (i - 1)) = j + 1
      BY <1>0, <2>2
    <3>2. QED
      BY <1>6, <1>7, <2>0, <2>2, <3>1
  <2>3. QED
    BY <2>1, <2>2
<1>10. QED
  BY <1>0, <1>3, <1>7, <1>8, <1>9

(***************************************************************************)
(* The types                                                               *)
(***************************************************************************)
(* The events that set a bit, and the events that clear it.                *)
LEMMA Movers ==
  ASSUME NEW e, NEW bit
  PROVE  /\ SetsBit(e, bit) <=> \/ e.name = "start" /\ bit = "started"
                                \/ e.name = "connected" /\ bit = "connected"
                                \/ e.name = "got_ip" /\ bit = "ip"
         /\ ClearsBit(e, bit) <=> \/ e.name = "stop" /\ bit \in {"started", "connected", "ip"}
                                  \/ e.name = "disconnected" /\ bit \in {"connected", "ip"}
                                  \/ e.name = "lost_ip" /\ bit = "ip"
         /\ bit \in StatusBits(e.name) <=> SetsBit(e, bit) \/ (bit \in bits /\ ~ClearsBit(e, bit))
<1>1. \A name \in {"start", "connected", "got_ip"} :
        bit \in Sets[name] <=> \/ name = "start" /\ bit = "started"
                               \/ name = "connected" /\ bit = "connected"
                               \/ name = "got_ip" /\ bit = "ip"
  BY DEF Sets
<1>2. \A name \in {"stop", "disconnected", "lost_ip"} :
        bit \in Clears[name] <=> \/ name = "stop" /\ bit \in {"started", "connected", "ip"}
                                 \/ name = "disconnected" /\ bit \in {"connected", "ip"}
                                 \/ name = "lost_ip" /\ bit = "ip"
  BY DEF Clears
<1>3. DOMAIN Sets = {"start", "connected", "got_ip"}
  BY DEF Sets
<1>4. DOMAIN Clears = {"stop", "disconnected", "lost_ip"}
  BY DEF Clears
<1>5. SetsBit(e, bit) <=> \/ e.name = "start" /\ bit = "started"
                          \/ e.name = "connected" /\ bit = "connected"
                          \/ e.name = "got_ip" /\ bit = "ip"
  <2>1. SetsBit(e, bit) <=> e.name \in {"start", "connected", "got_ip"} /\ bit \in Sets[e.name]
    BY <1>3 DEF SetsBit
  <2>2. CASE e.name \in {"start", "connected", "got_ip"}
    <3>1. bit \in Sets[e.name] <=> \/ e.name = "start" /\ bit = "started"
                                   \/ e.name = "connected" /\ bit = "connected"
                                   \/ e.name = "got_ip" /\ bit = "ip"
      BY <1>1, <2>2
    <3>2. QED
      BY <2>1, <2>2, <3>1
  <2>3. CASE e.name \notin {"start", "connected", "got_ip"}
    BY <2>1, <2>3
  <2>4. QED
    BY <2>2, <2>3
<1>6. ClearsBit(e, bit) <=> \/ e.name = "stop" /\ bit \in {"started", "connected", "ip"}
                            \/ e.name = "disconnected" /\ bit \in {"connected", "ip"}
                            \/ e.name = "lost_ip" /\ bit = "ip"
  <2>1. ClearsBit(e, bit) <=> e.name \in {"stop", "disconnected", "lost_ip"} /\ bit \in Clears[e.name]
    BY <1>4 DEF ClearsBit
  <2>2. CASE e.name \in {"stop", "disconnected", "lost_ip"}
    <3>1. bit \in Clears[e.name] <=> \/ e.name = "stop" /\ bit \in {"started", "connected", "ip"}
                                     \/ e.name = "disconnected" /\ bit \in {"connected", "ip"}
                                     \/ e.name = "lost_ip" /\ bit = "ip"
      BY <1>2, <2>2
    <3>2. QED
      BY <2>1, <2>2, <3>1
  <2>3. CASE e.name \notin {"stop", "disconnected", "lost_ip"}
    BY <2>1, <2>3
  <2>4. QED
    BY <2>2, <2>3
<1>7. bit \in StatusBits(e.name) <=> SetsBit(e, bit) \/ (bit \in bits /\ ~ClearsBit(e, bit))
  BY DEF StatusBits, SetsBit, ClearsBit
<1>8. QED
  BY <1>5, <1>6, <1>7

(* The events that are sent.                                               *)
LEMMA Events ==
  /\ \A name \in {"start", "stop", "connected", "got_ip", "lost_ip", "ready", "off"} :
       Ev(name) \in Event /\ Ev(name).name = name
  /\ \A reason \in Reasons \cup {"leave"} :
       /\ Lost(reason) \in Event
       /\ Lost(reason).name = "disconnected" /\ Lost(reason).reason = reason
  BY DEF Ev, Lost, Event

(* The variables that hold a truth value.                                  *)
LEMMA BoolStep ==
  ASSUME BoolType, [Next]_vars
  PROVE  BoolType'
<1> USE DEF BoolType, driver, walk, sketch, interface, state
<1>1. CASE Joins  BY <1>1 DEF Joins
<1>2. CASE Addressed  BY <1>2 DEF Addressed
<1>3. CASE LosesAddress  BY <1>3 DEF LosesAddress
<1>4. CASE ReportsLoss  BY <1>4 DEF ReportsLoss
<1>5. ASSUME NEW reason \in Reasons, Loses(reason) PROVE BoolType'  BY <1>5 DEF Loses
<1>6. CASE Ignored
  <2>1. unheard' \in BOOLEAN
    BY <1>6 DEF Ignored
  <2>2. QED
    BY <1>6, <2>1 DEF Ignored
<1>7. CASE SystemEvent
  <2>1. leftover' \in BOOLEAN
    BY <1>7 DEF SystemEvent
  <2>2. QED
    BY <1>7, <2>1 DEF SystemEvent
<1>8. CASE Posts  BY <1>8 DEF Posts
<1>9. CASE TakeEvent  BY <1>9 DEF TakeEvent
<1>10. CASE OtherCallback  BY <1>10 DEF OtherCallback, At
<1>11. CASE EndWalk  BY <1>11 DEF EndWalk
<1>12. CASE StationCallback
  <2>1. first' \in BOOLEAN
    BY <1>12 DEF StationCallback
  <2>2. QED
    BY <1>12, <2>1 DEF StationCallback
<1>13. CASE CallbackLeaves  BY <1>13 DEF CallbackLeaves, Leave, DriverLeaves
<1>14. CASE CallbackTests  BY <1>14 DEF CallbackTests, Returns
<1>15. CASE CallbackConfigures
  <2>1. owes' \in BOOLEAN /\ ip' \in BOOLEAN
    BY <1>15 DEF CallbackConfigures, Configures
  <2>2. QED
    BY <1>15, <2>1 DEF CallbackConfigures
<1>16. CASE CallbackJoins  BY <1>16 DEF CallbackJoins, DriverJoins, Returns
<1>17. CASE Begin  BY <1>17 DEF Begin, Calls, Go
<1>18. CASE Enables  BY <1>18 DEF Enables, Go
<1>19. CASE Starts  BY <1>19 DEF Starts, Go
<1>20. CASE Connect  BY <1>20 DEF Connect, Go, Calls
<1>21. CASE Configure
  <2>1. owes' \in BOOLEAN /\ ip' \in BOOLEAN
    BY <1>21 DEF Configure, Configures
  <2>2. QED
    BY <1>21, <2>1 DEF Configure
<1>22. CASE Order  BY <1>22 DEF Order, DriverJoins, Go
<1>23. CASE Disconnect  BY <1>23 DEF Disconnect, Leave, DriverLeaves, Calls
<1>24. CASE Reconnect  BY <1>24 DEF Reconnect, Leave, DriverLeaves, Go, Calls
<1>25. CASE Rejoins  BY <1>25 DEF Rejoins, DriverJoins, Go
<1>26. CASE Stops  BY <1>26 DEF Stops, Calls, Go
<1>27. CASE Deinits  BY <1>27 DEF Deinits, Go
<1>28. CASE Unlists  BY <1>28 DEF Unlists, Go
<1>29. CASE Destroys  BY <1>29 DEF Destroys, Go
<1>30. CASE Unhooks  BY <1>30 DEF Unhooks, Go
<1>31. CASE SoftApOn  BY <1>31 DEF SoftApOn, Calls
<1>32. CASE SoftApOff  BY <1>32 DEF SoftApOff, Calls
<1>33. CASE OnEvent  BY <1>33 DEF OnEvent, Calls
<1>34. CASE RemoveEvent  BY <1>34 DEF RemoveEvent, Calls
<1>35. CASE UNCHANGED vars  BY <1>35 DEF vars
<1>36. QED
  BY <1>1, <1>2, <1>3, <1>4, <1>5, <1>6, <1>7, <1>8, <1>9, <1>10, <1>11,
     <1>12, <1>13, <1>14, <1>15, <1>16, <1>17, <1>18, <1>19, <1>20, <1>21,
     <1>22, <1>23, <1>24, <1>25, <1>26, <1>27, <1>28, <1>29, <1>30, <1>31,
     <1>32, <1>33, <1>34, <1>35
  DEF Next

(* The other variables that hold no sequence.                              *)
LEMMA ScalarStep ==
  ASSUME ScalarType, [Next]_vars
  PROVE  ScalarType'
<1> USE DEF ScalarType, driver, walk, sketch, interface, state
<1>1. CASE Joins  BY <1>1 DEF Joins
<1>2. CASE Addressed  BY <1>2 DEF Addressed
<1>3. CASE LosesAddress  BY <1>3 DEF LosesAddress
<1>4. CASE ReportsLoss  BY <1>4 DEF ReportsLoss
<1>5. ASSUME NEW reason \in Reasons, Loses(reason) PROVE ScalarType'
  BY <1>5 DEF Loses, Reasons
<1>6. CASE Ignored  BY <1>6 DEF Ignored
<1>7. CASE SystemEvent
  <2>1. bits' \subseteq {"started", "connected", "ip"}
    <3>1. \A bit : bit \in StatusBits(Head(sys).name) => bit \in bits \/ bit \in {"started", "connected", "ip"}
      BY Movers
    <3>2. QED
      BY <1>7, <3>1 DEF SystemEvent
  <2>2. QED
    BY <1>7, <2>1 DEF SystemEvent
<1>8. CASE Posts  BY <1>8 DEF Posts
<1>9. CASE TakeEvent  BY <1>9 DEF TakeEvent
<1>10. CASE OtherCallback  BY <1>10 DEF OtherCallback, At
<1>11. CASE EndWalk  BY <1>11 DEF EndWalk
<1>12. CASE StationCallback
  <2>1. heard' = heard + 1
    BY <1>12 DEF StationCallback
  <2>2. reply' \in {reply, "leave"} /\ index' \in {index, index + 1}
    BY <1>12 DEF StationCallback
  <2>3. UNCHANGED <<link, why, bits, app>>
    BY <1>12 DEF StationCallback
  <2>4. QED
    BY <2>1, <2>2, <2>3
<1>13. CASE CallbackLeaves  BY <1>13 DEF CallbackLeaves, Leave, DriverLeaves
<1>14. CASE CallbackTests  BY <1>14 DEF CallbackTests, Returns
<1>15. CASE CallbackConfigures
  <2>1. bits' \subseteq {"started", "connected", "ip"}
    BY <1>15 DEF CallbackConfigures, Configures
  <2>2. reply' \in {"none", "order"} /\ index' \in {index, index + 1}
    BY <1>15 DEF CallbackConfigures, Returns
  <2>3. UNCHANGED <<link, why, heard, app>>
    BY <1>15 DEF CallbackConfigures
  <2>4. QED
    BY <2>1, <2>2, <2>3
<1>16. CASE CallbackJoins  BY <1>16 DEF CallbackJoins, DriverJoins, Returns
<1>17. CASE Begin  BY <1>17 DEF Begin, Calls, Go
<1>18. CASE Enables  BY <1>18 DEF Enables, Go
<1>19. CASE Starts  BY <1>19 DEF Starts, Go
<1>20. CASE Connect  BY <1>20 DEF Connect, Go, Calls
<1>21. CASE Configure  BY <1>21 DEF Configure, Configures, Go
<1>22. CASE Order  BY <1>22 DEF Order, DriverJoins, Go
<1>23. CASE Disconnect  BY <1>23 DEF Disconnect, Leave, DriverLeaves, Calls
<1>24. CASE Reconnect  BY <1>24 DEF Reconnect, Leave, DriverLeaves, Go, Calls
<1>25. CASE Rejoins  BY <1>25 DEF Rejoins, DriverJoins, Go
<1>26. CASE Stops  BY <1>26 DEF Stops, Calls, Go
<1>27. CASE Deinits  BY <1>27 DEF Deinits, Go
<1>28. CASE Unlists  BY <1>28 DEF Unlists, Go
<1>29. CASE Destroys  BY <1>29 DEF Destroys, Go
<1>30. CASE Unhooks  BY <1>30 DEF Unhooks, Go
<1>31. CASE SoftApOn  BY <1>31 DEF SoftApOn, Calls
<1>32. CASE SoftApOff  BY <1>32 DEF SoftApOff, Calls
<1>33. CASE OnEvent  BY <1>33 DEF OnEvent, Calls
<1>34. CASE RemoveEvent  BY <1>34 DEF RemoveEvent, Calls
<1>35. CASE UNCHANGED vars  BY <1>35 DEF vars
<1>36. QED
  BY <1>1, <1>2, <1>3, <1>4, <1>5, <1>6, <1>7, <1>8, <1>9, <1>10, <1>11,
     <1>12, <1>13, <1>14, <1>15, <1>16, <1>17, <1>18, <1>19, <1>20, <1>21,
     <1>22, <1>23, <1>24, <1>25, <1>26, <1>27, <1>28, <1>29, <1>30, <1>31,
     <1>32, <1>33, <1>34, <1>35
  DEF Next

(* What disconnect() and end() send.                                       *)
LEMMA LeaveSends ==
  ASSUME QueueType, Leave
  PROVE  /\ sys' \in Seq(Event)
         /\ \/ UNCHANGED <<link, ip, why, sys>>
            \/ /\ link \in {"joining", "linked"} /\ "connected" \in bits
               /\ link' = "idle" /\ ip' = FALSE /\ why' = "leave"
               /\ sys' = Append(sys, Lost("leave"))
<1>1. Lost("leave") \in Event /\ sys \in Seq(Event)
  BY Events DEF QueueType
<1>2. Append(sys, Lost("leave")) \in Seq(Event)
  BY <1>1, AppendProperties
<1>3. CASE "connected" \in bits /\ link \in {"joining", "linked"}
  BY <1>2, <1>3 DEF Leave, DriverLeaves
<1>4. CASE ~("connected" \in bits /\ link \in {"joining", "linked"})
  BY <1>1, <1>4 DEF Leave, DriverLeaves
<1>5. QED
  BY <1>3, <1>4

LEMMA StopSends ==
  ASSUME QueueType, Stops
  PROVE  /\ sys' \in Seq(Event)
         /\ \/ link = "idle" /\ sys' = Append(sys, Ev("stop"))
            \/ link # "idle" /\ sys' = Append(Append(sys, Lost("leave")), Ev("stop"))
<1>1. Ev("stop") \in Event /\ Lost("leave") \in Event /\ sys \in Seq(Event)
  BY Events DEF QueueType
<1>2. Append(sys, Lost("leave")) \in Seq(Event)
  BY <1>1, AppendProperties
<1>3. CASE link = "idle"
  <2>1. sys' = sys \o <<>> \o <<Ev("stop")>>
    BY <1>3 DEF Stops
  <2>2. sys' = Append(sys, Ev("stop"))
    BY <1>1, <2>1, ConcatEmptySeq, AppendIsConcat
  <2>3. QED
    BY <1>1, <1>3, <2>2, AppendProperties
<1>4. CASE link # "idle"
  <2>1. sys' = sys \o <<Lost("leave")>> \o <<Ev("stop")>>
    BY <1>4 DEF Stops
  <2>2. sys' = Append(Append(sys, Lost("leave")), Ev("stop"))
    <3>1. sys \o <<Lost("leave")>> = Append(sys, Lost("leave"))
      BY <1>1, AppendIsConcat
    <3>2. QED
      BY <1>1, <1>2, <2>1, <3>1, AppendIsConcat
  <2>3. QED
    BY <1>1, <1>2, <1>4, <2>2, AppendProperties
<1>5. QED
  BY <1>3, <1>4

(* The queues.                                                             *)
LEMMA QueueStep ==
  ASSUME QueueType, [Next]_vars
  PROVE  QueueType'
<1> USE DEF QueueType, driver, walk, sketch, interface, state
<1>1. CASE Joins
  BY <1>1, Events, AppendProperties DEF Joins
<1>2. CASE Addressed
  BY <1>2, Events, AppendProperties DEF Addressed
<1>3. CASE LosesAddress
  BY <1>3, Events, AppendProperties DEF LosesAddress
<1>4. CASE ReportsLoss
  BY <1>4, Events, AppendProperties DEF ReportsLoss
<1>5. ASSUME NEW reason \in Reasons, Loses(reason) PROVE QueueType'
  BY <1>5, Events, AppendProperties DEF Loses
<1>6. CASE Ignored
  BY <1>6, HeadTail DEF Ignored
<1>7. CASE SystemEvent
  <2>1. Head(sys) \in Event /\ sys' \in Seq(Event)
    BY <1>7, HeadTail DEF SystemEvent
  <2>2. posting' \in Seq(Event) /\ Len(posting') <= 1
    BY <1>7, <2>1 DEF SystemEvent
  <2>3. QED
    BY <1>7, <2>1, <2>2 DEF SystemEvent
<1>8. CASE Posts
  <2>1. queue' \in Seq(Event)
    BY <1>8, ConcatProperties DEF Posts
  <2>2. posting' = <<>> /\ UNCHANGED <<sys, event>>
    BY <1>8 DEF Posts
  <2>3. <<>> \in Seq(Event) /\ Len(<<>>) <= 1
    BY EmptySeq
  <2>4. QED
    BY <2>1, <2>2, <2>3
<1>9. CASE TakeEvent
  <2>1. Head(queue) \in Event /\ queue' \in Seq(Event)
    BY <1>9, HeadTail DEF TakeEvent
  <2>2. event' \in Seq(Event) /\ Len(event') <= 1
    BY <1>9, <2>1 DEF TakeEvent
  <2>3. QED
    BY <1>9, <2>1, <2>2 DEF TakeEvent
<1>10. CASE OtherCallback  BY <1>10 DEF OtherCallback, At
<1>11. CASE EndWalk
  <2>1. event' = <<>> /\ UNCHANGED <<sys, queue, posting>>
    BY <1>11 DEF EndWalk
  <2>2. <<>> \in Seq(Event) /\ Len(<<>>) <= 1
    BY EmptySeq
  <2>3. QED
    BY <2>1, <2>2
<1>12. CASE StationCallback  BY <1>12 DEF StationCallback, At
<1>13. CASE CallbackLeaves
  BY <1>13, LeaveSends DEF CallbackLeaves
<1>14. CASE CallbackTests  BY <1>14 DEF CallbackTests, Returns
<1>15. CASE CallbackConfigures  BY <1>15 DEF CallbackConfigures, Configures, Returns
<1>16. CASE CallbackJoins  BY <1>16 DEF CallbackJoins, DriverJoins, Returns
<1>17. CASE Begin
  BY <1>17, Events, AppendProperties DEF Begin
<1>18. CASE Enables  BY <1>18 DEF Enables, Go
<1>19. CASE Starts
  BY <1>19, Events, AppendProperties DEF Starts
<1>20. CASE Connect  BY <1>20 DEF Connect, Go, Calls
<1>21. CASE Configure  BY <1>21 DEF Configure, Configures, Go
<1>22. CASE Order  BY <1>22 DEF Order, DriverJoins, Go
<1>23. CASE Disconnect
  BY <1>23, LeaveSends DEF Disconnect
<1>24. CASE Reconnect
  BY <1>24, LeaveSends DEF Reconnect
<1>25. CASE Rejoins  BY <1>25 DEF Rejoins, DriverJoins, Go
<1>26. CASE Stops
  BY <1>26, StopSends DEF Stops
<1>27. CASE Deinits
  BY <1>27, Events, AppendProperties DEF Deinits
<1>28. CASE Unlists  BY <1>28 DEF Unlists, Go
<1>29. CASE Destroys  BY <1>29 DEF Destroys, Go
<1>30. CASE Unhooks  BY <1>30 DEF Unhooks, Go
<1>31. CASE SoftApOn  BY <1>31 DEF SoftApOn, Calls
<1>32. CASE SoftApOff  BY <1>32 DEF SoftApOff, Calls
<1>33. CASE OnEvent  BY <1>33 DEF OnEvent, Calls
<1>34. CASE RemoveEvent  BY <1>34 DEF RemoveEvent, Calls
<1>35. CASE UNCHANGED vars  BY <1>35 DEF vars
<1>36. QED
  BY <1>1, <1>2, <1>3, <1>4, <1>5, <1>6, <1>7, <1>8, <1>9, <1>10, <1>11,
     <1>12, <1>13, <1>14, <1>15, <1>16, <1>17, <1>18, <1>19, <1>20, <1>21,
     <1>22, <1>23, <1>24, <1>25, <1>26, <1>27, <1>28, <1>29, <1>30, <1>31,
     <1>32, <1>33, <1>34, <1>35
  DEF Next

(***************************************************************************)
(* The callback list                                                       *)
(***************************************************************************)
(* A callback that leaves the list leaves the others in their order, and   *)
(* the sketch's leaves the station's where it is.                          *)
LEMMA Removed ==
  ASSUME NEW s \in Seq(Callbacks), Unique(s), StationFirst(s), NEW c, Contains(s, c),
         NEW r, r = RemoveFirst(s, c)
  PROVE  /\ r \in Seq(Callbacks) /\ Unique(r) /\ StationFirst(r)
         /\ \A d : Contains(r, d) <=> Contains(s, d) /\ d # c
         /\ c = "user" =>
              \A p : p \in 1 .. Len(r) /\ r[p] = "sta" <=> p \in 1 .. Len(s) /\ s[p] = "sta"
<1>1. PICK k \in 1 .. Len(s) : s[k] = c
  BY DEF Contains
<1>2. Len(s) \in Nat
  BY LenProperties
<1>3. /\ r \in Seq(Callbacks) /\ Len(r) = Len(s) - 1
      /\ \A j \in 1 .. Len(s) - 1 : r[j] = IF j < k THEN s[j] ELSE s[j + 1]
  <2>1. \A j \in 1 .. Len(s) : s[j] = s[k] => j = k
    BY DEF Unique
  <2>2. QED
    BY <1>1, <2>1, Erased
<1> DEFINE Old(j) == IF j < k THEN j ELSE j + 1
<1>4. \A j \in 1 .. Len(r) : Old(j) \in 1 .. Len(s) /\ Old(j) # k /\ r[j] = s[Old(j)]
  BY <1>2, <1>3
<1>5. \A i, j \in 1 .. Len(r) : Old(i) < Old(j) => i < j
  BY <1>2, <1>3
<1>6. \A j \in 1 .. Len(s) : j # k => \E i \in 1 .. Len(r) : Old(i) = j /\ i = IF j < k THEN j ELSE j - 1
  <2> SUFFICES ASSUME NEW j \in 1 .. Len(s), j # k
               PROVE  \E i \in 1 .. Len(r) : Old(i) = j /\ i = IF j < k THEN j ELSE j - 1
    OBVIOUS
  <2>1. CASE j < k
    BY <1>2, <1>3, <2>1
  <2>2. CASE ~(j < k)
    <3>1. j - 1 \in 1 .. Len(r) /\ Old(j - 1) = j
      BY <1>2, <1>3, <2>2
    <3>2. QED
      BY <2>2, <3>1
  <2>3. QED
    BY <2>1, <2>2
<1>7. \A i, j \in 1 .. Len(r) : Old(i) = Old(j) => i = j
  BY <1>2, <1>3
<1> HIDE DEF Old
<1>8. Unique(r)
  BY <1>4, <1>7 DEF Unique
<1>9. StationFirst(r)
  BY <1>4, <1>5 DEF StationFirst
<1>10. \A d : Contains(r, d) <=> Contains(s, d) /\ d # c
  <2> TAKE d
  <2>1. ASSUME Contains(r, d) PROVE Contains(s, d) /\ d # c
    <3>1. PICK j \in 1 .. Len(r) : r[j] = d
      BY <2>1 DEF Contains
    <3>2. QED
      BY <1>1, <1>4, <3>1 DEF Contains, Unique
  <2>2. ASSUME Contains(s, d), d # c PROVE Contains(r, d)
    <3>1. PICK j \in 1 .. Len(s) : s[j] = d
      BY <2>2 DEF Contains
    <3>2. PICK i \in 1 .. Len(r) : Old(i) = j
      BY <1>1, <1>6, <2>2, <3>1
    <3>3. QED
      BY <1>4, <3>1, <3>2 DEF Contains
  <2>3. QED
    BY <2>1, <2>2
<1>11. ASSUME c = "user", NEW p
       PROVE  p \in 1 .. Len(r) /\ r[p] = "sta" <=> p \in 1 .. Len(s) /\ s[p] = "sta"
  <2>1. ASSUME p \in 1 .. Len(r), r[p] = "sta" PROVE p \in 1 .. Len(s) /\ s[p] = "sta"
    <3>1. Old(p) \in 1 .. Len(s) /\ s[Old(p)] = "sta"
      BY <1>4, <2>1
    <3>2. Old(p) < k
      BY <1>1, <1>11, <3>1 DEF StationFirst
    <3>3. Old(p) = p
      BY <1>2, <1>3, <2>1, <3>2 DEF Old
    <3>4. QED
      BY <3>1, <3>3
  <2>2. ASSUME p \in 1 .. Len(s), s[p] = "sta" PROVE p \in 1 .. Len(r) /\ r[p] = "sta"
    <3>1. p < k
      BY <1>1, <1>11, <2>2 DEF StationFirst
    <3>2. QED
      BY <1>2, <1>3, <2>2, <3>1
  <2>3. QED
    BY <2>1, <2>2
<1>12. QED
  BY <1>3, <1>8, <1>9, <1>10, <1>11

(* System callbacks go to the front.                                       *)
LEMMA InFront ==
  ASSUME NEW s \in Seq(Callbacks), Unique(s), StationFirst(s),
         NEW t \in Seq(Callbacks), Unique(t), ~Contains(t, "user"),
         \A c : ~(Contains(s, c) /\ Contains(t, c))
  PROVE  /\ t \o s \in Seq(Callbacks) /\ Unique(t \o s) /\ StationFirst(t \o s)
         /\ \A d : Contains(t \o s, d) <=> Contains(t, d) \/ Contains(s, d)
<1>1. /\ t \o s \in Seq(Callbacks) /\ Len(t \o s) = Len(t) + Len(s)
      /\ \A i \in 1 .. Len(t) + Len(s) : (t \o s)[i] = IF i <= Len(t) THEN t[i] ELSE s[i - Len(t)]
  BY ConcatProperties
<1>2. Len(s) \in Nat /\ Len(t) \in Nat
  BY LenProperties
<1> DEFINE u == t \o s
<1> HIDE DEF u
<1>3. \A i \in 1 .. Len(u) :
        \/ i \in 1 .. Len(t) /\ u[i] = t[i] /\ Contains(t, u[i]) /\ ~Contains(s, u[i])
        \/ /\ i > Len(t) /\ i - Len(t) \in 1 .. Len(s) /\ u[i] = s[i - Len(t)]
           /\ Contains(s, u[i]) /\ ~Contains(t, u[i])
  <2> TAKE i \in 1 .. Len(u)
  <2>1. CASE i <= Len(t)
    <3>1. i \in 1 .. Len(t) /\ u[i] = t[i]
      BY <1>1, <1>2, <2>1 DEF u
    <3>2. QED
      BY <3>1 DEF Contains
  <2>2. CASE ~(i <= Len(t))
    <3>1. i > Len(t) /\ i - Len(t) \in 1 .. Len(s) /\ u[i] = s[i - Len(t)]
      BY <1>1, <1>2, <2>2 DEF u
    <3>2. QED
      BY <3>1 DEF Contains
  <2>3. QED
    BY <2>1, <2>2
<1>4. Unique(u)
  <2> SUFFICES ASSUME NEW i \in 1 .. Len(u), NEW j \in 1 .. Len(u), u[i] = u[j]
               PROVE  i = j
    BY DEF Unique
  <2>1. CASE Contains(t, u[i])
    BY <1>3, <2>1 DEF Unique
  <2>2. CASE ~Contains(t, u[i])
    <3>1. i - Len(t) = j - Len(t)
      BY <1>3, <2>2 DEF Unique
    <3>2. Len(u) = Len(t) + Len(s)
      BY <1>1 DEF u
    <3>3. QED
      BY <1>2, <3>1, <3>2
  <2>3. QED
    BY <2>1, <2>2
<1>5. StationFirst(u)
  <2> SUFFICES ASSUME NEW i \in 1 .. Len(u), NEW j \in 1 .. Len(u), u[i] = "sta", u[j] = "user"
               PROVE  i < j
    BY DEF StationFirst
  <2>1. j > Len(t) /\ j - Len(t) \in 1 .. Len(s) /\ s[j - Len(t)] = "user"
    BY <1>3
  <2>2. CASE i \in 1 .. Len(t)
    BY <1>2, <2>1, <2>2
  <2>3. CASE i - Len(t) \in 1 .. Len(s) /\ s[i - Len(t)] = "sta"
    <3>1. i - Len(t) < j - Len(t)
      BY <2>1, <2>3 DEF StationFirst
    <3>2. QED
      BY <1>2, <3>1
  <2>4. QED
    BY <1>3, <2>2, <2>3
<1>6. \A d : Contains(u, d) <=> Contains(t, d) \/ Contains(s, d)
  <2> TAKE d
  <2>1. ASSUME Contains(u, d) PROVE Contains(t, d) \/ Contains(s, d)
    BY <1>3, <2>1 DEF Contains
  <2>2. ASSUME Contains(t, d) PROVE Contains(u, d)
    <3>1. PICK i \in 1 .. Len(t) : t[i] = d
      BY <2>2 DEF Contains
    <3>2. i \in 1 .. Len(u) /\ u[i] = d
      BY <1>1, <1>2, <3>1 DEF u
    <3>3. QED
      BY <3>2 DEF Contains
  <2>3. ASSUME Contains(s, d) PROVE Contains(u, d)
    <3>1. PICK i \in 1 .. Len(s) : s[i] = d
      BY <2>3 DEF Contains
    <3>2. i + Len(t) \in 1 .. Len(t) + Len(s) /\ ~(i + Len(t) <= Len(t)) /\ (i + Len(t)) - Len(t) = i
      BY <1>2
    <3>3. i + Len(t) \in 1 .. Len(u) /\ u[i + Len(t)] = d
      BY <1>1, <3>1, <3>2 DEF u
    <3>4. QED
      BY <3>3 DEF Contains
  <2>4. QED
    BY <2>1, <2>2, <2>3
<1>7. QED
  BY <1>1, <1>4, <1>5, <1>6 DEF u

(* The sketch's callback goes to the end.                                  *)
LEMMA AtTheEnd ==
  ASSUME NEW s \in Seq(Callbacks), Unique(s), StationFirst(s), ~Contains(s, "user"),
         NEW u, u = Append(s, "user")
  PROVE  /\ u \in Seq(Callbacks) /\ Unique(u) /\ StationFirst(u)
         /\ \A d : Contains(u, d) <=> Contains(s, d) \/ d = "user"
         /\ \A p : p \in 1 .. Len(u) /\ u[p] = "sta" <=> p \in 1 .. Len(s) /\ s[p] = "sta"
<1>1. /\ u \in Seq(Callbacks) /\ Len(u) = Len(s) + 1 /\ u[Len(s) + 1] = "user"
      /\ \A i \in 1 .. Len(s) : u[i] = s[i]
  <2>1. "user" \in Callbacks
    BY DEF Callbacks
  <2>2. QED
    BY <2>1, AppendProperties
<1>2. Len(s) \in Nat
  BY LenProperties
<1>3. \A i \in 1 .. Len(u) :
        \/ i \in 1 .. Len(s) /\ u[i] = s[i] /\ u[i] # "user"
        \/ i = Len(s) + 1 /\ u[i] = "user"
  BY <1>1, <1>2 DEF Contains
<1>4. Unique(u)
  BY <1>3 DEF Unique
<1>5. StationFirst(u)
  BY <1>2, <1>3 DEF StationFirst
<1>6. \A d : Contains(u, d) <=> Contains(s, d) \/ d = "user"
  <2> TAKE d
  <2>1. ASSUME Contains(s, d) PROVE Contains(u, d)
    <3>1. PICK i \in 1 .. Len(s) : s[i] = d
      BY <2>1 DEF Contains
    <3>2. i \in 1 .. Len(u) /\ u[i] = d
      BY <1>1, <1>2, <3>1
    <3>3. QED
      BY <3>2 DEF Contains
  <2>2. Contains(u, "user")
    <3>1. Len(s) + 1 \in 1 .. Len(u)
      BY <1>1, <1>2
    <3>2. QED
      BY <1>1, <3>1 DEF Contains
  <2>3. ASSUME Contains(u, d) PROVE Contains(s, d) \/ d = "user"
    BY <1>3, <2>3 DEF Contains
  <2>4. QED
    BY <2>1, <2>2, <2>3
<1>7. \A p : p \in 1 .. Len(u) /\ u[p] = "sta" <=> p \in 1 .. Len(s) /\ s[p] = "sta"
  BY <1>1, <1>2, <1>3
<1>8. QED
  BY <1>1, <1>4, <1>5, <1>6, <1>7

(***************************************************************************)
(* The steps of the interface, the list and the walk                       *)
(***************************************************************************)
(* What exists at which step.                                              *)
LEMMA CallsStep ==
  ASSUME ScalarType, CallsInv, [Next]_vars
  PROVE  CallsInv'
<1> USE DEF ScalarType, CallsInv, Down, driver, walk, sketch, interface,
    state
<1>1. CASE Joins  BY <1>1 DEF Joins
<1>2. CASE Addressed  BY <1>2 DEF Addressed
<1>3. CASE LosesAddress  BY <1>3 DEF LosesAddress
<1>4. CASE ReportsLoss  BY <1>4 DEF ReportsLoss
<1>5. ASSUME NEW reason \in Reasons, Loses(reason) PROVE CallsInv'
  BY <1>5 DEF Loses, Reasons
<1>6. CASE Ignored  BY <1>6 DEF Ignored
<1>7. CASE SystemEvent
  <2>1. UNCHANGED <<hooked, netif, app, link, wanted, ip, owes>>
    BY <1>7 DEF SystemEvent
  <2>2. ~netif' => bits' = {} \/ leftover'
    BY <1>7 DEF SystemEvent
  <2>3. QED
    BY <2>1, <2>2
<1>8. CASE Posts  BY <1>8 DEF Posts
<1>9. CASE TakeEvent  BY <1>9 DEF TakeEvent
<1>10. CASE OtherCallback  BY <1>10 DEF OtherCallback, At
<1>11. CASE EndWalk  BY <1>11 DEF EndWalk
<1>12. CASE StationCallback  BY <1>12 DEF StationCallback, At
<1>13. CASE CallbackLeaves  BY <1>13 DEF CallbackLeaves, Leave, DriverLeaves
<1>14. CASE CallbackTests  BY <1>14 DEF CallbackTests, Returns
<1>15. CASE CallbackConfigures  BY <1>15 DEF CallbackConfigures, Configures, Returns
<1>16. CASE CallbackJoins  BY <1>16 DEF CallbackJoins, DriverJoins, Returns
<1>17. CASE Begin  BY <1>17 DEF Begin, Calls, Go
<1>18. CASE Enables  BY <1>18 DEF Enables, Go
<1>19. CASE Starts  BY <1>19 DEF Starts, Go
<1>20. CASE Connect  BY <1>20 DEF Connect, Go, Calls
<1>21. CASE Configure  BY <1>21 DEF Configure, Configures, Go
<1>22. CASE Order  BY <1>22 DEF Order, DriverJoins, Go
<1>23. CASE Disconnect  BY <1>23 DEF Disconnect, Leave, DriverLeaves, Calls
<1>24. CASE Reconnect  BY <1>24 DEF Reconnect, Leave, DriverLeaves, Go, Calls
<1>25. CASE Rejoins  BY <1>25 DEF Rejoins, DriverJoins, Go
<1>26. CASE Stops  BY <1>26 DEF Stops, Calls, Go
<1>27. CASE Deinits  BY <1>27 DEF Deinits, Go
<1>28. CASE Unlists  BY <1>28 DEF Unlists, Go
<1>29. CASE Destroys  BY <1>29 DEF Destroys, Go
<1>30. CASE Unhooks  BY <1>30 DEF Unhooks, Go
<1>31. CASE SoftApOn  BY <1>31 DEF SoftApOn, Calls
<1>32. CASE SoftApOff  BY <1>32 DEF SoftApOff, Calls
<1>33. CASE OnEvent  BY <1>33 DEF OnEvent, Calls
<1>34. CASE RemoveEvent  BY <1>34 DEF RemoveEvent, Calls
<1>35. CASE UNCHANGED vars  BY <1>35 DEF vars
<1>36. QED
  BY <1>1, <1>2, <1>3, <1>4, <1>5, <1>6, <1>7, <1>8, <1>9, <1>10, <1>11,
     <1>12, <1>13, <1>14, <1>15, <1>16, <1>17, <1>18, <1>19, <1>20, <1>21,
     <1>22, <1>23, <1>24, <1>25, <1>26, <1>27, <1>28, <1>29, <1>30, <1>31,
     <1>32, <1>33, <1>34, <1>35
  DEF Next

(* The list.                                                               *)
LEMMA ListStep ==
  ASSUME ListInv, CallsInv, [Next]_vars
  PROVE  ListInv'
<1> USE DEF ListInv, driver, walk, sketch, interface, state
<1>1. CASE Joins  BY <1>1 DEF Joins
<1>2. CASE Addressed  BY <1>2 DEF Addressed
<1>3. CASE LosesAddress  BY <1>3 DEF LosesAddress
<1>4. CASE ReportsLoss  BY <1>4 DEF ReportsLoss
<1>5. ASSUME NEW reason \in Reasons, Loses(reason) PROVE ListInv'  BY <1>5 DEF Loses
<1>6. CASE Ignored  BY <1>6 DEF Ignored
<1>7. CASE SystemEvent  BY <1>7 DEF SystemEvent
<1>8. CASE Posts  BY <1>8 DEF Posts
<1>9. CASE TakeEvent  BY <1>9 DEF TakeEvent
<1>10. CASE OtherCallback  BY <1>10 DEF OtherCallback, At
<1>11. CASE EndWalk  BY <1>11 DEF EndWalk
<1>12. CASE StationCallback  BY <1>12 DEF StationCallback, At
<1>13. CASE CallbackLeaves  BY <1>13 DEF CallbackLeaves, Leave, DriverLeaves
<1>14. CASE CallbackTests  BY <1>14 DEF CallbackTests, Returns
<1>15. CASE CallbackConfigures  BY <1>15 DEF CallbackConfigures, Configures, Returns
<1>16. CASE CallbackJoins  BY <1>16 DEF CallbackJoins, DriverJoins, Returns
<1>17. CASE Begin
  <2>1. UNCHANGED <<list, netif, hooked>> /\ (app' = "destroy" <=> app = "destroy")
    BY <1>17 DEF Begin, Calls, Go
  <2>2. QED
    BY <2>1
<1>18. CASE Enables
  <2>1. netif' /\ hooked' /\ app' = "start" /\ list' = <<"sta", "generic">> \o list
    BY <1>18 DEF Enables, Go
  <2>2. ~netif /\ ~hooked
    BY <1>18 DEF Enables, CallsInv
  <2>3. /\ <<"sta", "generic">> \in Seq(Callbacks) /\ Unique(<<"sta", "generic">>)
        /\ \A c : Contains(<<"sta", "generic">>, c) <=> c \in {"sta", "generic"}
    BY DEF Callbacks, Unique, Contains
  <2> DEFINE t == <<"sta", "generic">>
  <2> HIDE DEF t
  <2>4. ~Contains(t, "user") /\ \A c : ~(Contains(list, c) /\ Contains(t, c))
    BY <2>2, <2>3 DEF t
  <2>5. /\ list' \in Seq(Callbacks) /\ Unique(list') /\ StationFirst(list')
        /\ \A c : Contains(list', c) <=> c \in {"sta", "generic"} \/ Contains(list, c)
    BY <2>1, <2>3, <2>4, InFront DEF t
  <2>6. QED
    BY <2>1, <2>5
<1>19. CASE Starts
  <2>1. UNCHANGED <<list, netif, hooked>> /\ (app' = "destroy" <=> app = "destroy")
    BY <1>19 DEF Starts, Go
  <2>2. QED
    BY <2>1
<1>20. CASE Connect
  <2>1. UNCHANGED <<list, netif, hooked>> /\ (app' = "destroy" <=> app = "destroy")
    BY <1>20 DEF Connect, Go, Calls
  <2>2. QED
    BY <2>1
<1>21. CASE Configure
  <2>1. UNCHANGED <<list, netif, hooked>> /\ (app' = "destroy" <=> app = "destroy")
    BY <1>21 DEF Configure, Configures, Go
  <2>2. QED
    BY <2>1
<1>22. CASE Order
  <2>1. UNCHANGED <<list, netif, hooked>> /\ (app' = "destroy" <=> app = "destroy")
    BY <1>22 DEF Order, DriverJoins, Go
  <2>2. QED
    BY <2>1
<1>23. CASE Disconnect  BY <1>23 DEF Disconnect, Leave, DriverLeaves, Calls
<1>24. CASE Reconnect
  <2>1. UNCHANGED <<list, netif, hooked>> /\ (app' = "destroy" <=> app = "destroy")
    BY <1>24 DEF Reconnect, Leave, DriverLeaves, Go, Calls
  <2>2. QED
    BY <2>1
<1>25. CASE Rejoins
  <2>1. UNCHANGED <<list, netif, hooked>> /\ (app' = "destroy" <=> app = "destroy")
    BY <1>25 DEF Rejoins, DriverJoins, Go
  <2>2. QED
    BY <2>1
<1>26. CASE Stops
  <2>1. UNCHANGED <<list, netif, hooked>> /\ (app' = "destroy" <=> app = "destroy")
    BY <1>26 DEF Stops, Calls, Go
  <2>2. QED
    BY <2>1
<1>27. CASE Deinits
  <2>1. UNCHANGED <<list, netif, hooked>> /\ (app' = "destroy" <=> app = "destroy")
    BY <1>27 DEF Deinits, Go
  <2>2. QED
    BY <2>1
<1>28. CASE Unlists
  <2>1. UNCHANGED <<netif, hooked>> /\ app' = "destroy" /\ list' = RemoveFirst(list, "sta")
    BY <1>28 DEF Unlists, Go
  <2>2. Contains(list, "sta")
    BY <1>28 DEF Unlists, CallsInv, Down
  <2>3. QED
    BY <2>1, <2>2, Removed
<1>29. CASE Destroys
  <2>1. UNCHANGED <<list, hooked>> /\ ~netif'
    BY <1>29 DEF Destroys
  <2>2. ~Contains(list, "sta")
    BY <1>29 DEF Destroys
  <2>3. QED
    BY <2>1, <2>2
<1>30. CASE Unhooks
  <2>1. UNCHANGED netif /\ ~hooked' /\ app' # "destroy" /\ list' = RemoveFirst(list, "generic")
    BY <1>30 DEF Unhooks, Go
  <2>2. hooked /\ ~netif
    BY <1>30 DEF Unhooks, CallsInv
  <2>3. QED
    BY <2>1, <2>2, Removed
<1>31. CASE SoftApOn
  <2>1. UNCHANGED <<netif, hooked, app>> /\ list' = <<"ap">> \o list /\ ~Contains(list, "ap")
    BY <1>31 DEF SoftApOn
  <2>2. /\ <<"ap">> \in Seq(Callbacks) /\ Unique(<<"ap">>)
        /\ \A c : Contains(<<"ap">>, c) <=> c = "ap"
    BY DEF Callbacks, Unique, Contains
  <2> DEFINE t == <<"ap">>
  <2> HIDE DEF t
  <2>3. ~Contains(t, "user") /\ \A c : ~(Contains(list, c) /\ Contains(t, c))
    BY <2>1, <2>2 DEF t
  <2>4. /\ list' \in Seq(Callbacks) /\ Unique(list') /\ StationFirst(list')
        /\ \A c : Contains(list', c) <=> c = "ap" \/ Contains(list, c)
    BY <2>1, <2>2, <2>3, InFront DEF t
  <2>5. QED
    BY <2>1, <2>4
<1>32. CASE SoftApOff
  <2>1. /\ UNCHANGED <<netif, hooked, app>>
        /\ Contains(list, "ap") /\ list' = RemoveFirst(list, "ap")
    BY <1>32 DEF SoftApOff
  <2>2. QED
    BY <2>1, Removed
<1>33. CASE OnEvent
  <2>1. UNCHANGED <<netif, hooked, app>> /\ list' = Append(list, "user") /\ ~Contains(list, "user")
    BY <1>33 DEF OnEvent
  <2>2. QED
    BY <2>1, AtTheEnd
<1>34. CASE RemoveEvent
  <2>1. UNCHANGED <<netif, hooked, app>> /\ list' = RemoveFirst(list, "user") /\ Contains(list, "user")
    BY <1>34 DEF RemoveEvent
  <2>2. QED
    BY <2>1, Removed
<1>35. CASE UNCHANGED vars  BY <1>35 DEF vars
<1>36. QED
  BY <1>1, <1>2, <1>3, <1>4, <1>5, <1>6, <1>7, <1>8, <1>9, <1>10, <1>11,
     <1>12, <1>13, <1>14, <1>15, <1>16, <1>17, <1>18, <1>19, <1>20, <1>21,
     <1>22, <1>23, <1>24, <1>25, <1>26, <1>27, <1>28, <1>29, <1>30, <1>31,
     <1>32, <1>33, <1>34, <1>35
  DEF Next

(* The walk.                                                               *)
LEMMA WalkStep ==
  ASSUME ScalarType, ListInv, CallsInv, ReplyInv, WalkInv,
    [Next]_vars
  PROVE  WalkInv'
<1> USE DEF WalkInv, Passed, driver, walk, sketch, interface, state
<1>1. CASE Joins  BY <1>1 DEF Joins
<1>2. CASE Addressed  BY <1>2 DEF Addressed
<1>3. CASE LosesAddress  BY <1>3 DEF LosesAddress
<1>4. CASE ReportsLoss  BY <1>4 DEF ReportsLoss
<1>5. ASSUME NEW reason \in Reasons, Loses(reason) PROVE WalkInv'  BY <1>5 DEF Loses
<1>6. CASE Ignored  BY <1>6 DEF Ignored
<1>7. CASE SystemEvent  BY <1>7 DEF SystemEvent
<1>8. CASE Posts  BY <1>8 DEF Posts
<1>9. CASE TakeEvent
  <2>1. reply = "none" /\ UNCHANGED <<reply, list>> /\ index' = 1 /\ heard' = 0
    BY <1>9 DEF TakeEvent, ReplyInv
  <2>2. QED
    BY <2>1
<1>10. CASE OtherCallback
  <2>1. reply = "none" /\ index' = index + 1 /\ list[index] # "sta" /\ index \in Nat
    BY <1>10 DEF OtherCallback, At, ScalarType
  <2>2. UNCHANGED <<list, event, fresh, heard, reply>>
    BY <1>10 DEF OtherCallback
  <2>3. \A p \in 1 .. Len(list) : list[p] = "sta" => (Passed(p)' <=> Passed(p))
    BY <2>1, <2>2
  <2>4. QED
    BY <2>2, <2>3
<1>11. CASE EndWalk
  <2>1. event' = <<>>
    BY <1>11 DEF EndWalk
  <2>2. QED
    BY <2>1
<1>12. CASE StationCallback
  <2>1. /\ event # <<>> /\ reply = "none" /\ index \in 1 .. Len(list) /\ list[index] = "sta"
        /\ heard' = heard + 1 /\ UNCHANGED <<list, event, fresh>>
    BY <1>12 DEF StationCallback, At, ScalarType
  <2>2. \/ reply' = "leave" /\ index' = index
        \/ reply' = "none" /\ index' = index + 1
    BY <1>12, <2>1 DEF StationCallback
  <2>3. \A p \in 1 .. Len(list) : list[p] = "sta" => p = index
    BY <2>1 DEF ListInv, Unique
  <2>4. Contains(list, "sta")
    BY <2>1 DEF Contains
  <2>5. CASE fresh
    <3>1. heard = 0 /\ heard' = 1
      BY <2>1, <2>5
    <3>2. \A p \in 1 .. Len(list) : list[p] = "sta" => Passed(p)'
      <4> SUFFICES ASSUME NEW p \in 1 .. Len(list), list[p] = "sta" PROVE Passed(p)'
        OBVIOUS
      <4>1. p = index /\ index \in Nat
        BY <2>3 DEF ScalarType
      <4>2. QED
        BY <2>2, <4>1
    <3>3. QED
      BY <2>1, <2>4, <3>1, <3>2
  <2>6. QED
    BY <2>1, <2>5
<1>13. CASE CallbackLeaves
  <2>1. reply = "leave" /\ reply' = "join" /\ UNCHANGED <<list, event, fresh, heard, index>>
    BY <1>13 DEF CallbackLeaves
  <2>2. QED
    BY <2>1
<1>14. CASE CallbackTests
  <2>1. /\ reply # "none" /\ index \in Nat
        /\ (reply' # "none" /\ index' = index) \/ (reply' = "none" /\ index' = index + 1)
    BY <1>14 DEF CallbackTests, Returns, ScalarType
  <2>2. UNCHANGED <<list, event, fresh, heard>>
    BY <1>14 DEF CallbackTests
  <2>3. \A p \in 1 .. Len(list) : Passed(p)' <=> Passed(p)
    BY <2>1, <2>2
  <2>4. QED
    BY <2>2, <2>3
<1>15. CASE CallbackConfigures
  <2>1. /\ reply # "none" /\ index \in Nat
        /\ (reply' # "none" /\ index' = index) \/ (reply' = "none" /\ index' = index + 1)
    BY <1>15 DEF CallbackConfigures, Returns, ScalarType
  <2>2. UNCHANGED <<list, event, fresh, heard>>
    BY <1>15 DEF CallbackConfigures
  <2>3. \A p \in 1 .. Len(list) : Passed(p)' <=> Passed(p)
    BY <2>1, <2>2
  <2>4. QED
    BY <2>2, <2>3
<1>16. CASE CallbackJoins
  <2>1. /\ reply # "none" /\ index \in Nat
        /\ (reply' # "none" /\ index' = index) \/ (reply' = "none" /\ index' = index + 1)
    BY <1>16 DEF CallbackJoins, Returns, ScalarType
  <2>2. UNCHANGED <<list, event, fresh, heard>>
    BY <1>16 DEF CallbackJoins
  <2>3. \A p \in 1 .. Len(list) : Passed(p)' <=> Passed(p)
    BY <2>1, <2>2
  <2>4. QED
    BY <2>2, <2>3
<1>17. CASE Begin  BY <1>17 DEF Begin, Calls, Go
<1>18. CASE Enables  BY <1>18 DEF Enables, Go
<1>19. CASE Starts  BY <1>19 DEF Starts, Go
<1>20. CASE Connect  BY <1>20 DEF Connect, Go, Calls
<1>21. CASE Configure  BY <1>21 DEF Configure, Configures, Go
<1>22. CASE Order  BY <1>22 DEF Order, DriverJoins, Go
<1>23. CASE Disconnect  BY <1>23 DEF Disconnect, Leave, DriverLeaves, Calls
<1>24. CASE Reconnect  BY <1>24 DEF Reconnect, Leave, DriverLeaves, Go, Calls
<1>25. CASE Rejoins  BY <1>25 DEF Rejoins, DriverJoins, Go
<1>26. CASE Stops  BY <1>26 DEF Stops, Calls, Go
<1>27. CASE Deinits  BY <1>27 DEF Deinits, Go
<1>28. CASE Unlists  BY <1>28 DEF Unlists, Go
<1>29. CASE Destroys  BY <1>29 DEF Destroys, Go
<1>30. CASE Unhooks
  <2>1. /\ UNCHANGED <<event, fresh, heard, index, reply>>
        /\ ~Contains(list, "sta") /\ list' = RemoveFirst(list, "generic") /\ Contains(list, "generic")
    BY <1>30 DEF Unhooks, CallsInv, ListInv
  <2>2. ~Contains(list', "sta")
    BY <2>1, Removed DEF ListInv
  <2>3. QED
    BY <2>1, <2>2 DEF Contains
<1>31. CASE SoftApOn  BY <1>31 DEF SoftApOn, Calls
<1>32. CASE SoftApOff  BY <1>32 DEF SoftApOff, Calls
<1>33. CASE OnEvent
  <2>1. /\ UNCHANGED <<event, fresh, heard, index, reply>>
        /\ list' = Append(list, "user") /\ ~Contains(list, "user")
    BY <1>33 DEF OnEvent
  <2>2. /\ Contains(list', "sta") <=> Contains(list, "sta")
        /\ \A p : p \in 1 .. Len(list') /\ list'[p] = "sta" <=> p \in 1 .. Len(list) /\ list[p] = "sta"
    BY <2>1, AtTheEnd DEF ListInv
  <2>3. QED
    BY <2>1, <2>2
<1>34. CASE RemoveEvent
  <2>1. /\ UNCHANGED <<event, fresh, heard, index, reply>>
        /\ list' = RemoveFirst(list, "user") /\ Contains(list, "user")
    BY <1>34 DEF RemoveEvent
  <2>2. /\ Contains(list', "sta") <=> Contains(list, "sta")
        /\ \A p : p \in 1 .. Len(list') /\ list'[p] = "sta" <=> p \in 1 .. Len(list) /\ list[p] = "sta"
    BY <2>1, Removed DEF ListInv
  <2>3. QED
    BY <2>1, <2>2
<1>35. CASE UNCHANGED vars  BY <1>35 DEF vars
<1>36. QED
  BY <1>1, <1>2, <1>3, <1>4, <1>5, <1>6, <1>7, <1>8, <1>9, <1>10, <1>11,
     <1>12, <1>13, <1>14, <1>15, <1>16, <1>17, <1>18, <1>19, <1>20, <1>21,
     <1>22, <1>23, <1>24, <1>25, <1>26, <1>27, <1>28, <1>29, <1>30, <1>31,
     <1>32, <1>33, <1>34, <1>35
  DEF Next

(* The reply.                                                              *)
LEMMA ReplyStep ==
  ASSUME ScalarType, ReplyInv, [Next]_vars
  PROVE  ReplyInv'
<1> USE DEF ReplyInv, driver, walk, sketch, interface, state
<1>1. CASE Joins  BY <1>1 DEF Joins
<1>2. CASE Addressed  BY <1>2 DEF Addressed
<1>3. CASE LosesAddress  BY <1>3 DEF LosesAddress
<1>4. CASE ReportsLoss  BY <1>4 DEF ReportsLoss
<1>5. ASSUME NEW reason \in Reasons, Loses(reason) PROVE ReplyInv'  BY <1>5 DEF Loses
<1>6. CASE Ignored  BY <1>6 DEF Ignored
<1>7. CASE SystemEvent  BY <1>7 DEF SystemEvent
<1>8. CASE Posts  BY <1>8 DEF Posts
<1>9. CASE TakeEvent  BY <1>9 DEF TakeEvent
<1>10. CASE OtherCallback  BY <1>10 DEF OtherCallback, At
<1>11. CASE EndWalk  BY <1>11 DEF EndWalk
<1>12. CASE StationCallback
  <2>1. event # <<>> /\ reply = "none" /\ heard' = heard + 1 /\ heard \in Nat /\ UNCHANGED event
    BY <1>12 DEF StationCallback, At, ScalarType
  <2>2. reply' # "none" => Reconnects(event[1])
    BY <1>12, <2>1 DEF StationCallback
  <2>3. Reconnects(event[1]) => Hot(event[1])
    BY DEF Reconnects, Hot
  <2>4. QED
    BY <2>1, <2>2, <2>3 DEF Hot
<1>13. CASE CallbackLeaves  BY <1>13 DEF CallbackLeaves, Leave, DriverLeaves
<1>14. CASE CallbackTests  BY <1>14 DEF CallbackTests, Returns
<1>15. CASE CallbackConfigures  BY <1>15 DEF CallbackConfigures, Configures, Returns
<1>16. CASE CallbackJoins  BY <1>16 DEF CallbackJoins, DriverJoins, Returns
<1>17. CASE Begin  BY <1>17 DEF Begin, Calls, Go
<1>18. CASE Enables  BY <1>18 DEF Enables, Go
<1>19. CASE Starts  BY <1>19 DEF Starts, Go
<1>20. CASE Connect  BY <1>20 DEF Connect, Go, Calls
<1>21. CASE Configure  BY <1>21 DEF Configure, Configures, Go
<1>22. CASE Order  BY <1>22 DEF Order, DriverJoins, Go
<1>23. CASE Disconnect  BY <1>23 DEF Disconnect, Leave, DriverLeaves, Calls
<1>24. CASE Reconnect  BY <1>24 DEF Reconnect, Leave, DriverLeaves, Go, Calls
<1>25. CASE Rejoins  BY <1>25 DEF Rejoins, DriverJoins, Go
<1>26. CASE Stops  BY <1>26 DEF Stops, Calls, Go
<1>27. CASE Deinits  BY <1>27 DEF Deinits, Go
<1>28. CASE Unlists  BY <1>28 DEF Unlists, Go
<1>29. CASE Destroys  BY <1>29 DEF Destroys, Go
<1>30. CASE Unhooks  BY <1>30 DEF Unhooks, Go
<1>31. CASE SoftApOn  BY <1>31 DEF SoftApOn, Calls
<1>32. CASE SoftApOff  BY <1>32 DEF SoftApOff, Calls
<1>33. CASE OnEvent  BY <1>33 DEF OnEvent, Calls
<1>34. CASE RemoveEvent  BY <1>34 DEF RemoveEvent, Calls
<1>35. CASE UNCHANGED vars  BY <1>35 DEF vars
<1>36. QED
  BY <1>1, <1>2, <1>3, <1>4, <1>5, <1>6, <1>7, <1>8, <1>9, <1>10, <1>11,
     <1>12, <1>13, <1>14, <1>15, <1>16, <1>17, <1>18, <1>19, <1>20, <1>21,
     <1>22, <1>23, <1>24, <1>25, <1>26, <1>27, <1>28, <1>29, <1>30, <1>31,
     <1>32, <1>33, <1>34, <1>35
  DEF Next

(***************************************************************************)
(* The events on their way                                                 *)
(***************************************************************************)
(* s with e behind it is u.                                                *)
Behind(u, s, e) ==
  /\ s \in Seq(Event) /\ u \in Seq(Event) /\ e \in Event /\ Len(u) = Len(s) + 1 /\ u[Len(u)] = e
  /\ \A i \in 1 .. Len(s) : i \in 1 .. Len(u) /\ u[i] = s[i]
  /\ \A i \in 1 .. Len(u) : i \in 1 .. Len(s) \/ i = Len(u)
  /\ Len(u) \in 1 .. Len(u) /\ Len(u) \in Nat /\ \A i \in 1 .. Len(s) : i < Len(u)

(* s with e ahead of it is u.                                              *)
Ahead(u, e, s) ==
  /\ s \in Seq(Event) /\ u \in Seq(Event) /\ e \in Event /\ Len(u) = Len(s) + 1
  /\ 1 \in 1 .. Len(u) /\ u[1] = e
  /\ \A i \in 1 .. Len(s) : i + 1 \in 1 .. Len(u) /\ u[i + 1] = s[i]
  /\ \A i \in 1 .. Len(u) : i = 1 \/ \E j \in 1 .. Len(s) : i = j + 1 /\ u[i] = s[j]

LEMMA AppendIsBehind ==
  ASSUME NEW s \in Seq(Event), NEW e \in Event
  PROVE  Behind(Append(s, e), s, e)
<1> DEFINE u == Append(s, e)
<1>1. u \in Seq(Event) /\ Len(u) = Len(s) + 1 /\ u[Len(s) + 1] = e /\ \A i \in 1 .. Len(s) : u[i] = s[i]
  BY AppendProperties
<1>2. Len(s) \in Nat
  BY LenProperties
<1> HIDE DEF u
<1>3. Behind(u, s, e)
  BY <1>1, <1>2 DEF Behind
<1>4. QED
  BY <1>3 DEF u

LEMMA ConcatIsAhead ==
  ASSUME NEW s \in Seq(Event), NEW e \in Event
  PROVE  Ahead(<<e>> \o s, e, s)
<1> DEFINE u == <<e>> \o s
<1>1. <<e>> \in Seq(Event) /\ Len(<<e>>) = 1 /\ <<e>>[1] = e
  OBVIOUS
<1>2. /\ u \in Seq(Event) /\ Len(u) = 1 + Len(s)
      /\ \A i \in 1 .. 1 + Len(s) : u[i] = IF i <= 1 THEN e ELSE s[i - 1]
  BY <1>1, ConcatProperties
<1>3. Len(s) \in Nat
  BY LenProperties
<1> HIDE DEF u
<1>4. 1 \in 1 .. Len(u) /\ u[1] = e
  BY <1>2, <1>3
<1>5. \A i \in 1 .. Len(s) : i + 1 \in 1 .. Len(u) /\ u[i + 1] = s[i]
  <2> TAKE i \in 1 .. Len(s)
  <2>1. i + 1 \in 1 .. 1 + Len(s) /\ ~(i + 1 <= 1) /\ (i + 1) - 1 = i
    BY <1>3
  <2>2. QED
    BY <1>2, <2>1
<1>6. \A i \in 1 .. Len(u) : i = 1 \/ \E j \in 1 .. Len(s) : i = j + 1 /\ u[i] = s[j]
  <2> TAKE i \in 1 .. Len(u)
  <2>1. CASE i # 1
    <3>1. i - 1 \in 1 .. Len(s) /\ i = (i - 1) + 1 /\ i \in 1 .. 1 + Len(s) /\ ~(i <= 1)
      BY <1>2, <1>3, <2>1
    <3>2. QED
      BY <1>2, <3>1
  <2>2. QED
    BY <2>1
<1>7. u \in Seq(Event) /\ Len(u) = Len(s) + 1
  BY <1>2, <1>3
<1>8. Ahead(u, e, s)
  BY Zenon, <1>4, <1>5, <1>6, <1>7 DEF Ahead
<1>9. QED
  BY <1>8 DEF u

LEMMA HeadIsAhead ==
  ASSUME NEW u \in Seq(Event), u # <<>>
  PROVE  Ahead(u, Head(u), Tail(u)) /\ u = <<Head(u)>> \o Tail(u)
<1>1. Head(u) \in Event /\ Tail(u) \in Seq(Event) /\ u = <<Head(u)>> \o Tail(u)
  BY HeadTail
<1>2. QED
  BY <1>1, ConcatIsAhead

(* A bit that agrees still does when the driver sends an event that says   *)
(* how it now stands, and when the system task has done the next one.      *)
LEMMA BitBehind ==
  ASSUME NEW s, NEW u, NEW e, Behind(u, s, e), NEW bit, NEW on, NEW up, NEW up2,
         BitAgrees(s, bit, on, up),
         Moves(e, bit) => (SetsBit(e, bit) <=> up2),
         ~Moves(e, bit) => (up2 <=> up)
  PROVE  BitAgrees(u, bit, on, up2)
<1> USE DEF Behind
<1>1. ASSUME \A i \in 1 .. Len(u) : ~Moves(u[i], bit) PROVE on <=> up2
  <2>1. ~Moves(e, bit) /\ \A i \in 1 .. Len(s) : ~Moves(s[i], bit)
    BY <1>1
  <2>2. QED
    BY <2>1 DEF BitAgrees
<1>2. ASSUME NEW i \in 1 .. Len(u), Moves(u[i], bit), \A j \in 1 .. Len(u) : j > i => ~Moves(u[j], bit)
      PROVE  SetsBit(u[i], bit) <=> up2
  <2>1. CASE i = Len(u)
    BY <1>2, <2>1
  <2>2. CASE i \in 1 .. Len(s)
    <3>1. ~Moves(e, bit)
      BY <1>2, <2>2
    <3>2. \A j \in 1 .. Len(s) : j > i => ~Moves(s[j], bit)
      BY <1>2
    <3>3. SetsBit(s[i], bit) <=> up
      BY <1>2, <2>2, <3>2 DEF BitAgrees
    <3>4. QED
      BY <2>2, <3>1, <3>3
  <2>3. QED
    BY <2>1, <2>2
<1>3. QED
  BY <1>1, <1>2 DEF BitAgrees

LEMMA BitAhead ==
  ASSUME NEW s, NEW u, NEW e, Ahead(u, e, s), NEW bit, NEW on, NEW on2, NEW up,
         BitAgrees(u, bit, on, up), ~(SetsBit(e, bit) /\ ClearsBit(e, bit)),
         on2 <=> SetsBit(e, bit) \/ (on /\ ~ClearsBit(e, bit))
  PROVE  BitAgrees(s, bit, on2, up)
<1> USE DEF Ahead
<1>0. Len(s) \in Nat
  BY LenProperties
<1>1. ASSUME \A i \in 1 .. Len(s) : ~Moves(s[i], bit) PROVE on2 <=> up
  <2>1. CASE Moves(e, bit)
    <3>1. \A j \in 1 .. Len(u) : j > 1 => ~Moves(u[j], bit)
      BY <1>1
    <3>2. SetsBit(e, bit) <=> up
      BY <2>1, <3>1 DEF BitAgrees
    <3>3. QED
      BY <2>1, <3>2 DEF Moves
  <2>2. CASE ~Moves(e, bit)
    <3>1. \A j \in 1 .. Len(u) : ~Moves(u[j], bit)
      BY <1>1, <2>2
    <3>2. QED
      BY <2>2, <3>1 DEF BitAgrees, Moves
  <2>3. QED
    BY <2>1, <2>2
<1>2. ASSUME NEW i \in 1 .. Len(s), Moves(s[i], bit), \A j \in 1 .. Len(s) : j > i => ~Moves(s[j], bit)
      PROVE  SetsBit(s[i], bit) <=> up
  <2>1. \A j \in 1 .. Len(u) : j > i + 1 => ~Moves(u[j], bit)
    <3> SUFFICES ASSUME NEW j \in 1 .. Len(u), j > i + 1 PROVE ~Moves(u[j], bit)
      OBVIOUS
    <3>1. PICK k \in 1 .. Len(s) : j = k + 1 /\ u[j] = s[k]
      BY <1>0
    <3>2. k > i
      BY <1>0, <3>1
    <3>3. QED
      BY <1>2, <3>1, <3>2
  <2>2. i + 1 \in 1 .. Len(u) /\ u[i + 1] = s[i]
    OBVIOUS
  <2>3. QED
    BY <1>2, <2>1, <2>2 DEF BitAgrees
<1>3. QED
  BY <1>1, <1>2 DEF BitAgrees

(* The same of the link's bit.                                             *)
LEMMA LinkBehind ==
  ASSUME NEW s, NEW u, NEW e, Behind(u, s, e), NEW on, NEW up, NEW up2, LinkAgrees(s, on, up),
         e.name = "connected" => up2,
         e.name # "disconnected" => (up => up2)
  PROVE  LinkAgrees(u, on, up2)
<1> USE DEF Behind
<1>1. ASSUME \A i \in 1 .. Len(u) : u[i].name # "disconnected" PROVE on => up2
  <2>1. e.name # "disconnected" /\ \A i \in 1 .. Len(s) : s[i].name # "disconnected"
    BY <1>1
  <2>2. QED
    BY <2>1 DEF LinkAgrees
<1>2. ASSUME NEW i \in 1 .. Len(u), u[i].name = "connected",
             \A j \in 1 .. Len(u) : j > i => u[j].name # "disconnected"
      PROVE  up2
  <2>1. CASE i = Len(u)
    BY <1>2, <2>1
  <2>2. CASE i \in 1 .. Len(s)
    <3>1. e.name # "disconnected" /\ \A j \in 1 .. Len(s) : j > i => s[j].name # "disconnected"
      BY <1>2, <2>2
    <3>2. QED
      BY <1>2, <2>2, <3>1 DEF LinkAgrees
  <2>3. QED
    BY <2>1, <2>2
<1>3. QED
  BY <1>1, <1>2 DEF LinkAgrees

LEMMA LinkAhead ==
  ASSUME NEW s, NEW u, NEW e, Ahead(u, e, s), NEW on, NEW on2, NEW up, LinkAgrees(u, on, up),
         on2 => e.name # "disconnected" /\ (on \/ e.name = "connected")
  PROVE  LinkAgrees(s, on2, up)
<1> USE DEF Ahead
<1>0. Len(s) \in Nat
  BY LenProperties
<1>1. ASSUME \A i \in 1 .. Len(s) : s[i].name # "disconnected", on2 PROVE up
  <2>1. \A j \in 1 .. Len(u) : u[j].name # "disconnected"
    BY <1>1
  <2>2. QED
    BY <1>1, <2>1 DEF LinkAgrees
<1>2. ASSUME NEW i \in 1 .. Len(s), s[i].name = "connected",
             \A j \in 1 .. Len(s) : j > i => s[j].name # "disconnected"
      PROVE  up
  <2>1. \A j \in 1 .. Len(u) : j > i + 1 => u[j].name # "disconnected"
    <3> SUFFICES ASSUME NEW j \in 1 .. Len(u), j > i + 1 PROVE u[j].name # "disconnected"
      OBVIOUS
    <3>1. PICK k \in 1 .. Len(s) : j = k + 1 /\ u[j] = s[k]
      BY <1>0
    <3>2. k > i
      BY <1>0, <3>1
    <3>3. QED
      BY <1>2, <3>1, <3>2
  <2>2. i + 1 \in 1 .. Len(u) /\ u[i + 1] = s[i]
    OBVIOUS
  <2>3. QED
    BY <1>2, <2>1, <2>2 DEF LinkAgrees
<1>3. QED
  BY <1>1, <1>2 DEF LinkAgrees

(* The same of the status.                                                 *)
LEMMA StatusDecided ==
  ASSUME NEW s, NEW u, NEW e, Behind(u, s, e), NEW on, NEW up, NEW expired,
         Decides(e), up => e.name = "got_ip", e.name = "got_ip" => up \/ expired
  PROVE  StatusAgrees(u, on, up, expired)
<1> USE DEF Behind
<1>1. ~(\A i \in 1 .. Len(u) : ~Decides(u[i]))
  OBVIOUS
<1>2. ASSUME NEW i \in 1 .. Len(u), Decides(u[i]), \A j \in 1 .. Len(u) : j > i => ~Decides(u[j])
      PROVE  i = Len(u)
  BY <1>2
<1>3. QED
  BY <1>1, <1>2 DEF StatusAgrees

LEMMA StatusBehind ==
  ASSUME NEW s, NEW u, NEW e, Behind(u, s, e), NEW on, NEW up, NEW expired, NEW up2, NEW expired2,
         ~Decides(e), StatusAgrees(s, on, up, expired),
         up2 => up, up \/ expired => up2 \/ expired2
  PROVE  StatusAgrees(u, on, up2, expired2)
<1> USE DEF Behind
<1>1. (\A i \in 1 .. Len(u) : ~Decides(u[i])) => \A i \in 1 .. Len(s) : ~Decides(s[i])
  OBVIOUS
<1>2. ASSUME NEW i \in 1 .. Len(u), Decides(u[i]), \A j \in 1 .. Len(u) : j > i => ~Decides(u[j])
      PROVE  /\ up2 => u[i].name = "got_ip"
             /\ u[i].name = "got_ip" => up2 \/ expired2
  <2>1. i \in 1 .. Len(s) /\ u[i] = s[i] /\ \A j \in 1 .. Len(s) : j > i => ~Decides(s[j])
    BY <1>2
  <2>2. QED
    BY <1>2, <2>1 DEF StatusAgrees
<1>3. QED
  BY <1>1, <1>2 DEF StatusAgrees

LEMMA StatusAhead ==
  ASSUME NEW s, NEW u, NEW e, Ahead(u, e, s), NEW on, NEW on2, NEW up, NEW expired,
         StatusAgrees(u, on, up, expired),
         on2 <=> IF Decides(e) THEN e.name = "got_ip" ELSE on
  PROVE  StatusAgrees(s, on2, up, expired)
<1> USE DEF Ahead
<1>0. Len(s) \in Nat
  BY LenProperties
<1>1. ASSUME \A i \in 1 .. Len(s) : ~Decides(s[i]) PROVE (up => on2) /\ (on2 => up \/ expired)
  <2>1. CASE Decides(e)
    <3>1. \A j \in 1 .. Len(u) : j > 1 => ~Decides(u[j])
      BY <1>1
    <3>2. (up => e.name = "got_ip") /\ (e.name = "got_ip" => up \/ expired)
      BY <2>1, <3>1 DEF StatusAgrees
    <3>3. QED
      BY <2>1, <3>2
  <2>2. CASE ~Decides(e)
    <3>1. \A j \in 1 .. Len(u) : ~Decides(u[j])
      BY <1>1, <2>2
    <3>2. QED
      BY <2>2, <3>1 DEF StatusAgrees
  <2>3. QED
    BY <2>1, <2>2
<1>2. ASSUME NEW i \in 1 .. Len(s), Decides(s[i]), \A j \in 1 .. Len(s) : j > i => ~Decides(s[j])
      PROVE  /\ up => s[i].name = "got_ip"
             /\ s[i].name = "got_ip" => up \/ expired
  <2>1. \A j \in 1 .. Len(u) : j > i + 1 => ~Decides(u[j])
    <3> SUFFICES ASSUME NEW j \in 1 .. Len(u), j > i + 1 PROVE ~Decides(u[j])
      OBVIOUS
    <3>1. PICK k \in 1 .. Len(s) : j = k + 1 /\ u[j] = s[k]
      BY <1>0
    <3>2. k > i
      BY <1>0, <3>1
    <3>3. QED
      BY <1>2, <3>1, <3>2
  <2>2. i + 1 \in 1 .. Len(u) /\ u[i + 1] = s[i]
    OBVIOUS
  <2>3. QED
    BY <1>2, <2>1, <2>2 DEF StatusAgrees
<1>3. QED
  BY <1>1, <1>2 DEF StatusAgrees

(* The same of a loss that is still to be answered.                        *)
LEMMA LossBehind ==
  ASSUME NEW s, NEW u, NEW e, Behind(u, s, e), NEW up, NEW up2, LossLast(s, up),
         (up2 => up) \/ NoLoss(s), e.name = "disconnected" => up /\ ~up2
  PROVE  LossLast(u, up2)
<1> USE DEF Behind
<1> SUFFICES ASSUME NEW i \in 1 .. Len(u), Hot(u[i])
             PROVE  ~up2 /\ \A j \in 1 .. Len(u) : j > i => u[j].name # "disconnected"
  BY DEF LossLast
<1>1. CASE i = Len(u)
  <2>1. \A j \in 1 .. Len(u) : ~(j > i)
    BY <1>1
  <2>2. QED
    BY <1>1, <2>1 DEF Hot
<1>2. CASE i \in 1 .. Len(s)
  <2>1. Hot(s[i]) /\ ~up /\ \A j \in 1 .. Len(s) : j > i => s[j].name # "disconnected"
    BY <1>2 DEF LossLast
  <2>2. ~NoLoss(s)
    BY <1>2, <2>1 DEF NoLoss, Hot
  <2>3. e.name # "disconnected" /\ ~up2
    BY <2>1, <2>2
  <2>4. QED
    BY <2>1, <2>3
<1>3. i \in 1 .. Len(s) \/ i = Len(u)
  OBVIOUS
<1> HIDE DEF Behind
<1>4. QED
  BY <1>1, <1>2, <1>3

LEMMA LossAhead ==
  ASSUME NEW s, NEW u, NEW e, Ahead(u, e, s), NEW up, LossLast(u, up)
  PROVE  LossLast(s, up) /\ (Hot(e) => ~up /\ NoLoss(s))
<1> USE DEF Ahead
<1>0. Len(s) \in Nat
  BY LenProperties
<1>1. ASSUME NEW i \in 1 .. Len(s), Hot(s[i])
      PROVE  ~up /\ \A j \in 1 .. Len(s) : j > i => s[j].name # "disconnected"
  <2>1. i + 1 \in 1 .. Len(u) /\ Hot(u[i + 1])
    BY <1>1
  <2>2. ~up /\ \A j \in 1 .. Len(u) : j > i + 1 => u[j].name # "disconnected"
    BY <2>1 DEF LossLast
  <2>3. \A j \in 1 .. Len(s) : j > i => j + 1 > i + 1
    BY <1>0
  <2>4. QED
    BY <2>2, <2>3
<1>2. ASSUME Hot(e) PROVE ~up /\ NoLoss(s)
  <2>1. ~up /\ \A j \in 1 .. Len(u) : j > 1 => u[j].name # "disconnected"
    BY <1>2 DEF LossLast
  <2>2. \A j \in 1 .. Len(s) : j + 1 > 1
    BY <1>0
  <2>3. QED
    BY <2>1, <2>2 DEF NoLoss
<1>3. QED
  BY <1>1, <1>2 DEF LossLast

(***************************************************************************)
(* The events the station's callback has not been told of                  *)
(***************************************************************************)
(* Three queues, in whichever order they are joined.                       *)
LEMMA Regroup ==
  ASSUME NEW s \in Seq(Event), NEW t \in Seq(Event), NEW u \in Seq(Event)
  PROVE  (s \o t) \o u = s \o (t \o u)
  BY ConcatAssociative

(* All of them are sequences of events.                                    *)
LEMMA UntoldSeq ==
  ASSUME QueueType
  PROVE  /\ (IF Told THEN <<>> ELSE event) \in Seq(Event)
         /\ (IF Told THEN <<>> ELSE event) \o queue \in Seq(Event)
         /\ (IF Told THEN <<>> ELSE event) \o queue \o posting \in Seq(Event)
         /\ Untold \in Seq(Event)
<1>1. (IF Told THEN <<>> ELSE event) \in Seq(Event)
  BY EmptySeq DEF QueueType
<1>2. (IF Told THEN <<>> ELSE event) \o queue \in Seq(Event)
  BY <1>1, ConcatProperties DEF QueueType
<1>3. (IF Told THEN <<>> ELSE event) \o queue \o posting \in Seq(Event)
  BY <1>2, ConcatProperties DEF QueueType
<1>4. Untold \in Seq(Event)
  BY <1>3, ConcatProperties DEF QueueType, Untold
<1>5. QED
  BY <1>1, <1>2, <1>3, <1>4

(* A sequence behind another is longer by its last event.                  *)
LEMMA ConcatAppend ==
  ASSUME NEW s \in Seq(Event), NEW t \in Seq(Event), NEW e \in Event
  PROVE  s \o Append(t, e) = Append(s \o t, e)
<1>1. Append(t, e) = t \o <<e>> /\ <<e>> \in Seq(Event)
  BY AppendIsConcat
<1>2. s \o (t \o <<e>>) = (s \o t) \o <<e>>
  BY <1>1, Regroup
<1>3. (s \o t) \in Seq(Event)
  BY ConcatProperties
<1>4. (s \o t) \o <<e>> = Append(s \o t, e)
  BY <1>3, AppendIsConcat
<1>5. QED
  BY <1>1, <1>2, <1>4

(* What the driver sends.                                                  *)
LEMMA Sent ==
  ASSUME QueueType, NEW e \in Event, sys' = Append(sys, e), UNCHANGED <<event, heard, queue, posting>>
  PROVE  Behind(Untold', Untold, e)
<1> DEFINE s == (IF Told THEN <<>> ELSE event) \o queue \o posting
<1>1. s \in Seq(Event) /\ Untold \in Seq(Event) /\ sys \in Seq(Event)
  BY UntoldSeq DEF QueueType
<1>2. Untold = s \o sys /\ Untold' = s \o sys'
  BY DEF Untold, Told
<1> HIDE DEF s
<1>3. Untold' = Append(Untold, e)
  BY <1>1, <1>2, ConcatAppend
<1>4. QED
  BY <1>1, <1>3, AppendIsBehind

(* What goes from one queue to the next is still on its way.               *)
LEMMA HandedOn ==
  ASSUME QueueType, SystemEvent
  PROVE  Untold' = Untold
<1> DEFINE s == (IF Told THEN <<>> ELSE event) \o queue
<1>1. s \in Seq(Event)
  BY UntoldSeq
<1>2. posting = <<>> /\ posting' = <<Head(sys)>> /\ sys' = Tail(sys) /\ sys # <<>>
  BY DEF SystemEvent
<1>3. Untold = s \o posting \o sys /\ Untold' = s \o posting' \o sys'
  BY DEF SystemEvent, Untold, Told, walk
<1> HIDE DEF s
<1>4. /\ sys = <<Head(sys)>> \o Tail(sys) /\ <<Head(sys)>> \in Seq(Event) /\ Tail(sys) \in Seq(Event)
  BY <1>2, HeadTail DEF QueueType
<1>5. s \o <<Head(sys)>> \o Tail(sys) = s \o (<<Head(sys)>> \o Tail(sys))
  BY <1>1, <1>4, Regroup
<1>6. s \o <<>> = s
  BY <1>1, ConcatEmptySeq
<1>7. QED
  BY <1>2, <1>3, <1>4, <1>5, <1>6

LEMMA PostedOn ==
  ASSUME QueueType, Posts
  PROVE  Untold' = Untold
<1> DEFINE s == IF Told THEN <<>> ELSE event
<1>1. s \in Seq(Event) /\ s \o queue \o posting \in Seq(Event)
  BY UntoldSeq
<1>2. queue' = queue \o posting /\ posting' = <<>> /\ UNCHANGED sys
  BY DEF Posts
<1>3. Untold = s \o queue \o posting \o sys /\ Untold' = s \o queue' \o posting' \o sys'
  BY DEF Posts, Untold, Told, walk
<1> HIDE DEF s
<1>4. s \o (queue \o posting) = s \o queue \o posting
  <2>1. queue \in Seq(Event) /\ posting \in Seq(Event)
    BY DEF QueueType
  <2>2. QED
    BY <1>1, <2>1, Regroup
<1>5. (s \o queue \o posting) \o <<>> = s \o queue \o posting
  BY <1>1, ConcatEmptySeq
<1>6. QED
  BY <1>2, <1>3, <1>4, <1>5

LEMMA TakenOn ==
  ASSUME QueueType, TakeEvent
  PROVE  Untold' = Untold
<1>1. event = <<>> /\ queue # <<>> /\ event' = <<Head(queue)>> /\ queue' = Tail(queue) /\ heard' = 0
  BY DEF TakeEvent
<1>2. UNCHANGED <<posting, sys>>
  BY DEF TakeEvent
<1>3. ~Told' /\ ~Told
  BY <1>1 DEF Told
<1>4. Untold = <<>> \o queue \o posting \o sys
  BY <1>1, <1>3 DEF Untold
<1>5. Untold' = <<Head(queue)>> \o Tail(queue) \o posting \o sys
  BY <1>1, <1>2, <1>3 DEF Untold
<1>6. queue = <<Head(queue)>> \o Tail(queue)
  BY <1>1, HeadTail DEF QueueType
<1>7. <<>> \o queue = queue
  BY ConcatEmptySeq DEF QueueType
<1>8. QED
  BY <1>4, <1>5, <1>6, <1>7

(* The callback is told of the first of them.                              *)
LEMMA ToldOf ==
  ASSUME QueueType, ScalarType, StationCallback, ~Twice'
  PROVE  Ahead(Untold, event[1], Untold') /\ heard = 0
<1>1. event # <<>> /\ heard' = heard + 1 /\ UNCHANGED <<event, queue, posting, sys>>
  BY DEF StationCallback, At
<1>2. heard = 0
  BY <1>1 DEF Twice, ScalarType
<1>3. ~Told /\ Told'
  BY <1>1, <1>2 DEF Told
<1>4. /\ Untold = event \o queue \o posting \o sys
      /\ Untold' = <<>> \o queue \o posting \o sys
  BY <1>1, <1>3 DEF Untold
<1>5. event = <<event[1]>> /\ event[1] \in Event
  BY <1>1, Single DEF QueueType
<1>6. <<>> \o queue = queue
  BY ConcatEmptySeq DEF QueueType
<1>7. queue \o posting \in Seq(Event) /\ queue \o posting \o sys \in Seq(Event)
  BY ConcatProperties DEF QueueType
<1>8. event \o queue \o posting = event \o (queue \o posting)
  <2>1. event \in Seq(Event) /\ queue \in Seq(Event) /\ posting \in Seq(Event)
    BY DEF QueueType
  <2>2. QED
    BY <2>1, Regroup
<1>9. event \o (queue \o posting) \o sys = event \o (queue \o posting \o sys)
  <2>1. event \in Seq(Event) /\ sys \in Seq(Event)
    BY DEF QueueType
  <2>2. QED
    BY <1>7, <2>1, Regroup
<1>10. Untold = <<event[1]>> \o Untold'
  BY <1>4, <1>5, <1>6, <1>8, <1>9
<1>11. QED
  BY <1>2, <1>4, <1>5, <1>6, <1>7, <1>10, ConcatIsAhead

(* The end of a walk that told it once leaves them as they are.            *)
LEMMA EndedOn ==
  ASSUME QueueType, EndWalk, heard = 1
  PROVE  Untold' = Untold
<1>1. event # <<>> /\ event' = <<>> /\ UNCHANGED <<queue, posting, sys>>
  BY DEF EndWalk
<1>2. Told /\ ~Told'
  BY <1>1 DEF Told
<1>3. QED
  BY <1>1, <1>2 DEF Untold

(* Nothing moves.                                                          *)
LEMMA UntoldStays ==
  ASSUME UNCHANGED <<event, heard, queue, posting, sys>>
  PROVE  Untold' = Untold /\ (Told' <=> Told) /\ (Twice' <=> Twice)
  BY DEF Untold, Told, Twice

(* While the station is up only an IP event can find its handler gone.     *)
LEMMA UnheardIp ==
  ASSUME CallsInv, Ignored, netif
  PROVE  Head(sys).name \in {"got_ip", "lost_ip"} /\ unheard'
<1>1. hooked /\ ~Receives(Head(sys)) /\ unheard' = (unheard \/ (IsIp(Head(sys)) /\ netif))
  BY DEF CallsInv, Ignored
<1>2. IsIp(Head(sys))
  BY <1>1 DEF Receives
<1>3. QED
  BY <1>1, <1>2 DEF IsIp

(***************************************************************************)
(* The steps of the bits                                                   *)
(***************************************************************************)
Bits == {"started", "connected", "ip"}

(* How the driver stands, bit by bit, before and after a step.             *)
LEMMA Ups ==
  ASSUME NEW bit \in Bits
  PROVE  /\ Up(bit) <=> \/ bit = "started" /\ link # "off"
                        \/ bit = "connected" /\ link = "linked"
                        \/ bit = "ip" /\ ip
         /\ Up(bit)' <=> \/ bit = "started" /\ link' # "off"
                         \/ bit = "connected" /\ link' = "linked"
                         \/ bit = "ip" /\ ip'
<1>1. CASE bit = "started"
  BY <1>1 DEF Up
<1>2. CASE bit = "connected"
  BY <1>2 DEF Up
<1>3. CASE bit = "ip"
  BY <1>3 DEF Up
<1>4. QED
  BY <1>1, <1>2, <1>3 DEF Bits

(* An event dropped while all is down.                                     *)
LEMMA BitDropped ==
  ASSUME NEW s, NEW u, NEW e, Ahead(u, e, s), NEW bit, BitAgrees(u, bit, FALSE, FALSE)
  PROVE  BitAgrees(s, bit, FALSE, FALSE)
<1> USE DEF Ahead
<1>0. Len(s) \in Nat
  BY LenProperties
<1> SUFFICES ASSUME NEW i \in 1 .. Len(s), Moves(s[i], bit),
                    \A j \in 1 .. Len(s) : j > i => ~Moves(s[j], bit)
             PROVE  ~SetsBit(s[i], bit)
  BY DEF BitAgrees
<1>1. \A j \in 1 .. Len(u) : j > i + 1 => ~Moves(u[j], bit)
  <2> SUFFICES ASSUME NEW j \in 1 .. Len(u), j > i + 1 PROVE ~Moves(u[j], bit)
    OBVIOUS
  <2>0. j # 1
    BY <1>0
  <2>1. PICK k \in 1 .. Len(s) : j = k + 1 /\ u[j] = s[k]
    BY <2>0
  <2>2. k > i
    BY <1>0, <2>1
  <2>3. QED
    BY <2>1, <2>2
<1>2. i + 1 \in 1 .. Len(u) /\ u[i + 1] = s[i]
  OBVIOUS
<1>3. QED
  BY <1>1, <1>2 DEF BitAgrees

(* The bits that agree are the same before and after a step.               *)
LEMMA LooseStays ==
  ASSUME NEW bit \in Bits, owes' = owes \/ bit # "ip", unheard => unheard', ~Loose(bit)'
  PROVE  ~Loose(bit)
  BY DEF Loose

(* The last event decides what its bits will be.                           *)
LEMMA BitDecided ==
  ASSUME NEW s, NEW u, NEW e, Behind(u, s, e), NEW bit, NEW on, NEW up,
         Moves(e, bit), SetsBit(e, bit) <=> up
  PROVE  BitAgrees(u, bit, on, up)
<1> USE DEF Behind
<1>1. ~(\A i \in 1 .. Len(u) : ~Moves(u[i], bit))
  OBVIOUS
<1>2. ASSUME NEW i \in 1 .. Len(u), Moves(u[i], bit), \A j \in 1 .. Len(u) : j > i => ~Moves(u[j], bit)
      PROVE  i = Len(u)
  BY <1>2
<1>3. QED
  BY <1>1, <1>2 DEF BitAgrees

(* The driver sends an event that says how it now stands.                  *)
LEMMA BitsSent ==
  ASSUME QueueType, BitsInv, NEW e \in Event, sys' = Append(sys, e),
         UNCHANGED <<bits, leftover, unheard>>,
         owes' = owes \/ e.name \in {"got_ip", "lost_ip"},
         link' # "off" <=> IF e.name \in {"start", "stop"} THEN e.name = "start" ELSE link # "off",
         link' = "linked" <=> IF e.name \in {"connected", "disconnected", "stop"}
                              THEN e.name = "connected" ELSE link = "linked",
         ip' <=> IF e.name \in {"got_ip", "lost_ip", "disconnected", "stop"}
                 THEN e.name = "got_ip" ELSE ip
  PROVE  BitsInv'
<1>1. Behind(sys', sys, e)
  BY AppendIsBehind DEF QueueType
<1>2. ASSUME ~leftover, NEW bit \in Bits, ~Loose(bit)'
      PROVE  BitAgrees(sys', bit, bit \in bits, Up(bit)')
  <2>1. ~Moves(e, bit) => BitAgrees(sys, bit, bit \in bits, Up(bit))
    <3>1. ~Moves(e, bit) => owes' = owes \/ bit # "ip"
      BY Movers DEF Moves
    <3>2. ~Moves(e, bit) => ~Loose(bit)
      BY <1>2, <3>1, LooseStays
    <3>3. QED
      BY <1>2, <3>2 DEF BitsInv, Bits
  <2>2. /\ Moves(e, bit) => (SetsBit(e, bit) <=> Up(bit)')
        /\ ~Moves(e, bit) => (Up(bit)' <=> Up(bit))
    <3>1. CASE bit = "started"
      BY <3>1, Ups, Movers DEF Moves
    <3>2. CASE bit = "connected"
      BY <3>2, Ups, Movers DEF Moves
    <3>3. CASE bit = "ip"
      BY <3>3, Ups, Movers DEF Moves
    <3>4. QED
      BY <3>1, <3>2, <3>3 DEF Bits
  <2>3. CASE Moves(e, bit)
    BY <1>1, <2>2, <2>3, BitDecided
  <2>4. CASE ~Moves(e, bit)
    BY <1>1, <2>1, <2>2, <2>4, BitBehind
  <2>5. QED
    BY <2>3, <2>4
<1>3. QED
  BY <1>2 DEF BitsInv, Bits

(* config() takes the address and with it the bit.                         *)
LEMMA BitsConfigured ==
  ASSUME CallsInv, BitsInv, Configures, UNCHANGED <<sys, leftover, link, unheard>>
  PROVE  BitsInv'
<1>1. ASSUME ~leftover, NEW bit \in Bits, ~Loose(bit)'
      PROVE  BitAgrees(sys', bit, bit \in bits', Up(bit)')
  <2>1. CASE bit = "ip"
    <3>1. ~owes' /\ ~unheard
      BY <1>1, <2>1 DEF Loose
    <3>2. ~owes /\ ~ip /\ ~ip' /\ bit \notin bits'
      BY <2>1, <3>1 DEF Configures
    <3>3. BitAgrees(sys, bit, bit \in bits, FALSE)
      <4>1. (ip = FALSE) /\ Up("ip") = ip
        BY <3>2 DEF Up
      <4>2. BitAgrees(sys, bit, bit \in bits, Up(bit))
        BY <1>1, <2>1, <3>1, <3>2 DEF BitsInv, Bits, Loose
      <4>3. QED
        BY <2>1, <4>1, <4>2 DEF BitAgrees
    <3>4. ~Up(bit)'
      BY <2>1, <3>2, Ups
    <3>5. QED
      BY <3>2, <3>3, <3>4 DEF BitAgrees
  <2>2. CASE bit # "ip"
    <3>1. BitAgrees(sys, bit, bit \in bits, Up(bit))
      BY <1>1, <2>2 DEF BitsInv, Bits, Loose
    <3>2. (bit \in bits' <=> bit \in bits) /\ (Up(bit)' <=> Up(bit))
      BY <2>2, Ups DEF Configures
    <3>3. QED
      BY <3>1, <3>2 DEF BitAgrees
  <2>3. QED
    BY <2>1, <2>2
<1>2. QED
  BY <1>1 DEF BitsInv, Bits

(* Nothing happens to the bits, nor to what they follow.                   *)
LEMMA BitsStay ==
  ASSUME BitsInv, UNCHANGED <<sys, bits, leftover, ip, owes, unheard>>,
         UNCHANGED link \/ (link = "idle" /\ link' = "joining")
  PROVE  BitsInv'
<1>1. \A bit \in Bits : Up(bit)' <=> Up(bit)
  BY Ups
<1>2. ASSUME ~leftover, NEW bit \in Bits, ~Loose(bit)'
      PROVE  BitAgrees(sys', bit, bit \in bits', Up(bit)')
  <2>1. BitAgrees(sys, bit, bit \in bits, Up(bit))
    BY <1>2, LooseStays DEF BitsInv, Bits
  <2>2. QED
    BY <1>1, <2>1 DEF BitAgrees
<1>3. QED
  BY <1>2 DEF BitsInv, Bits

(* The bits.                                                               *)
LEMMA BitsStep ==
  ASSUME QueueType, CallsInv, BitsInv, [Next]_vars
  PROVE  BitsInv'
<1> USE DEF driver, walk, sketch, interface, state
<1>1. CASE Joins
  <2>1. sys' = Append(sys, Ev("connected")) /\ UNCHANGED <<bits, leftover, unheard>> /\ link = "joining" /\ link' = "linked" /\ UNCHANGED <<ip, owes>>
    BY <1>1 DEF Joins, CallsInv
  <2>2. QED
    BY <2>1, Events, BitsSent DEF Reasons
<1>2. CASE Addressed
  <2>1. sys' = Append(sys, Ev("got_ip")) /\ UNCHANGED <<bits, leftover, unheard>> /\ ip' = TRUE /\ UNCHANGED link
    BY <1>2 DEF Addressed, CallsInv
  <2>2. QED
    BY <2>1, Events, BitsSent DEF Reasons
<1>3. CASE LosesAddress
  <2>1. sys' = Append(sys, Ev("lost_ip")) /\ UNCHANGED <<bits, leftover, unheard>> /\ ip' = FALSE /\ UNCHANGED link
    BY <1>3 DEF LosesAddress, CallsInv
  <2>2. QED
    BY <2>1, Events, BitsSent DEF Reasons
<1>4. CASE ReportsLoss
  <2>1. sys' = Append(sys, Ev("lost_ip")) /\ UNCHANGED <<bits, leftover, unheard>> /\ ~ip /\ ip' = FALSE /\ UNCHANGED link
    BY <1>4 DEF ReportsLoss, CallsInv
  <2>2. QED
    BY <2>1, Events, BitsSent DEF Reasons
<1>5. ASSUME NEW reason \in Reasons, Loses(reason) PROVE BitsInv'
  <2>1. sys' = Append(sys, Lost(reason)) /\ UNCHANGED <<bits, leftover, unheard>> /\ UNCHANGED owes /\ link \in {"joining", "linked"} /\ link' = "idle" /\ ip' = FALSE
    BY <1>5 DEF Loses, CallsInv
  <2>2. QED
    BY <2>1, Events, BitsSent DEF Reasons
<1>6. CASE Ignored
  <2>1. /\ Ahead(sys, Head(sys), sys') /\ UNCHANGED <<bits, leftover, link, ip, owes>>
        /\ unheard => unheard'
    BY <1>6, HeadIsAhead DEF Ignored, QueueType
  <2>2. ASSUME ~leftover, NEW bit \in Bits, ~Loose(bit)'
        PROVE  BitAgrees(sys', bit, bit \in bits', Up(bit)')
    <3>1. BitAgrees(sys, bit, bit \in bits, Up(bit))
      BY <2>1, <2>2, LooseStays DEF BitsInv, Bits
    <3>2. CASE ~netif
      <4>1. ~Up(bit) /\ ~Up(bit)' /\ bit \notin bits /\ bit \notin bits'
        BY <2>1, <2>2, <3>2, Ups DEF Bits, CallsInv
      <4>2. BitAgrees(sys, bit, FALSE, FALSE)
        BY <3>1, <4>1 DEF BitAgrees
      <4>3. BitAgrees(sys', bit, FALSE, FALSE)
        BY <2>1, <4>2, BitDropped
      <4>4. QED
        BY <4>1, <4>3 DEF BitAgrees
    <3>3. CASE netif
      <4>1. Head(sys).name \in {"got_ip", "lost_ip"} /\ unheard'
        BY <1>6, <3>3, UnheardIp
      <4>2. bit # "ip"
        BY <2>2, <4>1 DEF Loose
      <4>3. ~SetsBit(Head(sys), bit) /\ ~ClearsBit(Head(sys), bit)
        BY <4>1, <4>2, Movers DEF Bits
      <4>4. BitAgrees(sys', bit, bit \in bits, Up(bit))
        BY <2>1, <3>1, <4>3, BitAhead
      <4>5. (bit \in bits' <=> bit \in bits) /\ (Up(bit)' <=> Up(bit))
        BY <2>1, Ups
      <4>6. QED
        BY <4>4, <4>5 DEF BitAgrees
    <3>4. QED
      BY <3>2, <3>3
  <2>3. QED
    BY <2>1, <2>2 DEF BitsInv, Bits
<1>7. CASE SystemEvent
  <2>1. /\ Ahead(sys, Head(sys), sys') /\ bits' = StatusBits(Head(sys).name)
        /\ UNCHANGED <<link, ip, owes, unheard>> /\ (leftover => leftover')
    BY <1>7, HeadIsAhead DEF SystemEvent, QueueType
  <2>2. ASSUME ~leftover, NEW bit \in Bits, ~Loose(bit)'
        PROVE  BitAgrees(sys', bit, bit \in bits', Up(bit)')
    <3>1. BitAgrees(sys, bit, bit \in bits, Up(bit))
      BY <2>1, <2>2, LooseStays DEF BitsInv, Bits
    <3>2. ~(SetsBit(Head(sys), bit) /\ ClearsBit(Head(sys), bit))
      BY Movers
    <3>3. bit \in bits' <=> SetsBit(Head(sys), bit) \/ (bit \in bits /\ ~ClearsBit(Head(sys), bit))
      BY <2>1, Movers
    <3>4. Up(bit)' = Up(bit)
      BY <2>1 DEF Up
    <3>5. BitAgrees(sys', bit, bit \in bits', Up(bit))
      BY <2>1, <3>1, <3>2, <3>3, BitAhead
    <3>6. QED
      BY <3>4, <3>5
  <2>3. QED
    BY <2>1, <2>2 DEF BitsInv, Bits
<1>8. CASE Posts
  BY <1>8, BitsStay DEF Posts
<1>9. CASE TakeEvent
  BY <1>9, BitsStay DEF TakeEvent
<1>10. CASE OtherCallback
  BY <1>10, BitsStay DEF OtherCallback, At
<1>11. CASE EndWalk
  BY <1>11, BitsStay DEF EndWalk
<1>12. CASE StationCallback
  BY <1>12, BitsStay DEF StationCallback, At
<1>13. CASE CallbackLeaves
  <2>1. Leave /\ UNCHANGED <<bits, leftover, owes, unheard>>
    BY <1>13 DEF CallbackLeaves
  <2>2. CASE UNCHANGED <<link, ip, why, sys>>
    BY <2>1, <2>2, BitsStay
  <2>3. CASE /\ link \in {"joining", "linked"} /\ link' = "idle" /\ ip' = FALSE
             /\ sys' = Append(sys, Lost("leave"))
    BY <2>1, <2>3, Events, BitsSent
  <2>4. QED
    BY <2>1, <2>2, <2>3, LeaveSends
<1>14. CASE CallbackTests
  BY <1>14, BitsStay DEF CallbackTests, Returns
<1>15. CASE CallbackConfigures
  <2>1. CASE netif
    BY <1>15, <2>1, BitsConfigured DEF CallbackConfigures
  <2>2. CASE ~netif
    BY <1>15, <2>2, BitsStay DEF CallbackConfigures
  <2>3. QED
    BY <2>1, <2>2
<1>16. CASE CallbackJoins
  BY <1>16, BitsStay DEF CallbackJoins, DriverJoins, Returns
<1>17. CASE Begin
  BY <1>17, BitsStay DEF Begin, Calls, Go
<1>18. CASE Enables
  BY <1>18, BitsStay DEF Enables, Go
<1>19. CASE Starts
  <2>1. sys' = Append(sys, Ev("start")) /\ UNCHANGED <<bits, leftover, unheard>> /\ link = "off" /\ link' = "idle" /\ ~ip /\ UNCHANGED <<ip, owes>>
    BY <1>19 DEF Starts, Go, CallsInv, Down
  <2>2. QED
    BY <2>1, Events, BitsSent DEF Reasons
<1>20. CASE Connect
  BY <1>20, BitsStay DEF Connect, Go, Calls
<1>21. CASE Configure
  BY <1>21, BitsConfigured DEF Configure
<1>22. CASE Order
  BY <1>22, BitsStay DEF Order, DriverJoins, Go
<1>23. CASE Disconnect
  <2>1. Leave /\ UNCHANGED <<bits, leftover, owes, unheard>>
    BY <1>23 DEF Disconnect
  <2>2. CASE UNCHANGED <<link, ip, why, sys>>
    BY <2>1, <2>2, BitsStay
  <2>3. CASE /\ link \in {"joining", "linked"} /\ link' = "idle" /\ ip' = FALSE
             /\ sys' = Append(sys, Lost("leave"))
    BY <2>1, <2>3, Events, BitsSent
  <2>4. QED
    BY <2>1, <2>2, <2>3, LeaveSends
<1>24. CASE Reconnect
  <2>1. Leave /\ UNCHANGED <<bits, leftover, owes, unheard>>
    BY <1>24 DEF Reconnect
  <2>2. CASE UNCHANGED <<link, ip, why, sys>>
    BY <2>1, <2>2, BitsStay
  <2>3. CASE /\ link \in {"joining", "linked"} /\ link' = "idle" /\ ip' = FALSE
             /\ sys' = Append(sys, Lost("leave"))
    BY <2>1, <2>3, Events, BitsSent
  <2>4. QED
    BY <2>1, <2>2, <2>3, LeaveSends
<1>25. CASE Rejoins
  BY <1>25, BitsStay DEF Rejoins, DriverJoins, Go
<1>26. CASE Stops
  <2>1. /\ UNCHANGED <<bits, leftover, owes, unheard>>
        /\ link' = "off" /\ ip' = FALSE /\ link # "off"
    BY <1>26 DEF Stops, Calls, CallsInv, Down
  <2>2. ASSUME ~leftover, NEW bit \in Bits, ~Loose(bit)'
        PROVE  BitAgrees(sys', bit, bit \in bits', Up(bit)')
    <3>1. ~Up(bit)'
      BY <2>1, Ups DEF Bits
    <3>2. Moves(Ev("stop"), bit) /\ ~SetsBit(Ev("stop"), bit)
      BY Events, Movers DEF Bits, Moves
    <3>3. BitAgrees(sys, bit, bit \in bits, Up(bit))
      BY <2>1, <2>2, LooseStays DEF BitsInv, Bits
    <3>4. CASE sys' = Append(sys, Ev("stop"))
      <4>1. Behind(sys', sys, Ev("stop"))
        BY <3>4, Events, AppendIsBehind DEF QueueType
      <4>2. QED
        BY <2>1, <3>1, <3>2, <3>3, <4>1, BitBehind
    <3>5. CASE sys' = Append(Append(sys, Lost("leave")), Ev("stop"))
      <4> DEFINE s == Append(sys, Lost("leave"))
      <4>1. Behind(s, sys, Lost("leave"))
        BY Events, AppendIsBehind DEF QueueType
      <4>2. Behind(sys', s, Ev("stop"))
        BY <3>5, <4>1, Events, AppendIsBehind DEF Behind
      <4> HIDE DEF s
      <4> DEFINE up == bit = "started" /\ Up(bit)
      <4>3. /\ Moves(Lost("leave"), bit) => (SetsBit(Lost("leave"), bit) <=> up)
            /\ ~Moves(Lost("leave"), bit) => (up <=> Up(bit))
        BY Events, Movers DEF Bits, Moves
      <4> HIDE DEF up
      <4>4. BitAgrees(s, bit, bit \in bits, up)
        BY <3>3, <4>1, <4>3, BitBehind
      <4>5. QED
        BY <2>1, <3>1, <3>2, <4>2, <4>4, BitBehind
    <3>6. QED
      BY <1>26, <3>4, <3>5, StopSends
  <2>3. QED
    BY <2>1, <2>2 DEF BitsInv, Bits
<1>27. CASE Deinits
  BY <1>27, BitsStay DEF Deinits, Go
<1>28. CASE Unlists
  BY <1>28, BitsStay DEF Unlists, Go
<1>29. CASE Destroys
  <2>1. /\ UNCHANGED <<sys, leftover, link, ip, owes, unheard>>
        /\ bits' = {} /\ link = "off" /\ ~ip
    BY <1>29 DEF Destroys, CallsInv, Down
  <2>2. ASSUME ~leftover, NEW bit \in Bits, ~Loose(bit)'
        PROVE  BitAgrees(sys', bit, bit \in bits', Up(bit)')
    <3>1. ~Up(bit) /\ ~Up(bit)' /\ bit \notin bits'
      BY <2>1, Ups DEF Bits
    <3>2. BitAgrees(sys, bit, bit \in bits, Up(bit))
      BY <2>1, <2>2, LooseStays DEF BitsInv, Bits
    <3>3. QED
      BY <2>1, <3>1, <3>2 DEF BitAgrees
  <2>3. QED
    BY <2>1, <2>2 DEF BitsInv, Bits
<1>30. CASE Unhooks
  BY <1>30, BitsStay DEF Unhooks, Go
<1>31. CASE SoftApOn
  BY <1>31, BitsStay DEF SoftApOn, Calls
<1>32. CASE SoftApOff
  BY <1>32, BitsStay DEF SoftApOff, Calls
<1>33. CASE OnEvent
  BY <1>33, BitsStay DEF OnEvent, Calls
<1>34. CASE RemoveEvent
  BY <1>34, BitsStay DEF RemoveEvent, Calls
<1>35. CASE UNCHANGED vars
  BY <1>35, BitsStay DEF vars
<1>36. QED
  BY <1>1, <1>2, <1>3, <1>4, <1>5, <1>6, <1>7, <1>8, <1>9, <1>10, <1>11,
     <1>12, <1>13, <1>14, <1>15, <1>16, <1>17, <1>18, <1>19, <1>20, <1>21,
     <1>22, <1>23, <1>24, <1>25, <1>26, <1>27, <1>28, <1>29, <1>30, <1>31,
     <1>32, <1>33, <1>34, <1>35
  DEF Next

(***************************************************************************)
(* The steps of the link's bit                                             *)
(***************************************************************************)
LEMMA LinkSent ==
  ASSUME QueueType, LinkInv, NEW e \in Event, sys' = Append(sys, e), UNCHANGED <<bits, leftover>>,
         e.name = "connected" => link' = "linked",
         e.name # "disconnected" => (link = "linked" => link' = "linked")
  PROVE  LinkInv'
<1>1. Behind(sys', sys, e)
  BY AppendIsBehind DEF QueueType
<1>2. ASSUME ~leftover PROVE LinkAgrees(sys', "connected" \in bits, link' = "linked")
  <2>1. LinkAgrees(sys, "connected" \in bits, link = "linked")
    BY <1>2 DEF LinkInv
  <2>2. QED
    BY <1>1, <2>1, LinkBehind
<1>3. QED
  BY <1>2 DEF LinkInv

LEMMA LinkStays ==
  ASSUME LinkInv, UNCHANGED <<sys, leftover>>, "connected" \in bits' => "connected" \in bits,
         link = "linked" => link' = "linked"
  PROVE  LinkInv'
<1>1. ASSUME ~leftover PROVE LinkAgrees(sys', "connected" \in bits', link' = "linked")
  <2>1. LinkAgrees(sys, "connected" \in bits, link = "linked")
    BY <1>1 DEF LinkInv
  <2>2. QED
    BY <2>1 DEF LinkAgrees
<1>2. QED
  BY <1>1 DEF LinkInv

(* The link's bit.                                                         *)
LEMMA LinkStep ==
  ASSUME QueueType, CallsInv, LinkInv, [Next]_vars
  PROVE  LinkInv'
<1> USE DEF driver, walk, sketch, interface, state
<1>1. CASE Joins
  <2>1. sys' = Append(sys, Ev("connected")) /\ UNCHANGED <<bits, leftover>> /\ link' = "linked"
    BY <1>1 DEF Joins, CallsInv
  <2>2. QED
    BY <2>1, Events, LinkSent DEF Reasons
<1>2. CASE Addressed
  <2>1. sys' = Append(sys, Ev("got_ip")) /\ UNCHANGED <<bits, leftover>> /\ UNCHANGED link
    BY <1>2 DEF Addressed, CallsInv
  <2>2. QED
    BY <2>1, Events, LinkSent DEF Reasons
<1>3. CASE LosesAddress
  <2>1. sys' = Append(sys, Ev("lost_ip")) /\ UNCHANGED <<bits, leftover>> /\ UNCHANGED link
    BY <1>3 DEF LosesAddress, CallsInv
  <2>2. QED
    BY <2>1, Events, LinkSent DEF Reasons
<1>4. CASE ReportsLoss
  <2>1. sys' = Append(sys, Ev("lost_ip")) /\ UNCHANGED <<bits, leftover>> /\ UNCHANGED link
    BY <1>4 DEF ReportsLoss, CallsInv
  <2>2. QED
    BY <2>1, Events, LinkSent DEF Reasons
<1>5. ASSUME NEW reason \in Reasons, Loses(reason) PROVE LinkInv'
  <2>1. sys' = Append(sys, Lost(reason)) /\ UNCHANGED <<bits, leftover>> /\ TRUE
    BY <1>5 DEF Loses, CallsInv
  <2>2. QED
    BY <2>1, Events, LinkSent DEF Reasons
<1>6. CASE Ignored
  <2>1. Ahead(sys, Head(sys), sys') /\ UNCHANGED <<bits, leftover, link>>
    BY <1>6, HeadIsAhead DEF Ignored, QueueType
  <2>2. ASSUME ~leftover PROVE LinkAgrees(sys', "connected" \in bits', link = "linked")
    <3>1. LinkAgrees(sys, "connected" \in bits, link = "linked")
      BY <2>2 DEF LinkInv
    <3>2. "connected" \in bits' => "connected" \in bits /\ Head(sys).name # "disconnected"
      BY <1>6, <2>1, <2>2, UnheardIp DEF CallsInv
    <3>3. QED
      BY <2>1, <3>1, <3>2, LinkAhead
  <2>3. QED
    BY <2>1, <2>2 DEF LinkInv
<1>7. CASE SystemEvent
  <2>1. /\ Ahead(sys, Head(sys), sys') /\ bits' = StatusBits(Head(sys).name)
        /\ UNCHANGED link /\ (leftover => leftover')
    BY <1>7, HeadIsAhead DEF SystemEvent, QueueType
  <2>2. ASSUME ~leftover PROVE LinkAgrees(sys', "connected" \in bits', link = "linked")
    <3>1. LinkAgrees(sys, "connected" \in bits, link = "linked")
      BY <2>2 DEF LinkInv
    <3>2. "connected" \in bits' =>
            Head(sys).name # "disconnected" /\ ("connected" \in bits \/ Head(sys).name = "connected")
      BY <2>1, Movers
    <3>3. QED
      BY <2>1, <3>1, <3>2, LinkAhead
  <2>3. QED
    BY <2>1, <2>2 DEF LinkInv
<1>8. CASE Posts
  BY <1>8, LinkStays DEF Posts
<1>9. CASE TakeEvent
  BY <1>9, LinkStays DEF TakeEvent
<1>10. CASE OtherCallback
  BY <1>10, LinkStays DEF OtherCallback, At
<1>11. CASE EndWalk
  BY <1>11, LinkStays DEF EndWalk
<1>12. CASE StationCallback
  BY <1>12, LinkStays DEF StationCallback, At
<1>13. CASE CallbackLeaves
  <2>1. Leave /\ UNCHANGED <<bits, leftover>>
    BY <1>13 DEF CallbackLeaves
  <2>2. CASE UNCHANGED <<link, ip, why, sys>>
    BY <2>1, <2>2, LinkStays
  <2>3. CASE sys' = Append(sys, Lost("leave"))
    BY <2>1, <2>3, Events, LinkSent
  <2>4. QED
    BY <2>1, <2>2, <2>3, LeaveSends
<1>14. CASE CallbackTests
  BY <1>14, LinkStays DEF CallbackTests, Returns
<1>15. CASE CallbackConfigures
  BY <1>15, LinkStays DEF CallbackConfigures, Configures, Returns
<1>16. CASE CallbackJoins
  BY <1>16, LinkStays DEF CallbackJoins, DriverJoins, Returns
<1>17. CASE Begin
  BY <1>17, LinkStays DEF Begin, Calls, Go
<1>18. CASE Enables
  BY <1>18, LinkStays DEF Enables, Go
<1>19. CASE Starts
  <2>1. sys' = Append(sys, Ev("start")) /\ UNCHANGED <<bits, leftover>> /\ link = "off"
    BY <1>19 DEF Starts, Go, CallsInv, Down
  <2>2. QED
    BY <2>1, Events, LinkSent DEF Reasons
<1>20. CASE Connect
  BY <1>20, LinkStays DEF Connect, Go, Calls
<1>21. CASE Configure
  BY <1>21, LinkStays DEF Configure, Configures, Go
<1>22. CASE Order
  BY <1>22, LinkStays DEF Order, DriverJoins, Go
<1>23. CASE Disconnect
  <2>1. Leave /\ UNCHANGED <<bits, leftover>>
    BY <1>23 DEF Disconnect
  <2>2. CASE UNCHANGED <<link, ip, why, sys>>
    BY <2>1, <2>2, LinkStays
  <2>3. CASE sys' = Append(sys, Lost("leave"))
    BY <2>1, <2>3, Events, LinkSent
  <2>4. QED
    BY <2>1, <2>2, <2>3, LeaveSends
<1>24. CASE Reconnect
  <2>1. Leave /\ UNCHANGED <<bits, leftover>>
    BY <1>24 DEF Reconnect
  <2>2. CASE UNCHANGED <<link, ip, why, sys>>
    BY <2>1, <2>2, LinkStays
  <2>3. CASE sys' = Append(sys, Lost("leave"))
    BY <2>1, <2>3, Events, LinkSent
  <2>4. QED
    BY <2>1, <2>2, <2>3, LeaveSends
<1>25. CASE Rejoins
  BY <1>25, LinkStays DEF Rejoins, DriverJoins, Go
<1>26. CASE Stops
  <2>1. UNCHANGED <<bits, leftover>> /\ link' = "off"
    BY <1>26 DEF Stops
  <2>2. CASE link = "idle" /\ sys' = Append(sys, Ev("stop"))
    BY <2>1, <2>2, Events, LinkSent
  <2>3. CASE sys' = Append(Append(sys, Lost("leave")), Ev("stop"))
    <3> DEFINE s == Append(sys, Lost("leave"))
    <3>1. Behind(s, sys, Lost("leave"))
      BY Events, AppendIsBehind DEF QueueType
    <3>2. Behind(sys', s, Ev("stop"))
      BY <2>3, <3>1, Events, AppendIsBehind DEF Behind
    <3> HIDE DEF s
    <3>3. ASSUME ~leftover PROVE LinkAgrees(sys', "connected" \in bits', FALSE)
      <4>1. LinkAgrees(sys, "connected" \in bits, link = "linked")
        BY <3>3 DEF LinkInv
      <4>2. Lost("leave").name = "disconnected" /\ Ev("stop").name = "stop"
        BY Events
      <4>3. LinkAgrees(s, "connected" \in bits, FALSE)
        BY <3>1, <4>1, <4>2, LinkBehind
      <4>4. QED
        BY <2>1, <3>2, <4>2, <4>3, LinkBehind
    <3>4. (link' = "linked") = FALSE
      BY <2>1
    <3>5. QED
      BY <2>1, <3>3, <3>4 DEF LinkInv
  <2>4. QED
    BY <1>26, <2>2, <2>3, StopSends
<1>27. CASE Deinits
  BY <1>27, LinkStays DEF Deinits, Go
<1>28. CASE Unlists
  BY <1>28, LinkStays DEF Unlists, Go
<1>29. CASE Destroys
  <2>1. UNCHANGED <<sys, leftover, link>> /\ "connected" \notin bits'
    BY <1>29 DEF Destroys
  <2>2. QED
    BY <2>1 DEF LinkInv, LinkAgrees
<1>30. CASE Unhooks
  BY <1>30, LinkStays DEF Unhooks, Go
<1>31. CASE SoftApOn
  BY <1>31, LinkStays DEF SoftApOn, Calls
<1>32. CASE SoftApOff
  BY <1>32, LinkStays DEF SoftApOff, Calls
<1>33. CASE OnEvent
  BY <1>33, LinkStays DEF OnEvent, Calls
<1>34. CASE RemoveEvent
  BY <1>34, LinkStays DEF RemoveEvent, Calls
<1>35. CASE UNCHANGED vars
  BY <1>35, LinkStays DEF vars
<1>36. QED
  BY <1>1, <1>2, <1>3, <1>4, <1>5, <1>6, <1>7, <1>8, <1>9, <1>10, <1>11,
     <1>12, <1>13, <1>14, <1>15, <1>16, <1>17, <1>18, <1>19, <1>20, <1>21,
     <1>22, <1>23, <1>24, <1>25, <1>26, <1>27, <1>28, <1>29, <1>30, <1>31,
     <1>32, <1>33, <1>34, <1>35
  DEF Next

(***************************************************************************)
(* The steps of the status                                                 *)
(***************************************************************************)
(* An event that decides the status, or does not and leaves what the       *)
(* status should be.                                                       *)
LEMMA StatusSent ==
  ASSUME QueueType, StatusInv, NEW e \in Event, sys' = Append(sys, e),
         UNCHANGED <<event, heard, queue, posting, missed, status, unheard>>,
         \/ Decides(e) /\ ~ip' /\ e.name # "got_ip"
         \/ Decides(e) /\ ip' /\ e.name = "got_ip"
         \/ ~Decides(e) /\ link # "off" /\ ~ip' /\ why' = "expire"
  PROVE  StatusInv'
<1>1. Behind(Untold', Untold, e)
  BY Sent
<1>2. Twice' <=> Twice
  BY DEF Twice
<1>3. CASE Decides(e)
  <2>1. StatusAgrees(Untold', status = "connected", ip', why' = "expire" \/ owes')
    BY <1>1, <1>3, StatusDecided
  <2>2. QED
    BY <2>1 DEF StatusInv
<1>4. CASE ~Decides(e) /\ ~(missed \/ Twice \/ unheard)
  <2>1. StatusAgrees(Untold, status = "connected", ip, why = "expire" \/ owes) /\ ~ip' /\ why' = "expire"
    BY <1>4 DEF StatusInv
  <2>2. StatusAgrees(Untold', status = "connected", ip', why' = "expire" \/ owes')
    BY <1>1, <1>4, <2>1, StatusBehind
  <2>3. QED
    BY <2>2 DEF StatusInv
<1>5. CASE missed \/ Twice \/ unheard
  BY <1>2, <1>5 DEF StatusInv
<1>6. QED
  BY <1>3, <1>4, <1>5

LEMMA StatusStays ==
  ASSUME StatusInv, Untold' = Untold, UNCHANGED status, ip' => ip,
         ip \/ why = "expire" \/ owes => ip' \/ why' = "expire" \/ owes',
         link = "off" => link' = "off", missed => missed', unheard => unheard', Twice => Twice'
  PROVE  StatusInv'
<1>1. CASE link = "off" \/ missed \/ Twice \/ unheard
  BY <1>1 DEF StatusInv
<1>2. CASE StatusAgrees(Untold, status = "connected", ip, why = "expire" \/ owes)
  <2>1. StatusAgrees(Untold', status' = "connected", ip', why' = "expire" \/ owes')
    BY <1>2 DEF StatusAgrees
  <2>2. QED
    BY <2>1 DEF StatusInv
<1>3. QED
  BY <1>1, <1>2 DEF StatusInv

(* What the callback makes of an event.                                    *)
LEMMA StatusOf ==
  ASSUME NEW e \in Event
  PROVE  (Status(e) = "connected") <=> IF Decides(e) THEN e.name = "got_ip" ELSE status = "connected"
<1>1. e.name \in {"start", "stop", "connected", "got_ip", "lost_ip", "disconnected", "ready", "off"}
  BY DEF Event
<1>2. CASE e.name = "start"
  BY <1>2 DEF Status, Decides
<1>3. CASE e.name = "stop"
  BY <1>3 DEF Status, Decides
<1>4. CASE e.name \in {"connected", "lost_ip"}
  BY <1>4 DEF Status, Decides
<1>5. CASE e.name = "got_ip"
  BY <1>5 DEF Status, Decides
<1>6. CASE e.name = "disconnected" /\ e.reason = "expire"
  BY <1>6 DEF Status, Decides
<1>7. CASE e.name = "disconnected" /\ e.reason # "expire"
  BY <1>7 DEF Status, Decides
<1>8. CASE e.name \in {"ready", "off"}
  BY <1>8 DEF Status, Decides
<1>9. QED
  BY <1>1, <1>2, <1>3, <1>4, <1>5, <1>6, <1>7, <1>8

(* The status.                                                             *)
LEMMA StatusStep ==
  ASSUME ScalarType, QueueType, CallsInv, ListInv,
    StatusInv, [Next]_vars
  PROVE  StatusInv'
<1> USE DEF driver, walk, sketch, interface, state
<1>1. CASE Joins
  <2>1. /\ sys' = Append(sys, Ev("connected")) /\ ~ip'
        /\ UNCHANGED <<event, heard, queue, posting, missed, status, unheard>>
    BY <1>1 DEF Joins, CallsInv
  <2>2. Decides(Ev("connected")) /\ Ev("connected").name # "got_ip"
    BY Events DEF Decides
  <2>3. QED
    BY <2>1, <2>2, Events, StatusSent
<1>2. CASE Addressed
  <2>1. /\ sys' = Append(sys, Ev("got_ip")) /\ ip'
        /\ UNCHANGED <<event, heard, queue, posting, missed, status, unheard>>
    BY <1>2 DEF Addressed, CallsInv
  <2>2. Decides(Ev("got_ip")) /\ Ev("got_ip").name = "got_ip"
    BY Events DEF Decides
  <2>3. QED
    BY <2>1, <2>2, Events, StatusSent
<1>3. CASE LosesAddress
  <2>1. /\ sys' = Append(sys, Ev("lost_ip")) /\ ~ip'
        /\ UNCHANGED <<event, heard, queue, posting, missed, status, unheard>>
    BY <1>3 DEF LosesAddress, CallsInv
  <2>2. Decides(Ev("lost_ip")) /\ Ev("lost_ip").name # "got_ip"
    BY Events DEF Decides
  <2>3. QED
    BY <2>1, <2>2, Events, StatusSent
<1>4. CASE ReportsLoss
  <2>1. /\ sys' = Append(sys, Ev("lost_ip")) /\ ~ip'
        /\ UNCHANGED <<event, heard, queue, posting, missed, status, unheard>>
    BY <1>4 DEF ReportsLoss, CallsInv
  <2>2. Decides(Ev("lost_ip")) /\ Ev("lost_ip").name # "got_ip"
    BY Events DEF Decides
  <2>3. QED
    BY <2>1, <2>2, Events, StatusSent
<1>5. ASSUME NEW reason \in Reasons, Loses(reason) PROVE StatusInv'
  <2>1. /\ sys' = Append(sys, Lost(reason)) /\ ip' = FALSE /\ why' = reason /\ link # "off"
        /\ UNCHANGED <<event, heard, queue, posting, missed, status, unheard>>
    BY <1>5 DEF Loses
  <2>2. /\ Lost(reason) \in Event /\ Lost(reason).name # "got_ip"
        /\ ~Decides(Lost(reason)) => reason = "expire"
    BY Events DEF Decides
  <2>3. QED
    BY <2>1, <2>2, StatusSent
<1>6. CASE Ignored
  <2>1. CASE netif
    BY <1>6, <2>1, UnheardIp DEF StatusInv
  <2>2. CASE ~netif
    <3>1. link' = "off"
      BY <1>6, <2>2 DEF Ignored, CallsInv
    <3>2. QED
      BY <3>1 DEF StatusInv
  <2>3. QED
    BY <2>1, <2>2
<1>7. CASE SystemEvent
  <2>1. Untold' = Untold
    BY HandedOn, <1>7
  <2>2. UNCHANGED <<event, heard, missed, unheard, status, ip, why, owes, link>>
    BY <1>7 DEF SystemEvent
  <2>3. QED
    BY <2>1, <2>2, StatusStays DEF Twice
<1>8. CASE Posts
  <2>1. Untold' = Untold
    BY PostedOn, <1>8
  <2>2. UNCHANGED <<event, heard, missed, unheard, status, ip, why, owes, link>>
    BY <1>8 DEF Posts
  <2>3. QED
    BY <2>1, <2>2, StatusStays DEF Twice
<1>9. CASE TakeEvent
  <2>1. Untold' = Untold
    BY TakenOn, <1>9
  <2>2. UNCHANGED <<missed, unheard, status, ip, why, owes, link>> /\ event = <<>>
    BY <1>9 DEF TakeEvent
  <2>3. QED
    BY <2>1, <2>2, StatusStays DEF Twice
<1>10. CASE OtherCallback
  <2>1. UNCHANGED <<event, heard, queue, posting, sys, missed, unheard, status, ip, why, owes, link>>
    BY <1>10 DEF OtherCallback, At
  <2>2. QED
    BY <2>1, UntoldStays, StatusStays
<1>11. CASE EndWalk
  <2>1. /\ UNCHANGED <<status, ip, why, owes, link, unheard>>
        /\ missed' <=> missed \/ (Contains(list, "sta") /\ heard # 1)
    BY <1>11 DEF EndWalk
  <2>2. CASE heard = 1
    <3>1. Untold' = Untold
      BY EndedOn, <1>11, <2>2
    <3>2. QED
      BY <2>1, <2>2, <3>1, StatusStays DEF Twice
  <2>3. CASE heard # 1 /\ Contains(list, "sta")
    BY <2>1, <2>3 DEF StatusInv
  <2>4. CASE ~Contains(list, "sta")
    BY <2>1, <2>4 DEF StatusInv, ListInv, CallsInv, Down
  <2>5. QED
    BY <2>2, <2>3, <2>4
<1>12. CASE StationCallback
  <2>1. /\ UNCHANGED <<ip, why, owes, link, missed, unheard, event>> /\ status' = Status(event[1])
        /\ heard' = heard + 1 /\ event # <<>>
    BY <1>12 DEF StationCallback, At
  <2>2. CASE Twice'
    BY <2>2 DEF StatusInv
  <2>3. CASE ~Twice'
    <3>1. Ahead(Untold, event[1], Untold') /\ heard = 0
      BY <1>12, <2>3, ToldOf
    <3>2. event[1] \in Event
      BY <3>1 DEF Ahead
    <3>3. (status' = "connected") <=> IF Decides(event[1]) THEN event[1].name = "got_ip"
                                      ELSE status = "connected"
      BY <2>1, <3>2, StatusOf
    <3>4. CASE link = "off" \/ missed \/ unheard
      BY <2>1, <3>4 DEF StatusInv
    <3>5. CASE ~(link = "off" \/ missed \/ unheard)
      <4>1. StatusAgrees(Untold, status = "connected", ip, why = "expire" \/ owes)
        BY <3>1, <3>5 DEF StatusInv, Twice
      <4> DEFINE on  == status = "connected"
                 on2 == status' = "connected"
      <4>2. on2 <=> IF Decides(event[1]) THEN event[1].name = "got_ip" ELSE on
        BY <3>3
      <4>3. StatusAgrees(Untold, on, ip, why = "expire" \/ owes)
        BY <4>1
      <4> HIDE DEF on, on2
      <4>4. StatusAgrees(Untold', on2, ip, why = "expire" \/ owes)
        BY <3>1, <4>2, <4>3, StatusAhead
      <4>5. QED
        BY <2>1, <4>4 DEF StatusInv, on2
    <3>6. QED
      BY <3>4, <3>5
  <2>4. QED
    BY <2>2, <2>3
<1>13. CASE CallbackLeaves
  <2>1. Leave /\ UNCHANGED <<event, heard, queue, posting, missed, status, unheard, owes>>
    BY <1>13 DEF CallbackLeaves
  <2>2. CASE UNCHANGED <<link, ip, why, sys>>
    BY <2>1, <2>2, UntoldStays, StatusStays
  <2>3. CASE ip' = FALSE /\ sys' = Append(sys, Lost("leave"))
    <3>1. Decides(Lost("leave")) /\ Lost("leave").name # "got_ip"
      BY Events DEF Decides
    <3>2. QED
      BY <2>1, <2>3, <3>1, Events, StatusSent
  <2>4. QED
    BY <2>1, <2>2, <2>3, LeaveSends
<1>14. CASE CallbackTests
  <2>1. UNCHANGED <<event, heard, queue, posting, sys, missed, unheard, status, ip, why, owes, link>>
    BY <1>14 DEF CallbackTests, Returns
  <2>2. QED
    BY <2>1, UntoldStays, StatusStays
<1>15. CASE CallbackConfigures
  <2>1. /\ UNCHANGED <<event, heard, queue, posting, sys, missed, unheard, status, why, link>>
        /\ (ip' = FALSE /\ owes' = (owes \/ ip)) \/ UNCHANGED <<ip, owes>>
    BY <1>15 DEF CallbackConfigures, Configures
  <2>2. CASE ip' = FALSE /\ owes' = (owes \/ ip)
    BY <2>1, <2>2, UntoldStays, StatusStays
  <2>3. CASE UNCHANGED <<ip, owes>>
    BY <2>1, <2>3, UntoldStays, StatusStays
  <2>4. QED
    BY <2>1, <2>2, <2>3
<1>16. CASE CallbackJoins
  <2>1. /\ UNCHANGED <<event, heard, queue, posting, sys, missed, unheard, status, ip, why, owes>>
        /\ link = "off" => link' = "off"
    BY <1>16 DEF CallbackJoins, DriverJoins, Returns
  <2>2. QED
    BY <2>1, UntoldStays, StatusStays
<1>17. CASE Begin
  <2>1. link' = "off"
    BY <1>17 DEF Begin
  <2>2. QED
    BY <2>1 DEF StatusInv
<1>18. CASE Enables
  <2>1. UNCHANGED <<event, heard, queue, posting, sys, missed, unheard, status, ip, why, owes, link>>
    BY <1>18 DEF Enables, Go
  <2>2. QED
    BY <2>1, UntoldStays, StatusStays
<1>19. CASE Starts
  <2>1. /\ sys' = Append(sys, Ev("start")) /\ ~ip'
        /\ UNCHANGED <<event, heard, queue, posting, missed, status, unheard>>
    BY <1>19 DEF Starts, Go, CallsInv, Down
  <2>2. Decides(Ev("start")) /\ Ev("start").name # "got_ip"
    BY Events DEF Decides
  <2>3. QED
    BY <2>1, <2>2, Events, StatusSent
<1>20. CASE Connect
  <2>1. UNCHANGED <<event, heard, queue, posting, sys, missed, unheard, status, ip, why, owes, link>>
    BY <1>20 DEF Connect, Go, Calls
  <2>2. QED
    BY <2>1, UntoldStays, StatusStays
<1>21. CASE Configure
  <2>1. /\ UNCHANGED <<event, heard, queue, posting, sys, missed, unheard, status, why, link>>
        /\ ip' = FALSE /\ owes' = (owes \/ ip)
    BY <1>21 DEF Configure, Configures
  <2>2. QED
    BY <2>1, UntoldStays, StatusStays
<1>22. CASE Order
  <2>1. /\ UNCHANGED <<event, heard, queue, posting, sys, missed, unheard, status, ip, why, owes>>
        /\ link = "off" => link' = "off"
    BY <1>22 DEF Order, DriverJoins, Go
  <2>2. QED
    BY <2>1, UntoldStays, StatusStays
<1>23. CASE Disconnect
  <2>1. Leave /\ UNCHANGED <<event, heard, queue, posting, missed, status, unheard, owes>>
    BY <1>23 DEF Disconnect
  <2>2. CASE UNCHANGED <<link, ip, why, sys>>
    BY <2>1, <2>2, UntoldStays, StatusStays
  <2>3. CASE ip' = FALSE /\ sys' = Append(sys, Lost("leave"))
    <3>1. Decides(Lost("leave")) /\ Lost("leave").name # "got_ip"
      BY Events DEF Decides
    <3>2. QED
      BY <2>1, <2>3, <3>1, Events, StatusSent
  <2>4. QED
    BY <2>1, <2>2, <2>3, LeaveSends
<1>24. CASE Reconnect
  <2>1. Leave /\ UNCHANGED <<event, heard, queue, posting, missed, status, unheard, owes>>
    BY <1>24 DEF Reconnect
  <2>2. CASE UNCHANGED <<link, ip, why, sys>>
    BY <2>1, <2>2, UntoldStays, StatusStays
  <2>3. CASE ip' = FALSE /\ sys' = Append(sys, Lost("leave"))
    <3>1. Decides(Lost("leave")) /\ Lost("leave").name # "got_ip"
      BY Events DEF Decides
    <3>2. QED
      BY <2>1, <2>3, <3>1, Events, StatusSent
  <2>4. QED
    BY <2>1, <2>2, <2>3, LeaveSends
<1>25. CASE Rejoins
  <2>1. /\ UNCHANGED <<event, heard, queue, posting, sys, missed, unheard, status, ip, why, owes>>
        /\ link = "off" => link' = "off"
    BY <1>25 DEF Rejoins, DriverJoins, Go
  <2>2. QED
    BY <2>1, UntoldStays, StatusStays
<1>26. CASE Stops
  <2>1. link' = "off"
    BY <1>26 DEF Stops
  <2>2. QED
    BY <2>1 DEF StatusInv
<1>27. CASE Deinits
  <2>1. link' = "off"
    BY <1>27 DEF Deinits, CallsInv, Down
  <2>2. QED
    BY <2>1 DEF StatusInv
<1>28. CASE Unlists
  <2>1. UNCHANGED <<event, heard, queue, posting, sys, missed, unheard, status, ip, why, owes, link>>
    BY <1>28 DEF Unlists, Go
  <2>2. QED
    BY <2>1, UntoldStays, StatusStays
<1>29. CASE Destroys
  <2>1. UNCHANGED <<event, heard, queue, posting, sys, missed, unheard, status, ip, why, owes, link>>
    BY <1>29 DEF Destroys, Go
  <2>2. QED
    BY <2>1, UntoldStays, StatusStays
<1>30. CASE Unhooks
  <2>1. UNCHANGED <<event, heard, queue, posting, sys, missed, unheard, status, ip, why, owes, link>>
    BY <1>30 DEF Unhooks, Go
  <2>2. QED
    BY <2>1, UntoldStays, StatusStays
<1>31. CASE SoftApOn
  <2>1. UNCHANGED <<event, heard, queue, posting, sys, missed, unheard, status, ip, why, owes, link>>
    BY <1>31 DEF SoftApOn, Calls
  <2>2. QED
    BY <2>1, UntoldStays, StatusStays
<1>32. CASE SoftApOff
  <2>1. UNCHANGED <<event, heard, queue, posting, sys, missed, unheard, status, ip, why, owes, link>>
    BY <1>32 DEF SoftApOff, Calls
  <2>2. QED
    BY <2>1, UntoldStays, StatusStays
<1>33. CASE OnEvent
  <2>1. UNCHANGED <<event, heard, queue, posting, sys, missed, unheard, status, ip, why, owes, link>>
    BY <1>33 DEF OnEvent, Calls
  <2>2. QED
    BY <2>1, UntoldStays, StatusStays
<1>34. CASE RemoveEvent
  <2>1. UNCHANGED <<event, heard, queue, posting, sys, missed, unheard, status, ip, why, owes, link>>
    BY <1>34 DEF RemoveEvent, Calls
  <2>2. QED
    BY <2>1, UntoldStays, StatusStays
<1>35. CASE UNCHANGED vars
  <2>1. UNCHANGED <<event, heard, queue, posting, sys, missed, unheard, status, ip, why, owes, link>>
    BY <1>35 DEF vars
  <2>2. QED
    BY <2>1, UntoldStays, StatusStays
<1>36. QED
  BY <1>1, <1>2, <1>3, <1>4, <1>5, <1>6, <1>7, <1>8, <1>9, <1>10, <1>11,
     <1>12, <1>13, <1>14, <1>15, <1>16, <1>17, <1>18, <1>19, <1>20, <1>21,
     <1>22, <1>23, <1>24, <1>25, <1>26, <1>27, <1>28, <1>29, <1>30, <1>31,
     <1>32, <1>33, <1>34, <1>35
  DEF Next

(***************************************************************************)
(* The steps of the retries                                                *)
(***************************************************************************)
(* What is in a sequence that two make up.                                 *)
LEMMA InConcat ==
  ASSUME NEW s \in Seq(Event), NEW t \in Seq(Event)
  PROVE  s \o t \in Seq(Event) /\ \A e : Contains(s \o t, e) <=> Contains(s, e) \/ Contains(t, e)
<1> DEFINE u == s \o t
<1>1. /\ u \in Seq(Event) /\ Len(u) = Len(s) + Len(t)
      /\ \A i \in 1 .. Len(s) + Len(t) : u[i] = IF i <= Len(s) THEN s[i] ELSE t[i - Len(s)]
  BY ConcatProperties
<1>2. Len(s) \in Nat /\ Len(t) \in Nat
  BY LenProperties
<1> HIDE DEF u
<1>3. ASSUME NEW e, Contains(u, e) PROVE Contains(s, e) \/ Contains(t, e)
  <2>1. PICK i \in 1 .. Len(u) : u[i] = e
    BY <1>3 DEF Contains
  <2>2. CASE i <= Len(s)
    <3>1. i \in 1 .. Len(s) /\ s[i] = e
      BY <1>1, <1>2, <2>1, <2>2
    <3>2. QED
      BY <3>1 DEF Contains
  <2>3. CASE ~(i <= Len(s))
    <3>1. i - Len(s) \in 1 .. Len(t) /\ t[i - Len(s)] = e
      BY <1>1, <1>2, <2>1, <2>3
    <3>2. QED
      BY <3>1 DEF Contains
  <2>4. QED
    BY <2>2, <2>3
<1>4. ASSUME NEW e, Contains(s, e) PROVE Contains(u, e)
  <2>1. PICK i \in 1 .. Len(s) : s[i] = e
    BY <1>4 DEF Contains
  <2>2. i \in 1 .. Len(u) /\ u[i] = e
    BY <1>1, <1>2, <2>1
  <2>3. QED
    BY <2>2 DEF Contains
<1>5. ASSUME NEW e, Contains(t, e) PROVE Contains(u, e)
  <2>1. PICK i \in 1 .. Len(t) : t[i] = e
    BY <1>5 DEF Contains
  <2>2. i + Len(s) \in 1 .. Len(s) + Len(t) /\ ~(i + Len(s) <= Len(s)) /\ (i + Len(s)) - Len(s) = i
    BY <1>2
  <2>3. i + Len(s) \in 1 .. Len(u) /\ u[i + Len(s)] = e
    BY <1>1, <2>1, <2>2
  <2>4. QED
    BY <2>3 DEF Contains
<1>6. QED
  BY <1>1, <1>3, <1>4, <1>5 DEF u

LEMMA InUntold ==
  ASSUME QueueType
  PROVE  \A e : Contains(Untold, e) <=> \/ ~Told /\ Contains(event, e)
                                        \/ Contains(queue, e) \/ Contains(posting, e) \/ Contains(sys, e)
<1> DEFINE s == IF Told THEN <<>> ELSE event
<1>1. s \in Seq(Event) /\ s \o queue \in Seq(Event) /\ s \o queue \o posting \in Seq(Event)
  BY UntoldSeq
<1>2. Untold = s \o queue \o posting \o sys
  BY DEF Untold
<1>3. \A e : Contains(s, e) <=> ~Told /\ Contains(event, e)
  <2>1. \A e : ~Contains(<<>>, e)
    BY DEF Contains
  <2>2. QED
    BY <2>1
<1> HIDE DEF s
<1>4. \A e : Contains(s \o queue, e) <=> Contains(s, e) \/ Contains(queue, e)
  BY <1>1, InConcat DEF QueueType
<1>5. \A e : Contains(s \o queue \o posting, e) <=> Contains(s \o queue, e) \/ Contains(posting, e)
  BY <1>1, InConcat DEF QueueType
<1>6. \A e : Contains(Untold, e) <=> Contains(s \o queue \o posting, e) \/ Contains(sys, e)
  BY <1>1, <1>2, InConcat DEF QueueType
<1>7. QED
  BY <1>3, <1>4, <1>5, <1>6

(* The reason of a disconnection on its way is among OnItsWay.             *)
LEMMA OnTheWay ==
  ASSUME QueueType, NEW e, e.name = "disconnected",
         Contains(Untold, e) \/ Contains(event, e)
  PROVE  e.reason \in OnItsWay
<1>1. sys \o posting \in Seq(Event) /\ sys \o posting \o queue \in Seq(Event)
  BY ConcatProperties DEF QueueType
<1>2. Contains(sys \o posting, e) <=> Contains(sys, e) \/ Contains(posting, e)
  BY InConcat DEF QueueType
<1>3. Contains(sys \o posting \o queue, e) <=> Contains(sys \o posting, e) \/ Contains(queue, e)
  BY <1>1, InConcat DEF QueueType
<1> DEFINE s == sys \o posting \o queue \o event
<1>4. s \in Seq(Event) /\ (Contains(s, e) <=> Contains(sys \o posting \o queue, e) \/ Contains(event, e))
  BY <1>1, InConcat DEF QueueType
<1> HIDE DEF s
<1>5. Contains(s, e)
  BY <1>2, <1>3, <1>4, InUntold
<1>6. e \in ToSet(s)
  BY <1>4, <1>5, LenProperties DEF Contains, ToSet
<1>7. QED
  BY <1>6 DEF OnItsWay, s

(* No disconnection among them, none in the system event loop's queue.     *)
LEMMA NoLossIn ==
  ASSUME QueueType, NoLoss(Untold)
  PROVE  \A i \in 1 .. Len(sys) : sys[i].name # "disconnected"
<1> TAKE i \in 1 .. Len(sys)
<1>1. Contains(sys, sys[i])
  BY DEF Contains
<1>2. Contains(Untold, sys[i])
  BY <1>1, InUntold
<1>3. QED
  BY <1>2 DEF Contains, NoLoss

LEMMA NoLossLast ==
  ASSUME NEW s, NoLoss(s), NEW up
  PROVE  LossLast(s, up)
  BY DEF NoLoss, LossLast, Hot

(* The bit can be trusted if no loss is on its way.                        *)
LEMMA TrueBit ==
  ASSUME QueueType, LinkInv, ~leftover, NoLoss(Untold)
  PROVE  "connected" \in bits => link = "linked"
  BY NoLossIn DEF LinkInv, LinkAgrees

(* No reply is due if no disconnection is on its way.                      *)
LEMMA NoReply ==
  ASSUME QueueType, ReplyInv, OnItsWay = {}
  PROVE  reply = "none"
<1> SUFFICES ASSUME reply # "none" PROVE FALSE
  OBVIOUS
<1>1. event # <<>> /\ event[1].name = "disconnected"
  BY DEF ReplyInv, Hot
<1>2. Contains(event, event[1])
  BY <1>1, Single DEF QueueType, Contains
<1>3. QED
  BY <1>1, <1>2, OnTheWay

(* Nothing moves, as far as a retry is concerned.                          *)
LEMMA AnswerStays ==
  ASSUME AnswerInv, Untold' = Untold, UNCHANGED <<link, why>>,
         reply' # "none" <=> reply # "none", Trusted' => Trusted
  PROVE  AnswerInv'
<1>1. LossInv'
  BY DEF AnswerInv, LossInv, Linking
<1>2. RetryInv'
  BY DEF AnswerInv, RetryInv
<1>3. QED
  BY <1>1, <1>2 DEF AnswerInv

(* An event while there is a link.                                         *)
LEMMA AnswerSent ==
  ASSUME QueueType, AnswerInv, NEW e \in Event, sys' = Append(sys, e), e.name # "disconnected",
         UNCHANGED <<event, heard, queue, posting, reply>>,
         Trusted' => Trusted, Linking, Linking'
  PROVE  AnswerInv'
<1>1. Behind(Untold', Untold, e)
  BY Sent
<1>2. RetryInv'
  BY DEF RetryInv, Linking
<1>3. ASSUME Trusted' PROVE LossLast(Untold', Linking') /\ reply' = "none"
  <2>1. LossLast(Untold, Linking) /\ reply = "none"
    BY <1>3 DEF AnswerInv, LossInv
  <2>2. LossLast(Untold', Linking')
    BY <1>1, <2>1, LossBehind
  <2>3. QED
    BY <2>1, <2>2
<1>4. LossInv'
  BY <1>3 DEF LossInv
<1>5. QED
  BY <1>2, <1>4 DEF AnswerInv

(* An event that leaves the link alone.                                    *)
LEMMA AnswerReported ==
  ASSUME QueueType, AnswerInv, NEW e \in Event, sys' = Append(sys, e), e.name # "disconnected",
         UNCHANGED <<event, heard, queue, posting, reply, link, why>>, Trusted' => Trusted
  PROVE  AnswerInv'
<1>1. Behind(Untold', Untold, e)
  BY Sent
<1>2. Linking' = Linking
  BY DEF Linking
<1>3. LossLast(Untold, Linking) => LossLast(Untold', Linking)
  BY <1>1, LossBehind
<1>4. NoLoss(Untold) => NoLoss(Untold')
  BY <1>1 DEF Behind, NoLoss
<1>5. HasRetry(Untold) => HasRetry(Untold')
  BY <1>1 DEF Behind, HasRetry
<1>6. LossInv'
  BY <1>2, <1>3, <1>4 DEF AnswerInv, LossInv
<1>7. RetryInv'
  BY <1>5 DEF AnswerInv, RetryInv
<1>8. QED
  BY <1>6, <1>7 DEF AnswerInv

(* f places v in u, keeping the order, and leaves out at most events x.    *)
Embeds(f, v, u, x) ==
  /\ f \in [1 .. Len(v) -> 1 .. Len(u)]
  /\ \A i \in 1 .. Len(v) : v[i] = u[f[i]]
  /\ \A i, j \in 1 .. Len(v) : j > i => f[j] > f[i]
  /\ \A k \in 1 .. Len(u) : u[k] = x \/ \E i \in 1 .. Len(v) : f[i] = k

(* An event that nobody hears is taken out of the middle; the others keep  *)
(* their order.                                                            *)
LEMMA Between ==
  ASSUME NEW s \in Seq(Event), NEW t \in Seq(Event), t # <<>>,
         NEW u, u = s \o t, NEW v, v = s \o Tail(t)
  PROVE  \E f : Embeds(f, v, u, Head(t))
<1>1. /\ Tail(t) \in Seq(Event) /\ Len(t) \in Nat \ {0} /\ Len(Tail(t)) = Len(t) - 1
      /\ Head(t) = t[1] /\ \A i \in 1 .. Len(Tail(t)) : Tail(t)[i] = t[i + 1]
  BY HeadTail
<1>2. Len(s) \in Nat
  BY LenProperties
<1>3. /\ Len(u) = Len(s) + Len(t)
      /\ \A i \in 1 .. Len(s) + Len(t) : u[i] = IF i <= Len(s) THEN s[i] ELSE t[i - Len(s)]
  BY ConcatProperties
<1>4. /\ Len(v) = Len(s) + Len(Tail(t))
      /\ \A i \in 1 .. Len(s) + Len(Tail(t)) :
           v[i] = IF i <= Len(s) THEN s[i] ELSE Tail(t)[i - Len(s)]
  BY <1>1, ConcatProperties
<1> DEFINE f == [i \in 1 .. Len(v) |-> IF i <= Len(s) THEN i ELSE i + 1]
<1>5. f \in [1 .. Len(v) -> 1 .. Len(u)]
  BY <1>1, <1>2, <1>3, <1>4
<1>6. ASSUME NEW i \in 1 .. Len(v) PROVE v[i] = u[f[i]]
  <2>1. CASE i <= Len(s)
    <3>1. f[i] = i /\ i \in 1 .. Len(s) + Len(t) /\ i \in 1 .. Len(s) + Len(Tail(t))
      BY <1>1, <1>2, <1>4, <2>1
    <3>2. QED
      BY <1>3, <1>4, <2>1, <3>1
  <2>2. CASE ~(i <= Len(s))
    <3>1. /\ f[i] = i + 1 /\ i + 1 \in 1 .. Len(s) + Len(t) /\ ~(i + 1 <= Len(s))
          /\ i \in 1 .. Len(s) + Len(Tail(t)) /\ i - Len(s) \in 1 .. Len(Tail(t))
          /\ (i - Len(s)) + 1 = (i + 1) - Len(s)
      BY <1>1, <1>2, <1>4, <2>2
    <3>2. v[i] = Tail(t)[i - Len(s)] /\ u[i + 1] = t[(i + 1) - Len(s)]
      BY <1>3, <1>4, <2>2, <3>1
    <3>3. Tail(t)[i - Len(s)] = t[(i - Len(s)) + 1]
      BY <1>1, <3>1
    <3>4. QED
      BY <3>1, <3>2, <3>3
  <2>3. QED
    BY <2>1, <2>2
<1>7. ASSUME NEW i \in 1 .. Len(v), NEW j \in 1 .. Len(v), j > i PROVE f[j] > f[i]
  BY <1>2, <1>7
<1>8. ASSUME NEW k \in 1 .. Len(u), u[k] # Head(t) PROVE \E i \in 1 .. Len(v) : f[i] = k
  <2>1. CASE k <= Len(s)
    <3>1. k \in 1 .. Len(v) /\ f[k] = k
      BY <1>1, <1>2, <1>4, <2>1
    <3>2. QED
      BY <3>1
  <2>2. CASE k = Len(s) + 1
    <3>1. k \in 1 .. Len(s) + Len(t) /\ ~(k <= Len(s)) /\ k - Len(s) = 1
      BY <1>1, <1>2, <2>2
    <3>2. u[k] = t[1]
      BY <1>3, <3>1
    <3>3. QED
      BY <1>1, <1>8, <3>2
  <2>3. CASE k > Len(s) + 1
    <3>1. k - 1 \in 1 .. Len(v) /\ ~(k - 1 <= Len(s)) /\ (k - 1) + 1 = k
      BY <1>1, <1>2, <1>3, <1>4, <2>3
    <3>2. f[k - 1] = k
      BY <3>1
    <3>3. QED
      BY <3>1, <3>2
  <2>4. QED
    BY <1>2, <2>1, <2>2, <2>3
<1>9. Embeds(f, v, u, Head(t))
  BY <1>5, <1>6, <1>7, <1>8 DEF Embeds
<1>10. QED
  BY <1>9

LEMMA AnswerUnheard ==
  ASSUME QueueType, CallsInv, AnswerInv, Ignored, netif
  PROVE  AnswerInv'
<1>1. /\ sys # <<>> /\ sys' = Tail(sys) /\ UNCHANGED <<event, heard, queue, posting, reply, link, why>>
      /\ Trusted' => Trusted
  BY DEF Ignored, driver, walk, sketch, state, Trusted, Twice
<1>2. Head(sys).name # "disconnected"
  BY UnheardIp
<1> DEFINE s == (IF Told THEN <<>> ELSE event) \o queue \o posting
<1>3. s \in Seq(Event) /\ sys \in Seq(Event)
  BY UntoldSeq DEF QueueType
<1>4. Untold = s \o sys /\ Untold' = s \o Tail(sys)
  BY <1>1 DEF Untold, Told
<1> HIDE DEF s
<1>4a. PICK f : Embeds(f, Untold', Untold, Head(sys))
  BY <1>1, <1>3, <1>4, Between
<1>5. /\ f \in [1 .. Len(Untold') -> 1 .. Len(Untold)]
      /\ \A i \in 1 .. Len(Untold') : Untold'[i] = Untold[f[i]]
      /\ \A i, j \in 1 .. Len(Untold') : j > i => f[j] > f[i]
      /\ \A k \in 1 .. Len(Untold) :
           Untold[k] = Head(sys) \/ \E i \in 1 .. Len(Untold') : f[i] = k
  BY <1>4a DEF Embeds
<1>6. Linking' = Linking
  BY <1>1 DEF Linking
<1>7. LossLast(Untold, Linking) => LossLast(Untold', Linking)
  <2> SUFFICES ASSUME LossLast(Untold, Linking), NEW i \in 1 .. Len(Untold'), Hot(Untold'[i])
               PROVE  ~Linking /\ \A j \in 1 .. Len(Untold') : j > i => Untold'[j].name # "disconnected"
    BY DEF LossLast
  <2>1. f[i] \in 1 .. Len(Untold) /\ Hot(Untold[f[i]])
    BY <1>5
  <2>2. ~Linking /\ \A k \in 1 .. Len(Untold) : k > f[i] => Untold[k].name # "disconnected"
    BY <2>1 DEF LossLast
  <2>3. QED
    BY <1>5, <2>2
<1>8. NoLoss(Untold) => NoLoss(Untold')
  BY <1>5 DEF NoLoss
<1>9. HasRetry(Untold) => HasRetry(Untold')
  <2> SUFFICES ASSUME NEW k \in 1 .. Len(Untold), Hot(Untold[k]), Untold[k].reason \in Retried
               PROVE  HasRetry(Untold')
    BY DEF HasRetry
  <2>1. Untold[k] # Head(sys)
    BY <1>2 DEF Hot
  <2>2. PICK i \in 1 .. Len(Untold') : f[i] = k
    BY <1>5, <2>1
  <2>3. Untold'[i] = Untold[k]
    BY <1>5, <2>2
  <2>4. QED
    BY <2>3 DEF HasRetry
<1>10. LossInv'
  BY <1>1, <1>6, <1>7, <1>8 DEF AnswerInv, LossInv
<1>11. RetryInv'
  BY <1>1, <1>9 DEF AnswerInv, RetryInv
<1>12. QED
  BY <1>10, <1>11 DEF AnswerInv

(* Nobody means to be connected.                                           *)
LEMMA NotTrusted ==
  ASSUME ~Trusted'
  PROVE  AnswerInv'
  BY DEF AnswerInv, LossInv, RetryInv

(* The retries.                                                            *)
LEMMA AnswerStep ==
  ASSUME ScalarType, QueueType, CallsInv, ListInv,
    ReplyInv, LinkInv, AnswerInv, [Next]_vars
  PROVE  AnswerInv'
<1> USE DEF driver, walk, sketch, interface, state
<1>1. CASE Joins
  <2>1. /\ sys' = Append(sys, Ev("connected")) /\ Linking /\ Linking' /\ (Trusted' => Trusted)
        /\ UNCHANGED <<event, heard, queue, posting, reply>>
    BY <1>1 DEF Joins, Trusted, Twice, Linking, CallsInv
  <2>2. Ev("connected") \in Event /\ Ev("connected").name # "disconnected"
    BY Events
  <2>3. QED
    BY <2>1, <2>2, AnswerSent
<1>2. CASE Addressed
  <2>1. /\ sys' = Append(sys, Ev("got_ip")) /\ Linking /\ Linking' /\ (Trusted' => Trusted)
        /\ UNCHANGED <<event, heard, queue, posting, reply>>
    BY <1>2 DEF Addressed, Trusted, Twice, Linking, CallsInv
  <2>2. Ev("got_ip") \in Event /\ Ev("got_ip").name # "disconnected"
    BY Events
  <2>3. QED
    BY <2>1, <2>2, AnswerSent
<1>3. CASE LosesAddress
  <2>1. /\ sys' = Append(sys, Ev("lost_ip")) /\ Linking /\ Linking' /\ (Trusted' => Trusted)
        /\ UNCHANGED <<event, heard, queue, posting, reply>>
    BY <1>3 DEF LosesAddress, Trusted, Twice, Linking, CallsInv
  <2>2. Ev("lost_ip") \in Event /\ Ev("lost_ip").name # "disconnected"
    BY Events
  <2>3. QED
    BY <2>1, <2>2, AnswerSent
<1>4. CASE ReportsLoss
  <2>1. /\ sys' = Append(sys, Ev("lost_ip")) /\ (Trusted' => Trusted)
        /\ UNCHANGED <<event, heard, queue, posting, reply, link, why>>
    BY <1>4 DEF ReportsLoss, Trusted, Twice
  <2>2. Ev("lost_ip") \in Event /\ Ev("lost_ip").name # "disconnected"
    BY Events
  <2>3. QED
    BY <2>1, <2>2, AnswerReported
<1>5. ASSUME NEW reason \in Reasons, Loses(reason) PROVE AnswerInv'
  <2>1. /\ sys' = Append(sys, Lost(reason)) /\ Linking /\ ~Linking' /\ (Trusted' => Trusted)
        /\ why' = reason /\ UNCHANGED <<event, heard, queue, posting, reply>>
    BY <1>5 DEF Loses, Trusted, Twice, Linking
  <2>2. /\ Lost(reason) \in Event /\ Lost(reason).name = "disconnected" /\ Lost(reason).reason = reason
        /\ reason # "leave"
    BY Events DEF Reasons
  <2>3. Behind(Untold', Untold, Lost(reason))
    BY <2>1, <2>2, Sent
  <2>4. ASSUME Trusted' PROVE LossLast(Untold', Linking') /\ reply' = "none"
    <3>1. LossLast(Untold, Linking) /\ reply = "none"
      BY <2>1, <2>4 DEF AnswerInv, LossInv
    <3>2. /\ Linking' => Linking
          /\ Lost(reason).name = "disconnected" => Linking /\ ~Linking'
      BY <2>1
    <3>3. LossLast(Untold', Linking')
      BY <2>3, <3>1, <3>2, LossBehind
    <3>4. QED
      BY <2>1, <3>1, <3>3
  <2>5. LossInv'
    BY <2>4 DEF LossInv
  <2>6. reason \in Retried => HasRetry(Untold')
    <3>1. Hot(Lost(reason))
      BY <2>2 DEF Hot
    <3>2. Untold'[Len(Untold')] = Lost(reason) /\ Len(Untold') \in 1 .. Len(Untold')
      BY <2>3 DEF Behind
    <3>3. ASSUME reason \in Retried PROVE HasRetry(Untold')
      BY <2>2, <3>1, <3>2, <3>3 DEF HasRetry
    <3>4. QED
      BY <3>3
  <2>7. RetryInv'
    BY <2>1, <2>2, <2>6 DEF RetryInv
  <2>8. QED
    BY <2>5, <2>7 DEF AnswerInv
<1>6. CASE Ignored
  <2>1. CASE netif
    BY <1>6, <2>1, AnswerUnheard
  <2>2. CASE ~netif
    <3>1. ~wanted'
      BY <1>6, <2>2 DEF Ignored, CallsInv
    <3>2. QED
      BY <3>1, NotTrusted DEF Trusted
  <2>3. QED
    BY <2>1, <2>2
<1>7. CASE SystemEvent
  <2>1. Untold' = Untold
    BY HandedOn, <1>7
  <2>2. UNCHANGED <<link, why, reply>> /\ (Trusted' => Trusted)
    BY <1>7 DEF SystemEvent, Trusted, Twice
  <2>3. QED
    BY <2>1, <2>2, AnswerStays
<1>8. CASE Posts
  <2>1. Untold' = Untold
    BY PostedOn, <1>8
  <2>2. UNCHANGED <<link, why, reply>> /\ (Trusted' => Trusted)
    BY <1>8 DEF Posts, Trusted, Twice
  <2>3. QED
    BY <2>1, <2>2, AnswerStays
<1>9. CASE TakeEvent
  <2>1. Untold' = Untold
    BY TakenOn, <1>9
  <2>2. UNCHANGED <<link, why, reply>> /\ (Trusted' => Trusted)
    BY <1>9 DEF TakeEvent, Trusted, Twice
  <2>3. QED
    BY <2>1, <2>2, AnswerStays
<1>10. CASE OtherCallback
  <2>1. /\ UNCHANGED <<event, heard, queue, posting, sys, link, why, reply>>
        /\ Trusted' => Trusted
    BY <1>10 DEF OtherCallback, At, Trusted, Twice
  <2>2. QED
    BY <2>1, UntoldStays, AnswerStays
<1>11. CASE EndWalk
  <2>1. /\ UNCHANGED <<link, why, reply, wanted, app, stale, leftover>> /\ event # <<>>
        /\ (missed' <=> missed \/ (Contains(list, "sta") /\ heard # 1))
    BY <1>11 DEF EndWalk
  <2>2. CASE ~Trusted'
    BY <2>2, NotTrusted
  <2>3. CASE Trusted'
    <3>1. wanted /\ ~missed'
      BY <2>1, <2>3 DEF Trusted
    <3>2. Contains(list, "sta")
      BY <3>1 DEF CallsInv, ListInv, Down
    <3>3. heard = 1
      BY <2>1, <3>1, <3>2
    <3>4. Trusted
      BY <2>1, <2>3, <3>3 DEF Trusted, Twice
    <3>5. Untold' = Untold
      BY <1>11, <3>3, EndedOn
    <3>6. QED
      BY <2>1, <3>4, <3>5, AnswerStays
  <2>4. QED
    BY <2>2, <2>3
<1>12. CASE StationCallback
  <2> DEFINE e == event[1]
  <2>1. /\ event # <<>> /\ reply = "none" /\ UNCHANGED <<link, why, event, wanted, app, stale, missed, leftover>>
        /\ IF Reconnects(e) THEN reply' = "leave" ELSE reply' = "none"
    BY <1>12 DEF StationCallback, At
  <2>2. CASE Twice'
    BY <2>2, NotTrusted DEF Trusted
  <2>3. CASE ~Twice' /\ Trusted'
    <3>1. Ahead(Untold, e, Untold') /\ heard = 0
      BY <1>12, <2>3, ToldOf
    <3>2. Trusted
      BY <2>1, <2>3, <3>1 DEF Trusted, Twice
    <3>3. LossLast(Untold, Linking) /\ (Linking' <=> Linking)
      BY <2>1, <3>2 DEF AnswerInv, LossInv, Linking
    <3>4. LossLast(Untold', Linking) /\ (Hot(e) => ~Linking /\ NoLoss(Untold'))
      BY <3>1, <3>3, LossAhead
    <3>5. Reconnects(e) => Hot(e)
      BY DEF Reconnects, Hot
    <3>6. LossInv'
      BY <2>1, <3>3, <3>4, <3>5 DEF LossInv, LossLast
    <3>7. ASSUME link = "idle" PROVE why # "leave" /\ (why \in Retried /\ AutoReconnect => HasRetry(Untold))
      BY <2>1, <3>2, <3>7 DEF AnswerInv, RetryInv
    <3>8. ASSUME HasRetry(Untold), AutoReconnect PROVE reply' # "none" \/ HasRetry(Untold')
      <4>1. PICK i \in 1 .. Len(Untold) : Hot(Untold[i]) /\ Untold[i].reason \in Retried
        BY <3>8 DEF HasRetry
      <4>2. CASE i = 1
        <5>1. Reconnects(e)
          BY <3>1, <3>8, <4>1, <4>2 DEF Ahead, Reconnects, Hot
        <5>2. QED
          BY <2>1, <5>1
      <4>3. CASE i # 1
        <5>1. PICK j \in 1 .. Len(Untold') : Untold[i] = Untold'[j]
          BY <3>1, <4>3 DEF Ahead
        <5>2. QED
          BY <4>1, <5>1 DEF HasRetry
      <4>4. QED
        BY <4>2, <4>3
    <3>9. RetryInv'
      BY <2>1, <3>7, <3>8 DEF RetryInv
    <3>10. QED
      BY <3>6, <3>9 DEF AnswerInv
  <2>4. QED
    BY <2>2, <2>3, NotTrusted
<1>13. CASE CallbackLeaves
  <2>1. /\ reply = "leave" /\ reply' = "join" /\ Leave /\ (Trusted' => Trusted)
        /\ UNCHANGED <<event, heard, queue, posting>>
    BY <1>13 DEF CallbackLeaves, Trusted, Twice
  <2>2. CASE ~Trusted'
    BY <2>2, NotTrusted
  <2>3. CASE Trusted'
    <3>1. LossLast(Untold, Linking) /\ ~Linking /\ NoLoss(Untold)
      BY <2>1, <2>3 DEF AnswerInv, LossInv
    <3>2. UNCHANGED <<link, ip, why, sys>>
      BY <2>1, <3>1, LeaveSends DEF Linking
    <3>3. Untold' = Untold
      BY <2>1, <3>2, UntoldStays
    <3>4. LossInv'
      BY <3>1, <3>2, <3>3 DEF LossInv, Linking
    <3>5. RetryInv'
      BY <2>1, <2>3, <3>2 DEF AnswerInv, RetryInv
    <3>6. QED
      BY <3>4, <3>5 DEF AnswerInv
  <2>4. QED
    BY <2>2, <2>3
<1>14. CASE CallbackTests
  <2>1. /\ reply = "join" /\ (Trusted' => Trusted)
        /\ UNCHANGED <<event, heard, queue, posting, sys, link, why, wanted, leftover, netif, bits>>
    BY <1>14 DEF CallbackTests, Trusted, Twice
  <2>2. Untold' = Untold
    BY <2>1, UntoldStays
  <2>3. CASE netif /\ "connected" \notin bits
    <3>1. reply' = "config"
      BY <1>14, <2>3 DEF CallbackTests
    <3>2. QED
      BY <2>1, <2>2, <3>1, AnswerStays
  <2>4. CASE ~(netif /\ "connected" \notin bits)
    <3>1. CASE ~Trusted'
      BY <3>1, NotTrusted
    <3>2. CASE Trusted'
      <4>1. NoLoss(Untold) /\ ~Linking /\ wanted /\ ~leftover
        BY <2>1, <3>2 DEF AnswerInv, LossInv, Trusted
      <4>2. netif
        BY <4>1 DEF CallsInv
      <4>3. FALSE
        BY <2>4, <4>1, <4>2, TrueBit DEF Linking
      <4>4. QED
        BY <4>3
    <3>3. QED
      BY <3>1, <3>2
  <2>5. QED
    BY <2>3, <2>4
<1>15. CASE CallbackConfigures
  <2>1. /\ reply = "config" /\ (Trusted' => Trusted)
        /\ UNCHANGED <<event, heard, queue, posting, sys, link, why, wanted, netif>>
    BY <1>15 DEF CallbackConfigures, Trusted, Twice
  <2>2. Untold' = Untold
    BY <2>1, UntoldStays
  <2>3. CASE netif
    <3>1. reply' = "order"
      BY <1>15, <2>3 DEF CallbackConfigures
    <3>2. QED
      BY <2>1, <2>2, <3>1, AnswerStays
  <2>4. CASE ~netif
    <3>1. ~wanted'
      BY <2>1, <2>4 DEF CallsInv
    <3>2. QED
      BY <3>1, NotTrusted DEF Trusted
  <2>5. QED
    BY <2>3, <2>4
<1>16. CASE CallbackJoins
  <2>1. /\ reply = "order" /\ reply' = "none" /\ DriverJoins /\ (Trusted' => Trusted)
        /\ UNCHANGED <<event, heard, queue, posting, sys>>
    BY <1>16 DEF CallbackJoins, Returns, Trusted, Twice
  <2>2. CASE ~Trusted'
    BY <2>2, NotTrusted
  <2>3. CASE Trusted'
    <3>1. NoLoss(Untold)
      BY <2>1, <2>3 DEF AnswerInv, LossInv
    <3>2. link' # "idle"
      BY <2>1 DEF DriverJoins
    <3>3. NoLoss(Untold')
      BY <2>1, <3>1, UntoldStays
    <3>4. LossInv'
      BY <2>1, <3>3, NoLossLast DEF LossInv
    <3>5. QED
      BY <3>2, <3>4 DEF AnswerInv, RetryInv
  <2>4. QED
    BY <2>2, <2>3
<1>17. CASE Begin
  <2>1. ~wanted'
    BY <1>17 DEF Begin, Calls, Go, CallsInv
  <2>2. QED
    BY <2>1, NotTrusted DEF Trusted
<1>18. CASE Enables
  <2>1. ~wanted'
    BY <1>18 DEF Enables, Go, CallsInv
  <2>2. QED
    BY <2>1, NotTrusted DEF Trusted
<1>19. CASE Starts
  <2>1. ~wanted'
    BY <1>19 DEF Starts, Go, CallsInv, Down
  <2>2. QED
    BY <2>1, NotTrusted DEF Trusted
<1>20. CASE Connect
  <2>1. /\ netif /\ UNCHANGED <<event, heard, queue, posting, sys, reply, leftover, link>>
        /\ app \in {"connect", "idle"}
        /\ \/ app' = "config"
           \/ "connected" \in bits /\ (stale' <=> stale \/ OnItsWay # {})
    BY <1>20 DEF Connect, Calls, Go
  <2>2. CASE ~Trusted'
    BY <2>2, NotTrusted
  <2>3. CASE Trusted'
    <3>1. OnItsWay = {}
      BY <2>1, <2>3 DEF Trusted
    <3>2. NoLoss(Untold)
      BY <3>1, OnTheWay DEF NoLoss, Contains
    <3>3. reply = "none"
      BY <3>1, NoReply
    <3>4. NoLoss(Untold')
      BY <2>1, <3>2, UntoldStays
    <3>5. LossInv'
      BY <2>1, <3>3, <3>4, NoLossLast DEF LossInv
    <3>6. link = "linked"
      BY <2>1, <2>3, <3>2, TrueBit DEF Trusted
    <3>7. QED
      BY <2>1, <3>5, <3>6 DEF AnswerInv, RetryInv
  <2>4. QED
    BY <2>2, <2>3
<1>21. CASE Configure
  <2>1. app' = "order"
    BY <1>21 DEF Configure, Go
  <2>2. QED
    BY <2>1, NotTrusted DEF Trusted
<1>22. CASE Order
  <2>1. /\ DriverJoins /\ (stale' <=> stale \/ OnItsWay # {})
        /\ UNCHANGED <<event, heard, queue, posting, sys, reply>>
    BY <1>22 DEF Order
  <2>2. CASE ~Trusted'
    BY <2>2, NotTrusted
  <2>3. CASE Trusted'
    <3>1. OnItsWay = {}
      BY <2>1, <2>3 DEF Trusted
    <3>2. NoLoss(Untold)
      BY <3>1, OnTheWay DEF NoLoss, Contains
    <3>3. reply = "none"
      BY <3>1, NoReply
    <3>4. NoLoss(Untold')
      BY <2>1, <3>2, UntoldStays
    <3>5. LossInv'
      BY <2>1, <3>3, <3>4, NoLossLast DEF LossInv
    <3>6. link' # "idle"
      BY <2>1 DEF DriverJoins
    <3>7. QED
      BY <3>5, <3>6 DEF AnswerInv, RetryInv
  <2>4. QED
    BY <2>2, <2>3
<1>23. CASE Disconnect
  <2>1. ~wanted'
    BY <1>23 DEF Disconnect, Calls, CallsInv
  <2>2. QED
    BY <2>1, NotTrusted DEF Trusted
<1>24. CASE Reconnect
  <2>1. app' = "rejoin"
    BY <1>24 DEF Reconnect, Go
  <2>2. QED
    BY <2>1, NotTrusted DEF Trusted
<1>25. CASE Rejoins
  <2>1. /\ DriverJoins /\ (stale' <=> stale \/ OnItsWay \ {"leave"} # {})
        /\ UNCHANGED <<event, heard, queue, posting, sys, reply>>
    BY <1>25 DEF Rejoins
  <2>2. CASE ~Trusted'
    BY <2>2, NotTrusted
  <2>3. CASE Trusted'
    <3>1. OnItsWay \subseteq {"leave"}
      BY <2>1, <2>3 DEF Trusted
    <3>2. \A i \in 1 .. Len(Untold) : ~Hot(Untold[i])
      BY <3>1, OnTheWay DEF Hot, Contains
    <3>3. reply = "none"
      <4>1. ASSUME reply # "none" PROVE FALSE
        <5>1. event # <<>> /\ Hot(event[1])
          BY <4>1 DEF ReplyInv
        <5>2. Contains(event, event[1])
          BY <5>1, Single DEF QueueType, Contains
        <5>3. QED
          BY <3>1, <5>1, <5>2, OnTheWay DEF Hot
      <4>2. QED
        BY <4>1
    <3>4. link' # "idle"
      BY <2>1 DEF DriverJoins
    <3>5. Untold' = Untold
      BY <2>1, UntoldStays
    <3>6. LossInv'
      BY <2>1, <3>2, <3>3, <3>5 DEF LossInv, LossLast
    <3>7. QED
      BY <3>4, <3>6 DEF AnswerInv, RetryInv
  <2>4. QED
    BY <2>2, <2>3
<1>26. CASE Stops
  <2>1. ~wanted'
    BY <1>26 DEF Stops, Calls, Go, CallsInv
  <2>2. QED
    BY <2>1, NotTrusted DEF Trusted
<1>27. CASE Deinits
  <2>1. ~wanted'
    BY <1>27 DEF Deinits, Go, CallsInv, Down
  <2>2. QED
    BY <2>1, NotTrusted DEF Trusted
<1>28. CASE Unlists
  <2>1. ~wanted'
    BY <1>28 DEF Unlists, Go, CallsInv, Down
  <2>2. QED
    BY <2>1, NotTrusted DEF Trusted
<1>29. CASE Destroys
  <2>1. ~wanted'
    BY <1>29 DEF Destroys, Go, CallsInv, Down
  <2>2. QED
    BY <2>1, NotTrusted DEF Trusted
<1>30. CASE Unhooks
  <2>1. ~wanted'
    BY <1>30 DEF Unhooks, Go, CallsInv
  <2>2. QED
    BY <2>1, NotTrusted DEF Trusted
<1>31. CASE SoftApOn
  <2>1. /\ UNCHANGED <<event, heard, queue, posting, sys, link, why, reply>>
        /\ Trusted' => Trusted
    BY <1>31 DEF SoftApOn, Calls, Trusted, Twice
  <2>2. QED
    BY <2>1, UntoldStays, AnswerStays
<1>32. CASE SoftApOff
  <2>1. /\ UNCHANGED <<event, heard, queue, posting, sys, link, why, reply>>
        /\ Trusted' => Trusted
    BY <1>32 DEF SoftApOff, Calls, Trusted, Twice
  <2>2. QED
    BY <2>1, UntoldStays, AnswerStays
<1>33. CASE OnEvent
  <2>1. /\ UNCHANGED <<event, heard, queue, posting, sys, link, why, reply>>
        /\ Trusted' => Trusted
    BY <1>33 DEF OnEvent, Calls, Trusted, Twice
  <2>2. QED
    BY <2>1, UntoldStays, AnswerStays
<1>34. CASE RemoveEvent
  <2>1. /\ UNCHANGED <<event, heard, queue, posting, sys, link, why, reply>>
        /\ Trusted' => Trusted
    BY <1>34 DEF RemoveEvent, Calls, Trusted, Twice
  <2>2. QED
    BY <2>1, UntoldStays, AnswerStays
<1>35. CASE UNCHANGED vars
  <2>1. /\ UNCHANGED <<event, heard, queue, posting, sys, link, why, reply>>
        /\ Trusted' => Trusted
    BY <1>35 DEF vars, Trusted, Twice
  <2>2. QED
    BY <2>1, UntoldStays, AnswerStays
<1>36. QED
  BY <1>1, <1>2, <1>3, <1>4, <1>5, <1>6, <1>7, <1>8, <1>9, <1>10, <1>11,
     <1>12, <1>13, <1>14, <1>15, <1>16, <1>17, <1>18, <1>19, <1>20, <1>21,
     <1>22, <1>23, <1>24, <1>25, <1>26, <1>27, <1>28, <1>29, <1>30, <1>31,
     <1>32, <1>33, <1>34, <1>35
  DEF Next

(***************************************************************************)
(* The theorems                                                            *)
(***************************************************************************)
LEMMA Initially ==
  ASSUME Init
  PROVE  IInv
<1> USE DEF Init
<1>1. BoolType
  BY DEF BoolType
<1>2. ScalarType
  BY DEF ScalarType
<1>3. QueueType
  BY EmptySeq DEF QueueType
<1>4. CallsInv /\ ReplyInv /\ WalkInv
  BY DEF CallsInv, Down, ReplyInv, WalkInv
<1>5. ListInv
  BY DEF ListInv, Unique, StationFirst, Contains
<1>6. BitsInv
  <2>1. ~Up("started") /\ ~Up("connected") /\ ~Up("ip")
    BY DEF Up
  <2>2. QED
    BY <2>1 DEF BitsInv, BitAgrees
<1>7. LinkInv /\ StatusInv
  BY DEF LinkInv, LinkAgrees, StatusInv
<1>8. AnswerInv
  BY DEF AnswerInv, LossInv, RetryInv, Trusted
<1>9. QED
  BY <1>1, <1>2, <1>3, <1>4, <1>5, <1>6, <1>7, <1>8 DEF IInv, TypeInv

LEMMA Invariance == Spec => []IInv
<1>1. Init => IInv
  BY Initially
<1>2. IInv /\ [Next]_vars => IInv'
  <2> SUFFICES ASSUME IInv, [Next]_vars PROVE IInv'
    OBVIOUS
  <2> USE DEF IInv, TypeInv
  <2>1. BoolType'
    BY BoolStep
  <2>2. ScalarType'
    BY ScalarStep
  <2>3. QueueType'
    BY QueueStep
  <2>4. CallsInv'
    BY CallsStep
  <2>5. ListInv'
    BY ListStep
  <2>6. WalkInv'
    BY WalkStep
  <2>7. ReplyInv'
    BY ReplyStep
  <2>8. BitsInv'
    BY BitsStep
  <2>9. LinkInv'
    BY LinkStep
  <2>10. StatusInv'
    BY StatusStep
  <2>11. AnswerInv'
    BY AnswerStep
  <2>12. QED
    BY <2>1, <2>2, <2>3, <2>4, <2>5, <2>6, <2>7, <2>8, <2>9, <2>10, <2>11
<1>3. QED
  BY <1>1, <1>2, PTL DEF Spec

(* NetworkEvents.cpp:120: the walk goes by index over a list that changes  *)
(* under it.  Whatever the sketch does with callbacks of its own, the      *)
(* station's gets every event exactly once while no system callback comes  *)
(* or goes, for every number of calls and losses and every queue size.     *)
THEOREM StationIsHeard == Spec => []StationHears
<1>1. IInv => StationHears
  <2> SUFFICES ASSUME IInv, event # <<>>, fresh
               PROVE  heard <= 1 /\ (index > Len(list) /\ Contains(list, "sta") => heard = 1)
    BY DEF StationHears
  <2>1. WalkInv /\ index \in Nat /\ Len(list) \in Nat
    BY LenProperties DEF IInv, TypeInv, ScalarType, ListInv
  <2>2. CASE ~Contains(list, "sta")
    BY <2>1, <2>2 DEF WalkInv
  <2>3. CASE Contains(list, "sta")
    <3>1. PICK p \in 1 .. Len(list) : list[p] = "sta"
      BY <2>3 DEF Contains
    <3>2. heard = IF Passed(p) THEN 1 ELSE 0
      BY <2>1, <3>1 DEF WalkInv
    <3>3. index > Len(list) => Passed(p)
      BY <2>1 DEF Passed
    <3>4. QED
      BY <3>2, <3>3
  <2>4. QED
    BY <2>2, <2>3
<1>2. QED
  BY <1>1, Invariance, PTL

(* Once every event is handled the bits and the status agree with the      *)
(* driver, in whatever order the driver, the two tasks and the sketch      *)
(* moved, if no callback was missed and no bit survived the interface; the *)
(* address as long as every IP event found its handler.                    *)
THEOREM StatusIsTrue == Spec => []StatusSettles
<1>1. IInv => StatusSettles
  <2> SUFFICES ASSUME IInv, Settled, netif, ~missed, ~leftover
               PROVE  /\ "started" \in bits /\ ("connected" \in bits <=> link = "linked")
                      /\ ~unheard =>
                           /\ "ip" \in bits <=> ip
                           /\ ip => status = "connected"
                           /\ status = "connected" => ip \/ why = "expire"
    BY DEF StatusSettles
  <2>1. /\ sys = <<>> /\ posting = <<>> /\ queue = <<>> /\ event = <<>> /\ app = "idle" /\ ~owes
    BY DEF Settled
  <2>2. link # "off"
    BY <2>1 DEF IInv, CallsInv, Down
  <2>3. ASSUME NEW bit \in Bits, bit # "ip" \/ ~unheard PROVE bit \in bits <=> Up(bit)
    BY <2>1, <2>3 DEF IInv, BitsInv, BitAgrees, Bits, Loose
  <2>4. /\ "started" \in bits /\ ("connected" \in bits <=> link = "linked")
        /\ ~unheard => ("ip" \in bits <=> ip)
    BY <2>2, <2>3, Ups DEF Bits
  <2>5. Untold = <<>> /\ ~Twice
    <3>1. ~Told /\ ~Twice
      BY <2>1 DEF Told, Twice
    <3>2. Untold = <<>> \o <<>> \o <<>> \o <<>>
      BY <2>1, <3>1 DEF Untold
    <3>3. <<>> \o <<>> = <<>>
      BY EmptySeq, ConcatEmptySeq
    <3>4. QED
      BY <3>1, <3>2, <3>3
  <2>6. ~unheard => StatusAgrees(<<>>, status = "connected", ip, why = "expire" \/ owes)
    BY <2>2, <2>5 DEF IInv, StatusInv
  <2>7. ~unheard => (ip => status = "connected") /\ (status = "connected" => ip \/ why = "expire")
    BY <2>1, <2>6 DEF StatusAgrees
  <2>8. QED
    BY <2>4, <2>7
<1>2. QED
  BY <1>1, Invariance, PTL

(* STA.cpp:148-163.  A loss that is worth a retry gets one: once every     *)
(* event is handled, a station that is meant to be connected is not left   *)
(* idle after such a loss, provided the sketch did not connect while a     *)
(* disconnection was on its way.                                           *)
THEOREM RetriesHappen == Spec => []NotAbandoned
<1>1. IInv => NotAbandoned
  <2> SUFFICES ASSUME IInv, Settled, wanted, AutoReconnect, link = "idle",
                      ~(stale \/ missed \/ leftover)
               PROVE  why \notin Retried \cup {"leave"}
    BY DEF NotAbandoned
  <2>1. /\ sys = <<>> /\ posting = <<>> /\ queue = <<>> /\ event = <<>> /\ app = "idle"
    BY DEF Settled
  <2>2. Trusted /\ reply = "none"
    BY <2>1 DEF Trusted, Twice, IInv, ReplyInv
  <2>3. ~HasRetry(Untold)
    <3>1. \A e : ~Contains(Untold, e)
      <4>1. \A e : ~Contains(<<>>, e)
        BY DEF Contains
      <4>2. QED
        BY <2>1, <4>1, InUntold DEF IInv, TypeInv
    <3>2. QED
      BY <3>1 DEF HasRetry, Contains
  <2>4. QED
    BY <2>2, <2>3 DEF IInv, AnswerInv, RetryInv
<1>2. QED
  BY <1>1, Invariance, PTL
================================================================================
