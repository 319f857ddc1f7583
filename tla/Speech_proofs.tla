------------------------------ MODULE Speech_proofs ------------------------------
(* Proofs about Speech, for every number of speeches, playbacks,           *)
(* recordings and recognitions and every rate.                             *)
EXTENDS Speech, FiniteSetTheorems, TLAPS

(***************************************************************************)
(* The invariants                                                          *)
(***************************************************************************)
(* Where ttsTask() can be.                                                 *)
SpeechLabels == Holding \cup {"off", "ask", "take", "done"}
Serial == \A t, u \in Speeches : (pc[t] \in Holding /\ pc[u] \in Holding) => t = u
Held == \E t \in Speeches : pc[t] \in Holding

(* Before there is a semaphore there is no speech, and the first semaphore *)
(* is free or held by the one speech that will give it back.               *)
SpeechInv ==
  /\ pc = [u \in Users |-> pc[u]] /\ dpc = [r \in Runs |-> dpc[r]]
  /\ \A t \in Speeches : pc[t] \in SpeechLabels
  /\ made \in Nat /\ sem \in 0 .. made /\ token \subseteq 1 .. made
  /\ inited \/ (\E w \in Initialisers : At(w) = "ready") => made # 0
  /\ made = 0 => \A t \in Speeches : pc[t] = "off"
  /\ ~replaced => made <= 1 /\ sem = made /\ fault # "semaphore"
  /\ ~replaced /\ made = 1 => Serial /\ ((1 \in token) # Held)

(* A recognition whose predecessor's tasks have ended starts only beside a *)
(* capture task that was left behind, and a recording never while it runs. *)
MicInv ==
  /\ capture => recording \/ orphan
  /\ ~timedOut /\ (feeding # {} \/ op = "sr") => (capture => orphan)
  /\ op = "record" => ~capture /\ (~timedOut => feeding = {})
  /\ op = "stopRecord" => (capture => orphan)

(* Before a join gives up, the recogniser is the one of every task there   *)
(* is, and a task's bit means that the task has ended.                     *)
EngineInv ==
  /\ EngineOutlivesTasks /\ feeding \subseteq Runs
  /\ pc["app"] = "join" <=> op \in {"both", "detect"}
  /\ pc["app"] = "spawn" => op = "sr" /\ srFlag
  /\ op = "sr" => afe \in Runs /\ afe \notin feeding
  /\ op = "sr" /\ pc["app"] # "spawn" => dpc[afe] = "off"
  /\ ~timedOut =>
       /\ \A r \in Runs : Alive(r) => afe = r
       /\ "feed" \in done => feeding = {}
       /\ "detect" \in done => \A r \in Runs : dpc[r] = "off"
       /\ pc["app"] = "spawn" => "feed" \notin done
       /\ op = "detect" => feeding = {}
       /\ feeding # {} => srFlag \/ op = "both"

(* While no two users were inside the device's functions and the driver    *)
(* has not failed, the two records of what is open agree but for the one   *)
(* that is being changed.                                                  *)
Between == {"reflags", "closeflags", "device", "publish"}
Sound == ~muddled
Agree == IF opened THEN codec.open /\ codec.rate = rate ELSE ~codec.open
DeviceInv ==
  Sound =>
    /\ codec.open => codec.works
    /\ \A u, v \in Users : pc[u] \in Inside /\ pc[v] \in Inside => u = v
    /\ (\A u \in Users : pc[u] \notin Between) => Agree
    /\ \A u \in Users :
         /\ pc[u] \in {"reflags", "closeflags", "device"} => ~codec.open
         /\ pc[u] = "publish" => codec.open /\ codec.rate = Want(u)
    /\ \A t \in Speeches :
         pc[t] = "opened" /\ t \notin disturbed => codec.open /\ codec.rate = Want(t)

SInv == SpeechInv /\ MicInv /\ EngineInv /\ DeviceInv

(***************************************************************************)
(* The speeches and their semaphore                                        *)
(***************************************************************************)
(* Where a move leaves the users.                                          *)
LEMMA GoMoves ==
  ASSUME pc = [u \in Users |-> pc[u]], NEW u \in Users, NEW label, Go(u, label)
  PROVE  /\ pc' = [v \in Users |-> pc'[v]] /\ pc'[u] = label
         /\ \A v \in Users : v # u => pc'[v] = pc[v]
<1>1. pc' = [v \in Users |-> IF v = u THEN label ELSE pc[v]]
  BY DEF Go
<1>2. QED
  BY <1>1

(* And a detect task's move the detect tasks.                              *)
LEMMA DetectGoes ==
  ASSUME dpc = [r \in Runs |-> dpc[r]], NEW r \in Runs, NEW label,
         dpc' = [dpc EXCEPT ![r] = label]
  PROVE  /\ dpc' = [q \in Runs |-> dpc'[q]] /\ dpc'[r] = label
         /\ \A q \in Runs : q # r => dpc'[q] = dpc[q]
<1>1. dpc' = [q \in Runs |-> IF q = r THEN label ELSE dpc[q]]
  OBVIOUS
<1>2. QED
  BY <1>1

(* The users are different ones, and so are the initialisers.              *)
LEMMA UsersDiffer ==
  /\ "app" \in Users /\ "dec" \in Users /\ Speeches \subseteq Users
  /\ \A t \in Speeches : t # "app" /\ t # "dec"
  /\ "app" \in Initialisers /\ Runs \subseteq Initialisers
  /\ \A r \in Runs : r # "app" /\ r # "none"
  BY SpeechAssumption DEF Users, Initialisers

(* Where an initialiser's move leaves everybody.                           *)
LEMMA MoveToMoves ==
  ASSUME SpeechInv, NEW w \in Initialisers, NEW label, MoveTo(w, label)
  PROVE  /\ pc' = [u \in Users |-> pc'[u]] /\ dpc' = [r \in Runs |-> dpc'[r]]
         /\ \A t \in Speeches : pc'[t] = pc[t]
         /\ w # "app" => pc'["app"] = pc["app"]
         /\ At(w)' = label /\ \A v \in Initialisers : v # w => At(v)' = At(v)
<1>1. pc = [u \in Users |-> pc[u]] /\ dpc = [r \in Runs |-> dpc[r]]
  BY DEF SpeechInv
<1>2. CASE w = "app"
  <2>1. Go("app", label) /\ UNCHANGED dpc
    BY <1>2 DEF MoveTo
  <2>2. /\ pc' = [u \in Users |-> pc'[u]] /\ pc'["app"] = label
        /\ \A u \in Users : u # "app" => pc'[u] = pc[u]
    BY <1>1, <2>1, GoMoves, UsersDiffer
  <2>3. QED
    BY <1>1, <1>2, <2>1, <2>2, UsersDiffer DEF At
<1>3. CASE w # "app"
  <2>1. w \in Runs /\ dpc' = [dpc EXCEPT ![w] = label] /\ UNCHANGED pc
    BY <1>3 DEF MoveTo, Initialisers
  <2>2. /\ dpc' = [r \in Runs |-> dpc'[r]] /\ dpc'[w] = label
        /\ \A r \in Runs : r # w => dpc'[r] = dpc[r]
    BY <1>1, <2>1, DetectGoes
  <2>3. \A v \in Initialisers : v # w => At(v)' = At(v)
    BY <2>1, <2>2 DEF At, Initialisers
  <2>4. QED
    BY <1>1, <1>3, <2>1, <2>2, <2>3 DEF At
<1>4. QED
  BY <1>2, <1>3

(* A step that moves no speech, the semaphore or an initialiser to "ready" *)
(* leaves the invariant alone.                                             *)
LEMMA SpeechFrame ==
  ASSUME SpeechInv, NEW label, Go("app", label) \/ Go("dec", label) \/ UNCHANGED pc,
         label # "ready", dpc' = [r \in Runs |-> dpc'[r]],
         \A r \in Runs : dpc'[r] = "ready" => dpc[r] = "ready",
         UNCHANGED <<inited, sem, made, token, replaced>>,
         fault' = "semaphore" => fault = "semaphore"
  PROVE  SpeechInv'
<1>1. /\ pc' = [u \in Users |-> pc'[u]] /\ \A t \in Speeches : pc'[t] = pc[t]
      /\ pc'["app"] = "ready" => pc["app"] = "ready"
  <2>1. pc = [u \in Users |-> pc[u]]
    BY DEF SpeechInv
  <2>2. CASE Go("app", label)
    BY <2>1, <2>2, GoMoves, UsersDiffer
  <2>3. CASE Go("dec", label)
    BY <2>1, <2>3, GoMoves, UsersDiffer
  <2>4. CASE UNCHANGED pc
    BY <2>1, <2>4
  <2>5. QED
    BY <2>2, <2>3, <2>4
<1>2. Serial' = Serial /\ Held' = Held
  BY <1>1 DEF Serial, Held
<1>3. \A w \in Initialisers : At(w)' = "ready" => At(w) = "ready"
  BY <1>1 DEF At, Initialisers
<1>4. QED
  BY <1>1, <1>2, <1>3 DEF SpeechInv

(* A speech that moves without changing whether it holds the semaphore.    *)
LEMMA SpeechMoves ==
  ASSUME SpeechInv, NEW t \in Speeches, NEW label \in SpeechLabels, Go(t, label),
         label \in Holding <=> pc[t] \in Holding, made # 0,
         dpc' = [r \in Runs |-> dpc'[r]],
         \A r \in Runs : dpc'[r] = "ready" => dpc[r] = "ready",
         UNCHANGED <<inited, sem, made, token, replaced>>,
         ~replaced /\ fault' = "semaphore" => fault = "semaphore"
  PROVE  SpeechInv'
<1>1. /\ pc' = [u \in Users |-> pc'[u]] /\ pc'[t] = label
      /\ \A u \in Users : u # t => pc'[u] = pc[u]
  BY GoMoves, UsersDiffer DEF SpeechInv
<1>2. \A w \in Initialisers : At(w)' = "ready" => At(w) = "ready"
  BY <1>1, UsersDiffer DEF At, Initialisers
<1>3. \A u \in Speeches : pc'[u] \in SpeechLabels /\ (pc'[u] \in Holding <=> pc[u] \in Holding)
  BY <1>1, UsersDiffer DEF SpeechInv
<1>4. Serial' = Serial /\ Held' = Held
  BY <1>3 DEF Serial, Held
<1>5. QED
  BY <1>1, <1>2, <1>3, <1>4 DEF SpeechInv

LEMMA SpeechInit == Init => SpeechInv
<1> SUFFICES ASSUME Init PROVE SpeechInv
  OBVIOUS
<1>1. /\ pc = [u \in Users |-> pc[u]] /\ pc["app"] = "idle"
      /\ \A t \in Speeches : pc[t] = "off"
  <2>1. pc = [u \in Users |-> IF u = "app" THEN "idle" ELSE "off"]
    BY DEF Init
  <2>2. QED
    BY <2>1, UsersDiffer
<1>2. dpc = [r \in Runs |-> dpc[r]] /\ \A r \in Runs : dpc[r] = "off"
  BY DEF Init
<1>3. \A w \in Initialisers : At(w) # "ready"
  BY <1>1, <1>2 DEF At, Initialisers
<1>4. QED
  BY <1>1, <1>2, <1>3 DEF Init, SpeechInv, SpeechLabels

(* The calls of the device's functions: a speech stays in its part.        *)
LEMMA SpeechDevice ==
  ASSUME SpeechInv, NEW u \in Users, DeviceStep(u)
  PROVE  SpeechInv'
<1>1. UNCHANGED <<inited, sem, made, token, replaced, dpc, fault>>
  BY DEF DeviceStep, tts, sr, other
<1>2. PICK label \in {"opened", "reclose", "device", "reflags", "closeflags", "closed",
                      "publish", "failed"} :
        /\ Go(u, label)
        /\ pc[u] \in {"open", "reclose", "close", "reflags", "closeflags", "device", "publish"}
        /\ label \in {"closeflags", "closed"} <=> pc[u] \in {"close", "closeflags"}
  BY DEF DeviceStep, OpenDecides, CloseDriver, CloseFlags, OpenDriver, Publish
<1>3. dpc' = [r \in Runs |-> dpc'[r]]
  BY <1>1 DEF SpeechInv
<1>4. CASE u \in Speeches
  <2>1. pc[u] \in Holding /\ made # 0
    BY <1>2, <1>4 DEF SpeechInv, SpeechLabels, Holding, Speaking
  <2>2. label \in Holding
    BY <1>2, <2>1 DEF Holding, Speaking
  <2>3. QED
    BY <1>1, <1>2, <1>3, <1>4, <2>1, <2>2, SpeechMoves DEF SpeechLabels
<1>5. CASE u \in {"app", "dec"}
  <2>1. label # "ready"
    BY <1>2
  <2>2. QED
    BY <1>1, <1>2, <1>3, <1>5, <2>1, SpeechFrame
<1>6. QED
  BY <1>4, <1>5 DEF Users

(* ttsInit(): overwriting a semaphore ends what is claimed of the first.   *)
LEMMA SpeechInits ==
  ASSUME SpeechInv, NEW w \in Initialisers, InitStep(w)
  PROVE  SpeechInv'
<1>0. fault' = fault
  BY DEF InitStep, other
<1>1. PICK label \in {"idle", "reply", "create", "reset", "ready"} : MoveTo(w, label)
  BY DEF InitStep, InitChecks, InitCreates, InitDone, Afterwards, GivesUp
<1>2. /\ pc' = [u \in Users |-> pc'[u]] /\ dpc' = [r \in Runs |-> dpc'[r]]
      /\ \A t \in Speeches : pc'[t] = pc[t]
      /\ At(w)' = label /\ \A v \in Initialisers : v # w => At(v)' = At(v)
  BY <1>1, MoveToMoves
<1>3. Serial' = Serial /\ Held' = Held
  BY <1>2 DEF Serial, Held
<1>4. CASE InitCreates(w)
  <2>1. inited' = inited
    BY <1>4 DEF InitCreates
  <2>2. CASE /\ made' = made + 1 /\ sem' = made + 1 /\ token' = token \cup {made + 1}
             /\ replaced' = (replaced \/ sem # 0)
    <3>1. made' \in Nat /\ sem' \in 0 .. made' /\ token' \subseteq 1 .. made' /\ made' # 0
      BY <2>2 DEF SpeechInv
    <3>2. ASSUME ~replaced'
          PROVE  made' = 1 /\ sem' = 1 /\ fault' # "semaphore" /\ Serial' /\ ((1 \in token') # Held')
      <4>1. ~replaced /\ sem = 0
        BY <2>2, <3>2
      <4>2. made = 0 /\ fault # "semaphore"
        BY <4>1 DEF SpeechInv
      <4>3. made' = 1 /\ sem' = 1 /\ 1 \in token'
        BY <2>2, <4>2
      <4>4. \A t \in Speeches : pc[t] \notin Holding
        BY <4>2 DEF SpeechInv, Holding, Speaking
      <4>5. Serial /\ ~Held
        BY <4>4 DEF Serial, Held
      <4>6. QED
        BY <1>0, <1>3, <4>2, <4>3, <4>5
    <3>3. \A t \in Speeches : pc'[t] \in SpeechLabels
      BY <1>2 DEF SpeechInv
    <3>4. QED
      BY <1>2, <3>1, <3>2, <3>3 DEF SpeechInv
  <2>3. CASE sem' = 0 /\ replaced' = (replaced \/ sem # 0) /\ GivesUp(w) /\ UNCHANGED <<made, token>>
    <3>1. made \in Nat /\ sem' \in 0 .. made'
      BY <2>3 DEF SpeechInv
    <3>2. At(w)' # "ready"
      <4>1. PICK l \in {"idle", "reset"} : MoveTo(w, l)
        BY <2>3 DEF GivesUp
      <4>2. QED
        BY <4>1, MoveToMoves
    <3>3. \A v \in Initialisers : At(v)' = "ready" => At(v) = "ready"
      BY <1>2, <3>2
    <3>4. ASSUME ~replaced'
          PROVE  ~replaced /\ sem = 0 /\ made = 0 /\ made' = 0
      <4>1. ~replaced /\ sem = 0
        BY <2>3, <3>4
      <4>2. QED
        BY <2>3, <4>1 DEF SpeechInv
    <3>5. ~replaced' => made' <= 1 /\ sem' = made' /\ fault' # "semaphore"
      BY <1>0, <2>3, <3>4 DEF SpeechInv
    <3>6. ~(~replaced' /\ made' = 1)
      BY <3>4
    <3>7. QED
      BY <1>2, <2>1, <2>3, <3>1, <3>3, <3>5, <3>6 DEF SpeechInv
  <2>4. CASE GivesUp(w) /\ UNCHANGED <<sem, made, token, replaced>>
    <3>1. PICK l \in {"idle", "reset"} : MoveTo(w, l)
      BY <2>4 DEF GivesUp
    <3>2. At(w)' # "ready"
      BY <3>1, MoveToMoves
    <3>3. \A v \in Initialisers : At(v)' = "ready" => At(v) = "ready"
      BY <1>2, <3>2
    <3>4. QED
      BY <1>0, <1>2, <1>3, <2>1, <2>4, <3>3 DEF SpeechInv
  <2>5. QED
    BY <1>4, <2>2, <2>3, <2>4 DEF InitCreates
<1>5. CASE InitChecks(w)
  <2>1. UNCHANGED <<inited, sem, made, token, replaced>>
    BY <1>5 DEF InitChecks
  <2>2. PICK l \in {"idle", "reply", "create"} : MoveTo(w, l)
    BY <1>5 DEF InitChecks, Afterwards
  <2>3. At(w)' # "ready"
    BY <2>2, MoveToMoves
  <2>4. \A v \in Initialisers : At(v)' = "ready" => At(v) = "ready"
    BY <1>2, <2>3
  <2>5. QED
    BY <1>0, <1>2, <1>3, <2>1, <2>4 DEF SpeechInv
<1>6. CASE InitDone(w)
  <2>1. made # 0 /\ UNCHANGED <<sem, made, token, replaced>>
    BY <1>6 DEF InitDone, SpeechInv
  <2>2. QED
    BY <1>0, <1>2, <1>3, <2>1 DEF SpeechInv
<1>7. QED
  BY <1>4, <1>5, <1>6 DEF InitStep

(* ttsTask(): taken by the only one that finds it free, given back by the  *)
(* only one that holds it.                                                 *)
LEMMA SpeechSpeaks ==
  ASSUME SpeechInv, NEW t \in Speeches, SpeechStep(t)
  PROVE  SpeechInv'
<1>1. UNCHANGED <<inited, sem, made, replaced, dpc>>
  BY DEF SpeechStep, sr
<1>2. /\ made \in Nat /\ sem \in 0 .. made /\ token \subseteq 1 .. made
      /\ pc = [u \in Users |-> pc[u]] /\ dpc' = [r \in Runs |-> dpc'[r]]
  BY <1>1 DEF SpeechInv
<1>3. pc[t] # "off" => made # 0
  BY DEF SpeechInv
<1>4. pc[t] # "off" /\ ~replaced => made = 1 /\ sem = 1 /\ fault # "semaphore"
  BY <1>2, <1>3 DEF SpeechInv
<1>5. pc[t] # "off"
  BY DEF SpeechStep, SpeechAsks, SpeechTakes, SpeechWrites, SpeechFindsNoDevice, SpeechGives
<1>6. ~replaced => fault' # "semaphore"
  <2>1. Asserts \/ UNCHANGED fault
    BY DEF SpeechStep, SpeechAsks, SpeechTakes, SpeechWrites, SpeechFindsNoDevice, SpeechGives
  <2>2. QED
    BY <1>4, <1>5, <2>1 DEF Asserts
<1>7. CASE SpeechAsks(t) \/ SpeechWrites(t) \/ SpeechFindsNoDevice(t)
  <2>1. PICK label \in {"take", "give"} :
          /\ Go(t, label) /\ pc[t] # "off"
          /\ label \in Holding <=> pc[t] \in Holding
    BY <1>7 DEF SpeechAsks, SpeechWrites, SpeechFindsNoDevice, Holding, Speaking
  <2>2. label \in SpeechLabels /\ UNCHANGED token
    BY <1>7, <2>1 DEF SpeechLabels, Holding, SpeechAsks, SpeechWrites, SpeechFindsNoDevice
  <2>3. QED
    BY <1>1, <1>2, <1>3, <1>6, <2>1, <2>2, SpeechMoves
<1>8. CASE SpeechTakes(t) \/ SpeechGives(t)
  <2>1. PICK label \in {"open", "done"} : Go(t, label) /\ pc[t] \in {"take", "give"}
    BY <1>8 DEF SpeechTakes, SpeechGives
  <2>2. /\ pc' = [u \in Users |-> pc'[u]] /\ pc'[t] = label
        /\ \A u \in Users : u # t => pc'[u] = pc[u]
    BY <1>2, <2>1, GoMoves, UsersDiffer
  <2>3. \A w \in Initialisers : At(w)' = At(w)
    BY <1>1, <2>2, UsersDiffer DEF At, Initialisers
  <2>4. \A u \in Speeches : pc'[u] \in SpeechLabels
    BY <2>2, UsersDiffer DEF SpeechInv, SpeechLabels, Holding, Speaking
  <2>5. made # 0
    BY <1>3, <2>1
  <2>6. token' \subseteq 1 .. made
    <3>1. token' \subseteq token \cup ({sem} \ {0})
      BY <1>8 DEF SpeechTakes, SpeechGives
    <3>2. {sem} \ {0} \subseteq 1 .. made
      BY <1>2
    <3>3. QED
      BY <1>2, <3>1, <3>2
  <2>7. ~replaced /\ made = 1 => Serial' /\ ((1 \in token') # Held')
    <3>1. SUFFICES ASSUME ~replaced, made = 1 PROVE Serial' /\ ((1 \in token') # Held')
      OBVIOUS
    <3>2. Serial /\ ((1 \in token) # Held) /\ sem = 1
      BY <3>1 DEF SpeechInv
    <3>3. CASE SpeechTakes(t)
      <4>1. waits[t] = 1 /\ token' = token \ {1} /\ label = "open" /\ 1 \in token
        BY <1>2, <2>2, <3>1, <3>3, UsersDiffer DEF SpeechTakes, Go
      <4>2. \A u \in Speeches : u # t => pc'[u] \notin Holding
        BY <2>2, <3>2, <4>1, UsersDiffer DEF Held
      <4>3. Serial' /\ Held'
        BY <2>2, <4>1, <4>2 DEF Serial, Held, Holding
      <4>4. QED
        BY <4>1, <4>3
    <3>4. CASE SpeechGives(t)
      <4>1. pc[t] = "give" /\ token' = token \cup {1} /\ label = "done"
        BY <1>2, <2>2, <3>1, <3>2, <3>4, UsersDiffer DEF SpeechGives, Go
      <4>2. \A u \in Speeches : pc'[u] \notin Holding
        BY <2>2, <3>2, <4>1, UsersDiffer DEF Serial, Holding, Speaking
      <4>3. QED
        BY <4>1, <4>2 DEF Serial, Held
    <3>5. QED
      BY <1>8, <3>3, <3>4
  <2>8. ~replaced => made <= 1 /\ sem = made
    BY DEF SpeechInv
  <2>9. QED
    BY <1>1, <1>2, <1>6, <2>2, <2>3, <2>4, <2>5, <2>6, <2>7, <2>8 DEF SpeechInv
<1>9. QED
  BY <1>7, <1>8 DEF SpeechStep

(* A task is created for a speech.                                         *)
LEMMA SpeechSpawns ==
  ASSUME SpeechInv, Speaks, dpc' = [r \in Runs |-> dpc'[r]],
         \A r \in Runs : dpc'[r] = "ready" => dpc[r] = "ready",
         UNCHANGED <<inited, sem, made, token, replaced>>,
         fault' = "semaphore" => fault = "semaphore"
  PROVE  SpeechInv'
<1>1. PICK t \in Speeches : pc[t] = "off" /\ Go(t, "ask") /\ inited
  BY DEF Speaks
<1>2. made # 0
  BY <1>1 DEF SpeechInv
<1>3. "ask" \in SpeechLabels /\ "ask" \notin Holding /\ "off" \notin Holding
  BY DEF SpeechLabels, Holding, Speaking
<1>4. QED
  BY <1>1, <1>2, <1>3, SpeechMoves

LEMMA SpeechNext == SpeechInv /\ EngineInv /\ [Next]_vars => SpeechInv'
<1> SUFFICES ASSUME SpeechInv, EngineInv, [Next]_vars PROVE SpeechInv'
  OBVIOUS
<1>0. dpc = [r \in Runs |-> dpc[r]]
  BY DEF SpeechInv
<1>1. CASE AppInits \/ RecordFails \/ CaptureEnds
  <2>1. UNCHANGED <<inited, sem, made, token, replaced, dpc, fault>>
    BY <1>1 DEF AppInits, RecordFails, CaptureEnds, tts, sr, other
  <2>2. PICK label \in {"init", "open"} : Go("app", label) \/ UNCHANGED pc
    BY <1>1 DEF AppInits, RecordFails, CaptureEnds, users
  <2>3. QED
    BY <1>0, <2>1, <2>2, SpeechFrame
<1>2. ASSUME NEW r \in Runs, SrBegin(r) \/ FeedStep(r) PROVE SpeechInv'
  <2>1. UNCHANGED <<inited, sem, made, token, replaced, dpc>>
    BY <1>2 DEF SrBegin, FeedStep, tts
  <2>2. PICK label \in {"init", "open"} : Go("app", label) \/ UNCHANGED pc
    BY <1>2 DEF SrBegin, FeedStep, users
  <2>3. fault' \in {fault, "engine"}
    BY <1>2 DEF SrBegin, FeedStep, FeedFeeds, FeedEnds
  <2>4. QED
    BY <1>0, <2>1, <2>2, <2>3, SpeechFrame
<1>3. CASE SrStep
  <2>1. UNCHANGED <<inited, sem, made, token, replaced, fault>>
    BY <1>3 DEF SrStep, tts
  <2>2. PICK label \in {"idle", "spawn", "close", "join"} : Go("app", label)
    BY <1>3 DEF SrStep, SrFindsNoDevice, SrStartsDetect, SrStartsFeed, SrEnd, SrJoins, Deinit
  <2>3. dpc' = dpc \/ (afe \in Runs /\ dpc' = [dpc EXCEPT ![afe] = "start"])
    BY <1>3 DEF SrStep, SrFindsNoDevice, SrStartsDetect, SrStartsFeed, SrEnd, SrJoins, EngineInv
  <2>4. dpc' = [r \in Runs |-> dpc'[r]] /\ \A r \in Runs : dpc'[r] = "ready" => dpc[r] = "ready"
    BY <1>0, <2>3, DetectGoes
  <2>5. QED
    BY <2>1, <2>2, <2>4, SpeechFrame
<1>4. CASE UserStep
  <2>1. UNCHANGED <<inited, sem, made, token, replaced, dpc, fault>>
    BY <1>4 DEF UserStep, tts, sr, other
  <2>2. PICK label \in {"open", "close", "off", "idle"} :
          Go("app", label) \/ Go("dec", label)
    BY <1>4
       DEF UserStep, Play, Stop, DecodeEnds, StartRecord, StartRecordEnds, StopRecord, AppCloses
  <2>3. QED
    BY <1>0, <2>1, <2>2, SpeechFrame
<1>5. ASSUME NEW r \in Runs, DetectStep(r) PROVE SpeechInv'
  <2>1. UNCHANGED <<inited, sem, made, token, replaced>>
    BY <1>5 DEF DetectStep, DetectStarts, DetectFetches, DetectReplies, tts
  <2>2. PICK label \in {"fetch", "off", "init"} : dpc' = [dpc EXCEPT ![r] = label]
    BY <1>5 DEF DetectStep, DetectStarts, DetectFetches, DetectReplies, DetectMoves
  <2>3. dpc' = [q \in Runs |-> dpc'[q]] /\ \A q \in Runs : dpc'[q] = "ready" => dpc[q] = "ready"
    BY <1>0, <2>2, DetectGoes
  <2>4. fault' \in {fault, "engine"}
    BY <1>5 DEF DetectStep, DetectStarts, DetectFetches, DetectReplies, Uses
  <2>5. Speaks \/ UNCHANGED pc
    BY <1>5 DEF DetectStep, DetectStarts, DetectFetches, DetectReplies
  <2>6. CASE Speaks
    BY <2>1, <2>3, <2>4, <2>6, SpeechSpawns
  <2>7. CASE UNCHANGED pc
    <3>1. "idle" # "ready"
      OBVIOUS
    <3>2. QED
      BY <2>1, <2>3, <2>4, <2>7, <3>1, SpeechFrame
  <2>8. QED
    BY <2>5, <2>6, <2>7
<1>6. CASE AppSpeaks
  BY <1>0, <1>6, SpeechSpawns DEF AppSpeaks, tts, sr, other
<1>7. CASE UNCHANGED vars
  <2>1. UNCHANGED <<pc, inited, sem, made, token, replaced, dpc, fault>>
    BY <1>7 DEF vars, users, tts, sr, other
  <2>2. QED
    BY <1>0, <2>1, SpeechFrame
<1>8. QED
  BY <1>1, <1>2, <1>3, <1>4, <1>5, <1>6, <1>7, SpeechDevice, SpeechInits, SpeechSpeaks DEF Next


(***************************************************************************)
(* The microphone                                                          *)
(***************************************************************************)
LEMMA MicNext == SpeechInv /\ EngineInv /\ MicInv /\ [Next]_vars => MicInv'
<1> SUFFICES ASSUME SpeechInv, EngineInv, MicInv, [Next]_vars PROVE MicInv'
  OBVIOUS
<1>1. CASE \/ \E u \in Users : DeviceStep(u)
           \/ \E w \in Initialisers : InitStep(w)
           \/ AppInits \/ AppSpeaks \/ \E t \in Speeches : SpeechStep(t)
           \/ \E r \in Runs : DetectStep(r)
           \/ UNCHANGED vars
  <2>1. UNCHANGED <<op, feeding, recording, capture, orphan, timedOut>>
    BY <1>1
       DEF DeviceStep, InitStep, AppInits, AppSpeaks, SpeechStep, DetectStep, vars,
           users, sr, rec, other
  <2>2. QED
    BY <2>1 DEF MicInv
<1>2. ASSUME NEW r \in Runs, FeedStep(r) PROVE MicInv'
  <2>1. UNCHANGED <<op, recording, capture, orphan, timedOut>> /\ feeding' \subseteq feeding
    BY <1>2 DEF FeedStep, FeedFeeds, FeedEnds, users, rec
  <2>2. QED
    BY <2>1 DEF MicInv
<1>3. ASSUME NEW r \in Runs, SrBegin(r) PROVE MicInv'
  <2>1. /\ ~recording /\ op' = "sr" /\ UNCHANGED <<recording, capture, orphan>>
    BY <1>3 DEF SrBegin, rec
  <2>2. QED
    BY <2>1 DEF MicInv
<1>4. CASE SrStep
  <2>1. UNCHANGED <<recording, capture, orphan>> /\ op' \notin {"record", "stopRecord"}
        /\ (op' = "sr" => op = "sr")
    BY <1>4
       DEF SrStep, SrFindsNoDevice, SrStartsDetect, SrStartsFeed, SrEnd, SrJoins, Deinit, rec
  <2>1a. timedOut => timedOut'
    BY <1>4, Zenon
       DEF SrStep, SrFindsNoDevice, SrStartsDetect, SrStartsFeed, SrEnd, SrJoins
  <2>2. feeding' = feeding \/ op = "sr"
    BY <1>4
       DEF SrStep, SrFindsNoDevice, SrStartsDetect, SrStartsFeed, SrEnd, SrJoins, EngineInv
  <2>3. QED
    BY <2>1, <2>1a, <2>2 DEF MicInv
<1>5. CASE UserStep
  <2>1. UNCHANGED <<srFlag, feeding, timedOut>>
    BY <1>5 DEF UserStep, sr, other
  <2>2. CASE Play \/ Stop \/ DecodeEnds
    BY <2>1, <2>2 DEF MicInv, Play, Stop, DecodeEnds, rec
  <2>3. CASE StartRecord
    <3>1. /\ ~capture /\ ~srFlag /\ op' = "record" /\ pc["app"] = "idle"
          /\ UNCHANGED <<recording, capture, orphan>>
      BY <2>3 DEF StartRecord, rec
    <3>2. ~timedOut => feeding = {}
      BY <3>1 DEF EngineInv
    <3>3. QED
      BY <2>1, <3>1, <3>2 DEF MicInv
  <2>4. CASE StartRecordEnds
    <3>1. op = "record" /\ op' \in {"none", "close"}
      BY <2>4 DEF StartRecordEnds
    <3>2. /\ capture' => recording' \/ orphan'
          /\ UNCHANGED rec \/ orphan' \/ orphan' = orphan
      BY <2>4 DEF StartRecordEnds, MicInv, rec
    <3>3. ~timedOut' => feeding' = {}
      BY <2>1, <3>1 DEF MicInv
    <3>4. QED
      BY <3>1, <3>2, <3>3 DEF MicInv
  <2>5. CASE StopRecord
    <3>1. op' = "stopRecord" /\ (capture' => orphan')
      BY <2>5 DEF StopRecord
    <3>2. QED
      BY <3>1 DEF MicInv
  <2>6. CASE AppCloses
    <3>1. op' = "none" /\ UNCHANGED <<capture, orphan>>
      BY <2>6 DEF AppCloses
    <3>2. recording /\ op # "stopRecord" => recording'
      BY <2>6, Zenon DEF AppCloses
    <3>3. QED
      BY <2>1, <3>1, <3>2 DEF MicInv
  <2>7. QED
    BY <1>5, <2>2, <2>3, <2>4, <2>5, <2>6 DEF UserStep
<1>6. CASE RecordFails \/ CaptureEnds
  <2>1. /\ UNCHANGED <<op, feeding, timedOut>> /\ (capture' => capture /\ orphan')
    BY <1>6 DEF RecordFails, CaptureEnds, users, sr, other
  <2>2. QED
    BY <2>1 DEF MicInv
<1>7. QED
  BY <1>1, <1>2, <1>3, <1>4, <1>5, <1>6 DEF Next

(***************************************************************************)
(* The recogniser                                                          *)
(***************************************************************************)
(* A step that leaves the recogniser and its tasks alone.                  *)
LEMMA EngineFrame ==
  ASSUME EngineInv, UNCHANGED <<dpc, feeding, afe, srFlag, done, timedOut>>,
         fault' = "engine" => fault = "engine",
         \/ op' = op /\ pc'["app"] = pc["app"]
         \/ /\ op' = op \/ op' \notin {"sr", "detect", "both"}
            /\ {pc["app"], pc'["app"]} \cap {"spawn", "join"} = {}
  PROVE  EngineInv'
<1>1. \A r \in Runs : Alive(r)' = Alive(r)
  BY DEF Alive
<1>2. EngineOutlivesTasks'
  BY DEF EngineInv, EngineOutlivesTasks
<1>3. CASE op' = op /\ pc'["app"] = pc["app"]
  BY <1>1, <1>2, <1>3 DEF EngineInv
<1>4. CASE /\ op' = op \/ op' \notin {"sr", "detect", "both"}
           /\ {pc["app"], pc'["app"]} \cap {"spawn", "join"} = {}
  <2>1. /\ pc["app"] \notin {"spawn", "join"} /\ pc'["app"] \notin {"spawn", "join"}
        /\ op' \notin {"detect", "both"} /\ op # "both" /\ (op' = "sr" => op = "sr")
    BY <1>4 DEF EngineInv
  <2>2. QED
    BY <1>1, <1>2, <2>1 DEF EngineInv
<1>5. QED
  BY <1>3, <1>4

(* A task that moves, or ends and says so, in the life of its recogniser.  *)
LEMMA EngineTask ==
  ASSUME EngineInv, NEW r \in Runs, Alive(r),
         UNCHANGED <<op, afe, srFlag, timedOut>>, pc'["app"] = pc["app"],
         dpc[r] = "off" => dpc'[r] = "off", \A q \in Runs : q # r => dpc'[q] = dpc[q],
         feeding' \in {feeding, feeding \ {r}},
         \/ done' = done
         \/ done' \subseteq done \cup {"detect"} /\ dpc'[r] = "off" /\ feeding' = feeding
         \/ /\ done' \subseteq done \cup {"feed"} /\ r \in feeding
            /\ feeding' = feeding \ {r} /\ dpc' = dpc,
         fault' = "engine" => fault = "engine" \/ afe # r
  PROVE  EngineInv'
<1>1. EngineOutlivesTasks'
  BY DEF EngineInv, EngineOutlivesTasks
<1>2. /\ feeding' \subseteq feeding
      /\ \A q \in Runs : dpc[q] = "off" => dpc'[q] = "off"
  OBVIOUS
<1>3. \A q \in Runs : Alive(q)' => Alive(q)
  BY <1>2 DEF Alive
<1>4. /\ feeding' \subseteq Runs
      /\ pc'["app"] = "join" <=> op' \in {"both", "detect"}
      /\ pc'["app"] = "spawn" => op' = "sr" /\ srFlag'
      /\ op' = "sr" => afe' \in Runs /\ afe' \notin feeding'
      /\ op' = "sr" /\ pc'["app"] # "spawn" => dpc'[afe'] = "off"
  BY <1>2 DEF EngineInv
<1>5. ASSUME ~timedOut'
      PROVE  /\ \A q \in Runs : Alive(q)' => afe' = q
             /\ "feed" \in done' => feeding' = {}
             /\ "detect" \in done' => \A q \in Runs : dpc'[q] = "off"
             /\ pc'["app"] = "spawn" => "feed" \notin done'
             /\ op' = "detect" => feeding' = {}
             /\ feeding' # {} => srFlag' \/ op' = "both"
  <2>1. ~timedOut /\ (\A q \in Runs : Alive(q) => afe = q) /\ afe = r
    BY <1>5 DEF EngineInv
  <2>2. \A q \in Runs : q # r => dpc[q] = "off" /\ q \notin feeding
    BY <2>1 DEF Alive
  <2>3. feeding \subseteq {r}
    BY <2>2 DEF EngineInv
  <2>4. "feed" \in done' => feeding' = {}
    BY <1>2, <2>1, <2>3 DEF EngineInv
  <2>5. "detect" \in done' => \A q \in Runs : dpc'[q] = "off"
    BY <1>2, <2>1, <2>2 DEF EngineInv
  <2>6. pc'["app"] = "spawn" => "feed" \notin done'
    <3>1. SUFFICES ASSUME pc["app"] = "spawn" PROVE "feed" \notin done'
      OBVIOUS
    <3>2. r \notin feeding /\ "feed" \notin done
      BY <2>1, <3>1 DEF EngineInv
    <3>3. QED
      BY <3>2
  <2>7. QED
    BY <1>2, <1>3, <2>1, <2>4, <2>5, <2>6 DEF EngineInv
<1>6. QED
  BY <1>1, <1>4, <1>5 DEF EngineInv

LEMMA EngineNext == SpeechInv /\ EngineInv /\ [Next]_vars => EngineInv'
<1> SUFFICES ASSUME SpeechInv, EngineInv, [Next]_vars PROVE EngineInv'
  OBVIOUS
<1>0. pc = [u \in Users |-> pc[u]] /\ dpc = [r \in Runs |-> dpc[r]]
  BY DEF SpeechInv
<1>1. \A u \in Users : \A label :
        Go(u, label) => /\ u = "app" => pc'["app"] = label
                        /\ u # "app" => pc'["app"] = pc["app"]
  BY <1>0, GoMoves, UsersDiffer
<1>2. Speaks => pc'["app"] = pc["app"]
  BY <1>1, UsersDiffer DEF Speaks
<1>3. ASSUME NEW u \in Users, DeviceStep(u) PROVE EngineInv'
  <2>1. UNCHANGED <<op, dpc, feeding, afe, srFlag, done, timedOut, fault>>
    BY <1>3 DEF DeviceStep, sr, other
  <2>2. PICK label \in {"opened", "reclose", "device", "reflags", "closeflags", "closed",
                        "publish", "failed"} :
          Go(u, label) /\ pc[u] \notin {"spawn", "join"}
    BY <1>3 DEF DeviceStep, OpenDecides, CloseDriver, CloseFlags, OpenDriver, Publish
  <2>3. QED
    BY <1>1, <2>1, <2>2, EngineFrame
<1>4. ASSUME NEW w \in Initialisers, InitStep(w) PROVE EngineInv'
  <2>1. UNCHANGED <<op, feeding, afe, srFlag, done, timedOut, fault>>
    BY <1>4 DEF InitStep, other
  <2>2. PICK label \in {"idle", "reply", "create", "reset", "ready"} :
          MoveTo(w, label) /\ At(w) \in {"init", "create", "ready"}
    BY <1>4 DEF InitStep, InitChecks, InitCreates, InitDone, Afterwards, GivesUp
  <2>3. CASE w = "app"
    <3>1. Go("app", label) /\ dpc' = dpc /\ pc["app"] \in {"init", "create", "ready"}
      BY <2>2, <2>3 DEF MoveTo, At
    <3>2. pc'["app"] = label
      BY <1>1, <3>1, UsersDiffer
    <3>3. QED
      BY <2>1, <2>2, <3>1, <3>2, EngineFrame
  <2>4. CASE w # "app"
    <3>1. w \in Runs /\ dpc' = [dpc EXCEPT ![w] = label] /\ pc' = pc /\ dpc[w] # "off"
      BY <2>2, <2>4 DEF MoveTo, At, Initialisers
    <3>2. \A q \in Runs : q # w => dpc'[q] = dpc[q]
      BY <1>0, <3>1, DetectGoes
    <3>3. Alive(w)
      BY <3>1 DEF Alive
    <3>4. QED
      BY <2>1, <3>1, <3>2, <3>3, EngineTask
  <2>5. QED
    BY <2>3, <2>4
<1>5. ASSUME NEW t \in Speeches, SpeechStep(t) PROVE EngineInv'
  <2>1. /\ UNCHANGED <<op, dpc, feeding, afe, srFlag, done, timedOut>>
        /\ fault' = "engine" => fault = "engine"
    BY <1>5 DEF SpeechStep, SpeechAsks, SpeechTakes, SpeechWrites, SpeechFindsNoDevice,
                SpeechGives, Asserts, sr
  <2>2. \E label : Go(t, label)
    BY <1>5
       DEF SpeechStep, SpeechAsks, SpeechTakes, SpeechWrites, SpeechFindsNoDevice, SpeechGives
  <2>3. QED
    BY <1>1, <2>1, <2>2, EngineFrame, UsersDiffer
<1>6. CASE AppInits \/ AppSpeaks \/ RecordFails \/ CaptureEnds
  <2>1. UNCHANGED <<op, dpc, feeding, afe, srFlag, done, timedOut, fault>>
    BY <1>6 DEF AppInits, AppSpeaks, RecordFails, CaptureEnds, users, sr, other
  <2>2. pc'["app"] = pc["app"] \/ (pc'["app"] = "init" /\ pc["app"] = "idle")
    BY <1>1, <1>2, <1>6, UsersDiffer DEF AppInits, AppSpeaks, RecordFails, CaptureEnds, users
  <2>3. QED
    BY <2>1, <2>2, EngineFrame
<1>7. ASSUME NEW r \in Runs, SrBegin(r) PROVE EngineInv'
  <2>1. /\ UNCHANGED <<dpc, feeding, srFlag, done, fault>> /\ pc["app"] = "idle"
        /\ pc'["app"] = "open" /\ op' = "sr" /\ afe' = r /\ afe = "none" /\ ~Alive(r)
    BY <1>1, <1>7, UsersDiffer DEF SrBegin
  <2>2. r \notin feeding /\ dpc[r] = "off"
    BY <2>1 DEF Alive
  <2>3. ~timedOut' => \A q \in Runs : ~Alive(q)
    <3>1. CASE \E q \in Runs : Alive(q)
      <4>1. timedOut' = timedOut
        BY <1>7, <3>1 DEF SrBegin
      <4>2. timedOut
        BY <2>1, <3>1, UsersDiffer DEF EngineInv
      <4>3. QED
        BY <4>1, <4>2
    <3>2. QED
      BY <3>1
  <2>4. \A q \in Runs : Alive(q)' = Alive(q)
    BY <2>1 DEF Alive
  <2>5. ~timedOut' => feeding' = {} /\ \A q \in Runs : dpc'[q] = "off"
    BY <2>1, <2>3 DEF Alive, EngineInv
  <2>6. EngineOutlivesTasks'
    <3>1. fault = "none"
      BY <2>1 DEF Next, vars, users
    <3>2. QED
      BY <2>1, <3>1 DEF EngineOutlivesTasks
  <2>7. QED
    BY <2>1, <2>2, <2>3, <2>4, <2>5, <2>6 DEF EngineInv
<1>8. CASE SrStep
  <2>0. fault' = fault
    BY <1>8 DEF SrStep
  <2>1. CASE SrFindsNoDevice
    <3>1. /\ pc["app"] = "failed" /\ op = "sr" /\ pc'["app"] = "idle" /\ op' = "none"
          /\ afe' = "none" /\ done' = {} /\ UNCHANGED <<dpc, feeding, srFlag, timedOut>>
      BY <1>1, <2>1, UsersDiffer DEF SrFindsNoDevice
    <3>2. afe \notin feeding /\ dpc[afe] = "off"
      BY <3>1 DEF EngineInv
    <3>3. ~timedOut => \A q \in Runs : ~Alive(q)
      BY <3>2 DEF EngineInv, Alive
    <3>4. ~timedOut => feeding = {}
      BY <3>3 DEF EngineInv, Alive
    <3>5. \A q \in Runs : Alive(q)' = Alive(q)
      BY <3>1 DEF Alive
    <3>6. QED
      BY <2>0, <3>1, <3>3, <3>4, <3>5 DEF EngineInv, EngineOutlivesTasks
  <2>2. CASE SrStartsDetect
    <3>1. /\ pc["app"] = "opened" /\ op = "sr" /\ done' = {} /\ UNCHANGED <<feeding, timedOut>>
          /\ \/ /\ pc'["app"] = "spawn" /\ UNCHANGED <<afe, op>> /\ srFlag' = TRUE
                /\ dpc' = [dpc EXCEPT ![afe] = "start"]
             \/ /\ pc'["app"] = "close" /\ afe' = "none" /\ op' = "close"
                /\ UNCHANGED <<srFlag, dpc>>
      BY <1>1, <2>2, UsersDiffer DEF SrStartsDetect, Deinit
    <3>2. afe \in Runs /\ afe \notin feeding /\ dpc[afe] = "off"
      BY <3>1 DEF EngineInv
    <3>3. ~timedOut => \A q \in Runs : ~Alive(q)
      BY <3>2 DEF EngineInv, Alive
    <3>4. ~timedOut => feeding = {}
      BY <3>3 DEF EngineInv, Alive
    <3>5. CASE pc'["app"] = "close"
      <4>1. \A q \in Runs : Alive(q)' = Alive(q)
        BY <3>1, <3>5 DEF Alive
      <4>2. QED
        BY <2>0, <3>1, <3>3, <3>4, <3>5, <4>1 DEF EngineInv, EngineOutlivesTasks
    <3>6. CASE pc'["app"] = "spawn"
      <4>1. \A q \in Runs : q # afe => dpc'[q] = dpc[q]
        BY <1>0, <3>1, <3>2, <3>6, DetectGoes
      <4>2. ~timedOut' => \A q \in Runs : Alive(q)' => afe' = q
        BY <3>1, <3>3, <3>6, <4>1 DEF Alive
      <4>3. QED
        BY <2>0, <3>1, <3>2, <3>4, <3>6, <4>2 DEF EngineInv, EngineOutlivesTasks
    <3>7. QED
      BY <3>1, <3>5, <3>6
  <2>3. CASE SrStartsFeed
    <3>1. /\ pc["app"] = "spawn" /\ UNCHANGED <<dpc, afe, done, timedOut>>
          /\ \/ /\ pc'["app"] = "idle" /\ feeding' = feeding \cup {afe} /\ op' = "none"
                /\ srFlag' = srFlag
             \/ pc'["app"] = "join" /\ op' = "detect" /\ UNCHANGED feeding
      BY <1>1, <2>3, UsersDiffer DEF SrStartsFeed
    <3>2. op = "sr" /\ afe \in Runs /\ afe \notin feeding
      BY <3>1 DEF EngineInv
    <3>3. ~timedOut => feeding = {}
      BY <3>2 DEF EngineInv, Alive
    <3>4. ~timedOut' => \A q \in Runs : Alive(q)' => afe' = q
      BY <3>1 DEF EngineInv, Alive
    <3>5. ~timedOut /\ pc'["app"] = "idle" => srFlag'
      BY <3>1 DEF EngineInv
    <3>6. QED
      BY <2>0, <3>1, <3>2, <3>3, <3>4, <3>5 DEF EngineInv, EngineOutlivesTasks
  <2>4. CASE SrEnd
    <3>1. /\ pc["app"] = "idle" /\ pc'["app"] = "join" /\ op' = "both"
          /\ UNCHANGED <<dpc, feeding, afe, done, timedOut>>
      BY <1>1, <2>4, UsersDiffer DEF SrEnd
    <3>2. \A q \in Runs : Alive(q)' = Alive(q)
      BY <3>1 DEF Alive
    <3>3. QED
      BY <2>0, <3>1, <3>2 DEF EngineInv, EngineOutlivesTasks
  <2>5. CASE SrJoins
    <3>1. /\ pc["app"] = "join" /\ pc'["app"] = "close" /\ op' = "close"
          /\ done' = {} /\ afe' = "none" /\ UNCHANGED <<dpc, feeding>>
      BY <1>1, <2>5, UsersDiffer DEF SrJoins, Deinit
    <3>2. (timedOut => timedOut') /\ (~timedOut' => ~timedOut /\ Joined)
      BY <2>5 DEF SrJoins
    <3>3. ~timedOut' => feeding = {} /\ \A q \in Runs : dpc[q] = "off"
      BY <3>1, <3>2 DEF Joined, EngineInv
    <3>4. ~timedOut' => \A q \in Runs : ~Alive(q)'
      BY <3>1, <3>3 DEF Alive
    <3>5. QED
      BY <2>0, <3>1, <3>2, <3>3, <3>4 DEF EngineInv, EngineOutlivesTasks
  <2>6. QED
    BY <1>8, <2>1, <2>2, <2>3, <2>4, <2>5 DEF SrStep
<1>9. ASSUME NEW r \in Runs, DetectStep(r) PROVE EngineInv'
  <2>1. /\ UNCHANGED <<op, feeding, afe, srFlag, timedOut>> /\ pc'["app"] = pc["app"]
        /\ dpc[r] # "off"
    BY <1>2, <1>9 DEF DetectStep, DetectStarts, DetectFetches, DetectReplies
  <2>2. PICK label \in {"fetch", "init", "off"} :
          /\ dpc' = [dpc EXCEPT ![r] = label]
          /\ done' = done \/ (label = "off" /\ Sets("detect"))
    BY <1>9 DEF DetectStep, DetectStarts, DetectFetches, DetectReplies, DetectMoves
  <2>3. dpc'[r] = label /\ \A q \in Runs : q # r => dpc'[q] = dpc[q]
    BY <1>0, <2>2, DetectGoes
  <2>4. done' = done \/ (done' \subseteq done \cup {"detect"} /\ dpc'[r] = "off")
    BY <2>2, <2>3 DEF Sets
  <2>5. fault' = "engine" => fault = "engine" \/ afe # r
    BY <1>9 DEF DetectStep, DetectStarts, DetectFetches, DetectReplies, Uses
  <2>6. Alive(r)
    BY <2>1 DEF Alive
  <2>7. QED
    BY <2>1, <2>3, <2>4, <2>5, <2>6, EngineTask
<1>10. ASSUME NEW r \in Runs, FeedStep(r) PROVE EngineInv'
  <2>1. UNCHANGED <<op, dpc, afe, srFlag, timedOut, pc>> /\ r \in feeding
    BY <1>10 DEF FeedStep, FeedFeeds, FeedEnds, users
  <2>2. \/ afe # r /\ UNCHANGED <<feeding, done>>
        \/ feeding' = feeding \ {r} /\ Sets("feed") /\ UNCHANGED fault
    BY <1>10 DEF FeedStep, FeedFeeds, FeedEnds
  <2>3. done' = done \/ (done' \subseteq done \cup {"feed"} /\ feeding' = feeding \ {r})
    BY <2>2 DEF Sets
  <2>4. Alive(r)
    BY <2>1 DEF Alive
  <2>5. QED
    BY <2>1, <2>2, <2>3, <2>4, EngineTask
<1>11. CASE UserStep
  <2>1. UNCHANGED <<dpc, feeding, afe, srFlag, done, timedOut, fault>>
    BY <1>11 DEF UserStep, sr, other
  <2>2. op' = op \/ op' \notin {"sr", "detect", "both"}
    BY <1>11
       DEF UserStep, Play, Stop, DecodeEnds, StartRecord, StartRecordEnds, StopRecord, AppCloses
  <2>3. CASE Play \/ DecodeEnds
    <3>1. pc'["app"] = pc["app"] /\ op' = op
      BY <1>1, <2>3, UsersDiffer DEF Play, DecodeEnds
    <3>2. QED
      BY <2>1, <3>1, EngineFrame
  <2>4. CASE Stop \/ StartRecord \/ StartRecordEnds \/ StopRecord \/ AppCloses
    <3>1. {pc["app"], pc'["app"]} \cap {"spawn", "join"} = {}
      BY <1>1, <2>4, UsersDiffer DEF Stop, StartRecord, StartRecordEnds, StopRecord, AppCloses
    <3>2. QED
      BY <2>1, <2>2, <3>1, EngineFrame
  <2>5. QED
    BY <1>11, <2>3, <2>4 DEF UserStep
<1>12. CASE UNCHANGED vars
  BY <1>12, EngineFrame DEF vars, users, sr, other
<1>13. QED
  BY <1>3, <1>4, <1>5, <1>6, <1>7, <1>8, <1>9, <1>10, <1>11, <1>12 DEF Next

(***************************************************************************)
(* The device                                                              *)
(***************************************************************************)
(* A step outside the device's functions.                                  *)
LEMMA DeviceFrame ==
  ASSUME DeviceInv, UNCHANGED <<device, muddled>>,
         \A u \in Users :
           /\ pc'[u] = pc[u] \/ (pc'[u] \notin Inside \cup {"opened"} /\ pc[u] \notin Inside)
           /\ pc[u] = "publish" => Want(u)' = Want(u),
         \A t \in Speeches : pc'[t] = "opened" => (t \in disturbed' <=> t \in disturbed)
  PROVE  DeviceInv'
<1>0. Sound' = Sound
  BY DEF Sound
<1> SUFFICES ASSUME Sound PROVE DeviceInv'
  BY <1>0 DEF DeviceInv
<1>1. UNCHANGED <<codec, opened, rate>> /\ Agree' = Agree
  BY DEF device, Agree
<1>2. \A u \in Users :
        /\ pc'[u] \in Inside \cup {"opened"} => pc'[u] = pc[u]
        /\ pc'[u] \notin Between => pc[u] \notin Between
  BY DEF Inside, Between
<1>3. \A t \in Speeches : pc'[t] = "opened" => pc[t] = "opened" /\ Want(t)' = Want(t)
  BY <1>2, UsersDiffer DEF Want
<1>4. \A u \in Users : pc'[u] \in Between => pc[u] = pc'[u]
  BY <1>2 DEF Between, Inside
<1>5. /\ codec'.open => codec'.works
      /\ \A u, v \in Users : pc'[u] \in Inside /\ pc'[v] \in Inside => u = v
  BY <1>1, <1>2 DEF DeviceInv
<1>6. (\A u \in Users : pc'[u] \notin Between) => Agree'
  BY <1>1, <1>2 DEF DeviceInv
<1>7. ASSUME NEW u \in Users
      PROVE  /\ pc'[u] \in {"reflags", "closeflags", "device"} => ~codec'.open
             /\ pc'[u] = "publish" => codec'.open /\ codec'.rate = Want(u)'
  BY <1>1, <1>4 DEF DeviceInv, Between
<1>8. \A t \in Speeches :
        pc'[t] = "opened" /\ t \notin disturbed' => codec'.open /\ codec'.rate = Want(t)'
  BY <1>1, <1>3 DEF DeviceInv
<1>9. QED
  BY <1>5, <1>6, <1>7, <1>8 DEF DeviceInv

(* A step inside them, by the only user there.                             *)
LEMMA DeviceMoves ==
  ASSUME SpeechInv, DeviceInv, NEW u \in Users, DeviceStep(u)
  PROVE  DeviceInv'
<1> SUFFICES ASSUME Sound' PROVE DeviceInv'
  BY DEF DeviceInv
<1>0. /\ pc = [v \in Users |-> pc[v]] /\ UNCHANGED music
      /\ \A v \in Users : Want(v)' = Want(v)
  BY DEF SpeechInv, DeviceStep, Want
<1>1. Muddles(u)
  BY DEF DeviceStep, OpenDecides, CloseDriver, CloseFlags, OpenDriver, Publish, Sound
<1>2. Sound /\ \A v \in Users : v # u => pc[v] \notin Inside
  BY <1>1 DEF Sound, Muddles
<1>3. \A label : Go(u, label) =>
        pc'[u] = label /\ \A v \in Users : v # u => pc'[v] = pc[v] /\ pc'[v] \notin Inside
  BY <1>0, <1>2, GoMoves
<1>4. (pc[u] \notin Between => Agree) /\ (codec.open => codec.works)
  BY <1>2 DEF DeviceInv, Between, Inside
<1>5. CASE OpenDecides(u)
  <2>1. /\ pc[u] = "open" /\ UNCHANGED <<codec, opened, rate, disturbed>>
        /\ Agree /\ Agree' = Agree
    BY <1>4, <1>5 DEF OpenDecides, Between, device, Agree, Remembers, Sound
  <2>2. PICK label \in {"failed", "opened", "reclose", "device"} :
          /\ Go(u, label)
          /\ label = "opened" => opened /\ rate = Want(u)
          /\ label = "device" => ~opened
    BY <1>5 DEF OpenDecides
  <2>3. /\ label = "opened" => codec.open /\ codec.rate = Want(u)
        /\ label = "device" => ~codec.open
    BY <2>1, <2>2 DEF Agree
  <2>4. /\ pc'[u] = label
        /\ \A v \in Users : v # u => pc'[v] = pc[v] /\ pc'[v] \notin Inside
    BY <1>3, <2>2
  <2>5. \A t \in Speeches :
          pc'[t] = "opened" /\ t \notin disturbed' => codec'.open /\ codec'.rate = Want(t)'
    BY <1>0, <1>2, <2>1, <2>3, <2>4, UsersDiffer DEF DeviceInv
  <2>6. QED
    BY <1>0, <1>4, <2>1, <2>2, <2>3, <2>4, <2>5 DEF DeviceInv, Inside
<1>6. CASE ~OpenDecides(u)
  <2>1. Disturbs(u)
    BY <1>6 DEF DeviceStep, CloseDriver, CloseFlags, OpenDriver, Publish
  <2>2. PICK label : Go(u, label)
    BY <1>6 DEF DeviceStep, CloseDriver, CloseFlags, OpenDriver, Publish
  <2>3. /\ pc'[u] = label
        /\ \A v \in Users : v # u => pc'[v] = pc[v] /\ pc'[v] \notin Inside
    BY <1>3, <2>2
  <2>4. \A t \in Speeches : t # u /\ pc'[t] = "opened" => t \in disturbed'
    BY <2>1, <2>3, UsersDiffer DEF Disturbs, Speaking, Sound
  <2>5. ASSUME codec'.open => codec'.works,
               label \notin Between => Agree',
               label \in {"reflags", "closeflags", "device"} => ~codec'.open,
               label \in {"publish", "opened"} => codec'.open /\ codec'.rate = Want(u)
        PROVE  DeviceInv'
    <3>1. \A v, w \in Users : pc'[v] \in Inside /\ pc'[w] \in Inside => v = w
      BY <2>3
    <3>2. ASSUME NEW v \in Users
          PROVE  /\ pc'[v] \in {"reflags", "closeflags", "device"} => ~codec'.open
                 /\ pc'[v] = "publish" => codec'.open /\ codec'.rate = Want(v)'
      BY <1>0, <2>3, <2>5 DEF Inside
    <3>3. \A t \in Speeches :
            pc'[t] = "opened" /\ t \notin disturbed' => codec'.open /\ codec'.rate = Want(t)'
      BY <1>0, <2>3, <2>4, <2>5
    <3>4. QED
      BY <2>3, <2>5, <3>1, <3>2, <3>3 DEF DeviceInv
  <2>6. CASE CloseDriver(u)
    <3>1. label \in {"reflags", "closeflags"} /\ codec' = Closed
      BY <1>3, <2>3, <2>6 DEF CloseDriver
    <3>2. QED
      BY <2>5, <3>1 DEF Closed, Between
  <2>7. CASE CloseFlags(u)
    <3>1. /\ label \in {"device", "closed"} /\ codec' = codec /\ opened' = FALSE
          /\ pc[u] \in {"reflags", "closeflags"}
      BY <1>3, <2>3, <2>7 DEF CloseFlags
    <3>2. ~codec.open
      BY <1>2, <3>1 DEF DeviceInv
    <3>3. QED
      BY <2>5, <3>1, <3>2 DEF Agree, Between
  <2>8. CASE OpenDriver(u)
    <3>1. pc[u] = "device" /\ ~codec.open
      BY <1>2, <2>8 DEF DeviceInv, OpenDriver
    <3>2. ~muddled'
      BY DEF Sound
    <3>3. codec' = [open |-> TRUE, works |-> TRUE, rate |-> Want(u)] /\ label = "publish"
      BY <1>3, <2>3, <2>8, <3>1, <3>2 DEF OpenDriver
    <3>4. QED
      BY <2>5, <3>3 DEF Between
  <2>9. CASE Publish(u)
    <3>1. /\ pc[u] = "publish" /\ label = "opened" /\ codec' = codec
          /\ opened' = TRUE /\ rate' = Want(u)
      BY <1>3, <2>3, <2>9 DEF Publish
    <3>2. codec.open /\ codec.rate = Want(u)
      BY <1>2, <3>1 DEF DeviceInv
    <3>3. QED
      BY <1>4, <2>5, <3>1, <3>2 DEF Agree
  <2>10. QED
    BY <1>6, <2>6, <2>7, <2>8, <2>9 DEF DeviceStep
<1>7. QED
  BY <1>5, <1>6

LEMMA DeviceNext == SpeechInv /\ DeviceInv /\ [Next]_vars => DeviceInv'
<1> SUFFICES ASSUME SpeechInv, DeviceInv, [Next]_vars PROVE DeviceInv'
  OBVIOUS
<1>0. pc = [u \in Users |-> pc[u]]
  BY DEF SpeechInv
<1>1. ASSUME NEW u \in Users, NEW label, Go(u, label), label \notin Inside \cup {"opened"},
             pc[u] \notin Inside, music' = music \/ (u = "dec"), UNCHANGED <<device, muddled>>,
             \A t \in Speeches : pc'[t] = "opened" => (t \in disturbed' <=> t \in disturbed)
      PROVE  DeviceInv'
  <2>1. pc'[u] = label /\ \A v \in Users : v # u => pc'[v] = pc[v]
    BY <1>0, <1>1, GoMoves
  <2>2. \A v \in Users : pc[v] = "publish" => Want(v)' = Want(v)
    BY <1>1 DEF Want, Inside
  <2>3. QED
    BY <1>1, <2>1, <2>2, DeviceFrame
<1>2. ASSUME UNCHANGED <<pc, music, device, hazy>> PROVE DeviceInv'
  BY <1>2, DeviceFrame DEF Want, hazy
<1>3. Speaks /\ UNCHANGED <<music, device, hazy>> => DeviceInv'
  BY <1>1, UsersDiffer DEF Speaks, hazy, Inside
<1>4. ASSUME NEW w \in Initialisers, InitStep(w) PROVE DeviceInv'
  <2>1. UNCHANGED <<music, device, hazy>>
    BY <1>4 DEF InitStep
  <2>2. PICK label \in {"idle", "reply", "create", "reset", "ready"} :
          MoveTo(w, label) /\ At(w) \in {"init", "create", "ready"}
    BY <1>4 DEF InitStep, InitChecks, InitCreates, InitDone, Afterwards, GivesUp
  <2>3. CASE w = "app"
    BY <1>1, <2>1, <2>2, <2>3, UsersDiffer DEF MoveTo, At, Inside, hazy
  <2>4. CASE w # "app"
    BY <1>2, <2>1, <2>2, <2>4 DEF MoveTo
  <2>5. QED
    BY <2>3, <2>4
<1>5. ASSUME NEW t \in Speeches, SpeechStep(t) PROVE DeviceInv'
  <2>1. UNCHANGED <<music, device, muddled>>
    BY <1>5 DEF SpeechStep
  <2>2. PICK label \in {"take", "open", "give", "done"} :
          /\ Go(t, label) /\ pc[t] \in {"ask", "take", "opened", "failed", "give"}
          /\ label = "done" \/ UNCHANGED disturbed
          /\ disturbed' \in {disturbed, disturbed \ {t}}
    BY <1>5
       DEF SpeechStep, SpeechAsks, SpeechTakes, SpeechWrites, SpeechFindsNoDevice, SpeechGives
  <2>3. pc'[t] # "opened"
    BY <1>0, <2>2, GoMoves, UsersDiffer
  <2>4. \A u \in Speeches : pc'[u] = "opened" => (u \in disturbed' <=> u \in disturbed)
    BY <2>2, <2>3
  <2>5. label \notin Inside \cup {"opened"} /\ pc[t] \notin Inside
    BY <2>2 DEF Inside
  <2>6. QED
    BY <1>1, <2>1, <2>2, <2>4, <2>5, UsersDiffer
<1>6. CASE AppInits \/ \E r \in Runs : SrBegin(r)
  <2>1. UNCHANGED <<music, device, hazy>>
    BY <1>6 DEF AppInits, SrBegin
  <2>2. PICK label \in {"init", "open"} : Go("app", label) /\ pc["app"] = "idle"
    BY <1>6 DEF AppInits, SrBegin
  <2>3. QED
    BY <1>1, <2>1, <2>2, UsersDiffer DEF Inside, hazy
<1>7. CASE SrStep
  <2>1. UNCHANGED <<music, device, hazy>>
    BY <1>7 DEF SrStep, SrFindsNoDevice, SrStartsDetect, SrStartsFeed, SrEnd, SrJoins
  <2>2. PICK label \in {"idle", "spawn", "close", "join"} :
          Go("app", label) /\ pc["app"] \in {"failed", "opened", "spawn", "idle", "join"}
    BY <1>7 DEF SrStep, SrFindsNoDevice, SrStartsDetect, SrStartsFeed, SrEnd, SrJoins, Deinit
  <2>3. QED
    BY <1>1, <2>1, <2>2, UsersDiffer DEF Inside, hazy
<1>8. CASE UserStep
  <2>1. UNCHANGED <<device, hazy>>
    BY <1>8 DEF UserStep
  <2>2. PICK u \in {"app", "dec"}, label \in {"open", "close", "off", "idle"} :
          /\ Go(u, label) /\ pc[u] \in {"idle", "off", "open", "opened", "failed", "closed"}
          /\ music' = music \/ u = "dec"
    BY <1>8
       DEF UserStep, Play, Stop, DecodeEnds, StartRecord, StartRecordEnds, StopRecord, AppCloses
  <2>3. label \notin Inside \cup {"opened"} /\ pc[u] \notin Inside
    BY <2>2 DEF Inside
  <2>4. QED
    BY <1>1, <2>1, <2>2, <2>3, UsersDiffer DEF hazy
<1>9. CASE \E r \in Runs : DetectStep(r)
  BY <1>2, <1>3, <1>9 DEF DetectStep, DetectStarts, DetectFetches, DetectReplies
<1>10. CASE AppSpeaks
  BY <1>3, <1>10 DEF AppSpeaks
<1>11. CASE (\E r \in Runs : FeedStep(r)) \/ RecordFails \/ CaptureEnds \/ UNCHANGED vars
  BY <1>2, <1>11 DEF FeedStep, RecordFails, CaptureEnds, users, vars
<1>12. QED
  BY <1>4, <1>5, <1>6, <1>7, <1>8, <1>9, <1>10, <1>11, DeviceMoves DEF Next


(***************************************************************************)
(* The types                                                               *)
(***************************************************************************)
(* The initialisers at a place of ttsInit().                               *)
Placed(label) == {w \in Initialisers : At(w) = label}

(* The initialiser that created a semaphore is about to say so; once one   *)
(* has, no other enters the part where they are created.                   *)
SemInv ==
  /\ ~inited => made = Cardinality(Placed("ready"))
  /\ inited => made + Cardinality(Placed("create")) <= Cardinality(Initialisers)

UsersType ==
  /\ pc \in [Users -> DeviceLabels \cup {"off", "idle", "init", "create", "ready",
               "spawn", "join", "ask", "take", "give", "done"}]
  /\ op \in {"none", "sr", "close", "detect", "both", "record", "stopRecord"}
  /\ music \in Rates \cup {0} /\ begun \in BOOLEAN

DeviceType ==
  /\ opened \in BOOLEAN /\ rate \in Rates \cup {Voice, 0}
  /\ codec \in [open: BOOLEAN, works: BOOLEAN, rate: Rates \cup {Voice, 0}]
  /\ muddled \in BOOLEAN
  /\ disturbed \subseteq Speeches

TasksType ==
  /\ dpc \in [Runs -> {"off", "start", "fetch", "init", "create", "ready", "reply", "reset"}]
  /\ feeding \subseteq Runs /\ afe \in Runs \cup {"none"} /\ srFlag \in BOOLEAN
  /\ done \subseteq {"feed", "detect"}
  /\ recording \in BOOLEAN /\ capture \in BOOLEAN /\ orphan \in BOOLEAN
  /\ uses \in 0 .. MaxUses
  /\ timedOut \in BOOLEAN /\ fault \in {"none", "engine", "semaphore"}

SpeechType ==
  inited \in BOOLEAN /\ replaced \in BOOLEAN /\ waits \in [Speeches -> 0 .. made]

TypeInv == UsersType /\ DeviceType /\ TasksType /\ SpeechType

LEMMA TypesInit == Init => TypeInv /\ SemInv
<1> SUFFICES ASSUME Init PROVE TypeInv /\ SemInv
  OBVIOUS
<1>1. /\ pc["app"] = "idle" /\ made = 0 /\ inited = FALSE
      /\ \A r \in Runs : dpc[r] = "off"
  BY UsersDiffer DEF Init
<1>2. SemInv
  <2>1. Placed("ready") = {}
    BY <1>1 DEF Placed, At, Initialisers
  <2>2. QED
    BY <1>1, <2>1, FS_EmptySet DEF SemInv
<1>3. UsersType
  BY DEF Init, UsersType
<1>4. DeviceType
  BY DEF Init, DeviceType, Closed
<1>5. TasksType
  <2>1. 0 \in 0 .. MaxUses
    BY SpeechAssumption
  <2>2. /\ dpc = [r \in Runs |-> "off"] /\ feeding = {} /\ afe = "none"
        /\ srFlag = FALSE /\ done = {}
        /\ recording = FALSE /\ capture = FALSE /\ orphan = FALSE /\ uses = 0
        /\ timedOut = FALSE /\ fault = "none"
    BY DEF Init
  <2>3. QED
    BY <2>1, <2>2 DEF TasksType
<1>6. SpeechType
  <2>1. /\ inited = FALSE /\ replaced = FALSE /\ made = 0
        /\ waits = [t \in Speeches |-> 0]
    BY DEF Init
  <2>2. 0 \in 0 .. 0
    OBVIOUS
  <2>3. QED
    BY <2>1, <2>2 DEF SpeechType
<1>7. QED
  BY <1>2, <1>3, <1>4, <1>5, <1>6 DEF TypeInv

LEMMA UsersNext == SpeechInv /\ UsersType /\ [Next]_vars => UsersType'
<1> SUFFICES ASSUME SpeechInv, UsersType, [Next]_vars PROVE UsersType'
  OBVIOUS
<1> DEFINE Labels == DeviceLabels \cup {"off", "idle", "init", "create", "ready",
               "spawn", "join", "ask", "take", "give", "done"}
<1> HIDE DEF Labels
<1>0. \A u \in Users, label \in Labels : Go(u, label) => pc' \in [Users -> Labels]
  BY DEF Go, UsersType, Labels
<1>1. {"off", "idle", "init", "create", "ready", "spawn", "join", "ask", "take",
       "give", "done", "open", "opened", "failed", "close", "closed", "reclose", "reflags",
       "device", "publish", "closeflags"} \subseteq Labels
  BY DEF Labels, DeviceLabels, Inside
<1>2. ASSUME NEW u \in Users, DeviceStep(u) PROVE UsersType'
  <2>1. PICK label \in Labels : Go(u, label) /\ UNCHANGED <<op, music, begun>>
    BY <1>1, <1>2 DEF DeviceStep, OpenDecides, CloseDriver, CloseFlags, OpenDriver, Publish
  <2>2. QED
    BY <1>0, <2>1 DEF UsersType, Labels
<1>3. ASSUME NEW w \in Initialisers, InitStep(w) PROVE UsersType'
  <2>1. UNCHANGED <<op, music, begun>>
    BY <1>3 DEF InitStep
  <2>2. \/ \E label \in {"idle", "create", "ready"} : Go("app", label)
        \/ UNCHANGED pc
    BY <1>3 DEF InitStep, InitChecks, InitCreates, InitDone, Afterwards, GivesUp, MoveTo
  <2>3. pc' \in [Users -> Labels]
    BY <1>0, <1>1, <2>2, UsersDiffer DEF UsersType, Labels
  <2>4. QED
    BY <2>1, <2>3 DEF UsersType, Labels
<1>4. ASSUME NEW t \in Speeches, SpeechStep(t) PROVE UsersType'
  <2>1. PICK label \in Labels : Go(t, label) /\ UNCHANGED <<op, music, begun>>
    BY <1>1, <1>4
       DEF SpeechStep, SpeechAsks, SpeechTakes, SpeechWrites, SpeechFindsNoDevice, SpeechGives
  <2>2. QED
    BY <1>0, <2>1, UsersDiffer DEF UsersType, Labels
<1>5. Speaks => pc' \in [Users -> Labels]
  <2>1. Speaks => \E t \in Users : Go(t, "ask")
    BY UsersDiffer DEF Speaks
  <2>2. QED
    BY <1>0, <1>1, <2>1
<1>6. CASE AppInits \/ \E r \in Runs : SrBegin(r)
  <2>1. PICK label \in Labels :
          /\ Go("app", label) /\ music' = music
          /\ op' \in {op, "sr"} /\ begun' \in {begun, TRUE}
    BY <1>1, <1>6 DEF AppInits, SrBegin
  <2>2. QED
    BY <1>0, <2>1, UsersDiffer DEF UsersType, Labels
<1>7. CASE SrStep
  <2>1. PICK label \in Labels :
          /\ Go("app", label) /\ music' = music /\ begun' = begun
          /\ op' \in {op, "none", "close", "detect", "both"}
    BY <1>1, <1>7 DEF SrStep, SrFindsNoDevice, SrStartsDetect, SrStartsFeed, SrEnd, SrJoins, Deinit
  <2>2. QED
    BY <1>0, <2>1, UsersDiffer DEF UsersType, Labels
<1>8. CASE UserStep
  <2>1. PICK u \in {"app", "dec"}, label \in Labels :
          /\ Go(u, label) /\ music' \in Rates \cup {0, music}
          /\ op' \in {op, "none", "close", "record", "stopRecord"} /\ begun' \in {begun, TRUE}
    BY <1>1, <1>8
       DEF UserStep, Play, Stop, DecodeEnds, StartRecord, StartRecordEnds, StopRecord, AppCloses
  <2>2. QED
    BY <1>0, <2>1, UsersDiffer DEF UsersType, Labels
<1>9. CASE \E r \in Runs : DetectStep(r)
  <2>1. UNCHANGED <<op, music, begun>> /\ (Speaks \/ UNCHANGED pc)
    BY <1>9 DEF DetectStep, DetectStarts, DetectFetches, DetectReplies
  <2>2. QED
    BY <1>5, <2>1 DEF UsersType, Labels
<1>10. CASE AppSpeaks
  BY <1>5, <1>10 DEF AppSpeaks, UsersType, Labels
<1>11. CASE (\E r \in Runs : FeedStep(r)) \/ RecordFails \/ CaptureEnds \/ UNCHANGED vars
  BY <1>11 DEF FeedStep, RecordFails, CaptureEnds, users, vars, UsersType
<1>12. QED
  BY <1>2, <1>3, <1>4, <1>6, <1>7, <1>8, <1>9, <1>10, <1>11 DEF Next

LEMMA DeviceTypeNext == UsersType /\ DeviceType /\ [Next]_vars => DeviceType'
<1> SUFFICES ASSUME UsersType, DeviceType, [Next]_vars PROVE DeviceType'
  OBVIOUS
<1>1. ASSUME NEW u \in Users, DeviceStep(u) PROVE DeviceType'
  <2>1. Want(u) \in Rates \cup {Voice, 0}
    BY DEF Want, UsersType
  <2>2. /\ muddled' \in BOOLEAN
        /\ disturbed' \subseteq Speeches
    BY <1>1 DEF DeviceStep, OpenDecides, CloseDriver, CloseFlags, OpenDriver, Publish,
                Muddles, Disturbs, Remembers, DeviceType
  <2>3. opened' \in BOOLEAN /\ rate' \in Rates \cup {Voice, 0}
    BY <1>1, <2>1
       DEF DeviceStep, OpenDecides, CloseDriver, CloseFlags, OpenDriver, Publish, DeviceType, device
  <2>4. codec' \in [open: BOOLEAN, works: BOOLEAN, rate: Rates \cup {Voice, 0}]
    <3>1. PICK works \in BOOLEAN :
            codec' \in {codec, Closed, [open |-> TRUE, works |-> works, rate |-> Want(u)]}
      BY <1>1
         DEF DeviceStep, OpenDecides, CloseDriver, CloseFlags, OpenDriver, Publish, device
    <3>2. [open |-> TRUE, works |-> works, rate |-> Want(u)]
            \in [open: BOOLEAN, works: BOOLEAN, rate: Rates \cup {Voice, 0}]
      BY <2>1
    <3>3. Closed \in [open: BOOLEAN, works: BOOLEAN, rate: Rates \cup {Voice, 0}]
      BY DEF Closed
    <3>4. QED
      BY <3>1, <3>2, <3>3 DEF DeviceType
  <2>5. QED
    BY <2>2, <2>3, <2>4 DEF DeviceType
<1>2. ASSUME NEW t \in Speeches, SpeechStep(t) PROVE DeviceType'
  <2>1. UNCHANGED <<device, muddled>> /\ disturbed' \subseteq disturbed
    BY <1>2
       DEF SpeechStep, SpeechAsks, SpeechTakes, SpeechWrites, SpeechFindsNoDevice, SpeechGives
  <2>2. QED
    BY <2>1 DEF DeviceType, device
<1>3. CASE UNCHANGED <<device, hazy>>
  BY <1>3 DEF DeviceType, device, hazy
<1>4. QED
  BY <1>1, <1>2, <1>3
     DEF Next, InitStep, AppInits, AppSpeaks, SrBegin, SrStep, DetectStep, FeedStep, UserStep,
         RecordFails, CaptureEnds, vars

LEMMA TasksNext == EngineInv /\ TasksType /\ [Next]_vars => TasksType'
<1> SUFFICES ASSUME EngineInv, TasksType, [Next]_vars PROVE TasksType'
  OBVIOUS
<1> DEFINE Places == {"off", "start", "fetch", "init", "create", "ready", "reply", "reset"}
<1>0. \A r \in Runs, label \in Places :
        dpc' = [dpc EXCEPT ![r] = label] => dpc' \in [Runs -> Places]
  BY DEF TasksType
<1> USE DEF TasksType
<1>1. \A bit \in {"feed", "detect"} : Sets(bit) => done' \subseteq {"feed", "detect"}
  BY DEF Sets
<1>2. ASSUME NEW w \in Initialisers, InitStep(w) PROVE TasksType'
  <2>1. dpc' = dpc \/ \E r \in Runs, label \in Places : dpc' = [dpc EXCEPT ![r] = label]
    BY <1>2 DEF InitStep, InitChecks, InitCreates, InitDone, MoveTo, Afterwards, GivesUp, Initialisers
  <2>2. dpc' \in [Runs -> Places]
    BY <1>0, <2>1
  <2>3. QED
    BY <1>2, <2>2 DEF InitStep, rec, other
<1>3. CASE SrStep
  <2>1. /\ dpc' = dpc \/ (afe \in Runs /\ dpc' = [dpc EXCEPT ![afe] = "start"])
        /\ done' \in {done, {}} /\ UNCHANGED <<rec, uses, fault>>
    BY <1>3
       DEF SrStep, SrFindsNoDevice, SrStartsDetect, SrStartsFeed, SrEnd, SrJoins, Deinit, EngineInv
  <2>2. /\ afe' \in {afe, "none"} /\ srFlag' \in {srFlag, TRUE, FALSE}
        /\ feeding' = feeding \/ (afe \in Runs /\ feeding' = feeding \cup {afe})
    BY <1>3
       DEF SrStep, SrFindsNoDevice, SrStartsDetect, SrStartsFeed, SrEnd, SrJoins, Deinit, EngineInv
  <2>3. timedOut' \in BOOLEAN
    BY <1>3 DEF SrStep, SrFindsNoDevice, SrStartsDetect, SrStartsFeed, SrEnd, SrJoins
  <2>4. dpc' \in [Runs -> Places] /\ done' \subseteq {"feed", "detect"}
    BY <1>0, <2>1
  <2>5. feeding' \subseteq Runs /\ afe' \in Runs \cup {"none"} /\ srFlag' \in BOOLEAN
    BY <2>2
  <2>6. /\ recording' \in BOOLEAN /\ capture' \in BOOLEAN /\ orphan' \in BOOLEAN
        /\ uses' \in 0 .. MaxUses /\ fault' \in {"none", "engine", "semaphore"}
    BY <2>1 DEF rec
  <2>7. QED
    BY <2>3, <2>4, <2>5, <2>6
<1>4. ASSUME NEW r \in Runs, SrBegin(r) PROVE TasksType'
  <2>1. uses' = uses \/ (uses < MaxUses /\ uses' = uses + 1)
    BY <1>4 DEF SrBegin
  <2>2. uses' \in 0 .. MaxUses
    BY <2>1, SpeechAssumption
  <2>3. timedOut' \in BOOLEAN
    BY <1>4 DEF SrBegin
  <2>4. QED
    BY <1>4, <2>2, <2>3 DEF SrBegin, rec
<1>5. ASSUME NEW r \in Runs, DetectStep(r) PROVE TasksType'
  <2>1. /\ \E label \in Places : dpc' = [dpc EXCEPT ![r] = label]
        /\ fault' \in {fault, "engine"} /\ (Sets("detect") \/ UNCHANGED done)
    BY <1>5 DEF DetectStep, DetectStarts, DetectFetches, DetectReplies, DetectMoves, Uses
  <2>2. dpc' \in [Runs -> Places] /\ done' \subseteq {"feed", "detect"}
    BY <1>0, <1>1, <2>1
  <2>3. QED
    BY <1>5, <2>1, <2>2 DEF DetectStep, rec
<1>6. ASSUME NEW r \in Runs, FeedStep(r) PROVE TasksType'
  BY <1>1, <1>6 DEF FeedStep, FeedFeeds, FeedEnds, rec
<1>7. CASE UserStep
  <2>1. UNCHANGED <<sr, other>>
    BY <1>7 DEF UserStep
  <2>2. uses' = uses \/ (uses < MaxUses /\ uses' = uses + 1)
    BY <1>7
       DEF UserStep, Play, Stop, DecodeEnds, StartRecord, StartRecordEnds, StopRecord, AppCloses
  <2>3. uses' \in 0 .. MaxUses
    BY <2>2, SpeechAssumption
  <2>4. recording' \in BOOLEAN /\ capture' \in BOOLEAN /\ orphan' \in BOOLEAN
    BY <1>7
       DEF UserStep, Play, Stop, DecodeEnds, StartRecord, StartRecordEnds, StopRecord, AppCloses, rec
  <2>5. QED
    BY <2>1, <2>3, <2>4 DEF sr, other
<1>8. CASE RecordFails \/ CaptureEnds
  BY <1>8 DEF RecordFails, CaptureEnds, sr, other
<1>9. ASSUME NEW t \in Speeches, SpeechStep(t) PROVE TasksType'
  <2>1. UNCHANGED <<sr, rec, uses, timedOut>>
    BY <1>9 DEF SpeechStep
  <2>2. fault' \in {fault, "semaphore"}
    BY <1>9 DEF SpeechStep, SpeechAsks, SpeechTakes, SpeechWrites, SpeechFindsNoDevice,
                SpeechGives, Asserts
  <2>3. QED
    BY <2>1, <2>2 DEF sr, rec
<1>10. CASE UNCHANGED <<sr, rec, uses, other>>
  BY <1>10 DEF sr, rec, other
<1>11. QED
  BY <1>2, <1>3, <1>4, <1>5, <1>6, <1>7, <1>8, <1>9, <1>10
     DEF Next, DeviceStep, AppInits, AppSpeaks, vars

(* The initialisers are finitely many, at any place of ttsInit() too.      *)
LEMMA PlacedFinite ==
  /\ IsFiniteSet(Initialisers) /\ Cardinality(Initialisers) \in Nat
  /\ \A label : IsFiniteSet(Placed(label)) /\ Cardinality(Placed(label)) \in Nat
<1>1. IsFiniteSet({"app"} \cup Runs)
  BY FS_Singleton, FS_Union, SpeechAssumption
<1>2. IsFiniteSet(Initialisers)
  BY <1>1 DEF Initialisers
<1>3. \A label : Placed(label) \in SUBSET Initialisers
  BY DEF Placed
<1>4. QED
  BY <1>2, <1>3, FS_Subset, FS_CardinalityType

(* No initialiser is at two places at once.                                *)
LEMMA PlacesAreApart ==
  Cardinality(Placed("ready")) + Cardinality(Placed("create")) <= Cardinality(Initialisers)
<1>1. Placed("ready") \cup Placed("create") \in SUBSET Initialisers
  BY DEF Placed
<1>2. Cardinality(Placed("ready") \cup Placed("create")) <= Cardinality(Initialisers)
  BY <1>1, PlacedFinite, FS_Subset
<1>3. Placed("ready") \cap Placed("create") = {}
  BY DEF Placed
<1>4. Cardinality(Placed("ready") \cup Placed("create"))
        = Cardinality(Placed("ready")) + Cardinality(Placed("create")) - 0
  BY <1>3, PlacedFinite, FS_Union, FS_EmptySet
<1>5. QED
  BY <1>2, <1>4, PlacedFinite

(* An initialiser that moves is counted where it has gone.                 *)
LEMMA PlacedMoves ==
  ASSUME NEW w \in Initialisers, \A v \in Initialisers : v # w => At(v)' = At(v),
         NEW label
  PROVE  /\ At(w) = At(w)' => Cardinality(Placed(label)') = Cardinality(Placed(label))
         /\ At(w) # label /\ At(w)' # label
              => Cardinality(Placed(label)') = Cardinality(Placed(label))
         /\ At(w) = label /\ At(w)' # label
              => Cardinality(Placed(label)') = Cardinality(Placed(label)) - 1
         /\ At(w) # label /\ At(w)' = label
              => Cardinality(Placed(label)') = Cardinality(Placed(label)) + 1
<1>1. At(w) = At(w)' \/ (At(w) # label /\ At(w)' # label) => Placed(label)' = Placed(label)
  BY DEF Placed
<1>2. ASSUME At(w) = label, At(w)' # label
      PROVE  Cardinality(Placed(label)') = Cardinality(Placed(label)) - 1
  <2>1. Placed(label)' = Placed(label) \ {w} /\ w \in Placed(label)
    BY <1>2 DEF Placed
  <2>2. QED
    BY <2>1, PlacedFinite, FS_RemoveElement
<1>3. ASSUME At(w) # label, At(w)' = label
      PROVE  Cardinality(Placed(label)') = Cardinality(Placed(label)) + 1
  <2>1. Placed(label)' = Placed(label) \cup {w} /\ w \notin Placed(label)
    BY <1>3 DEF Placed
  <2>2. QED
    BY <2>1, PlacedFinite, FS_AddElement
<1>4. QED
  BY <1>1, <1>2, <1>3

(* A step in which nobody enters or leaves that part of ttsInit().         *)
LEMMA SemFrame ==
  ASSUME SemInv, UNCHANGED <<inited, made>>,
         \A w \in Initialisers :
           At(w)' = At(w) \/ {At(w), At(w)'} \cap {"create", "ready"} = {}
  PROVE  SemInv'
<1>1. Placed("ready")' = Placed("ready") /\ Placed("create")' = Placed("create")
  BY DEF Placed
<1>2. QED
  BY <1>1 DEF SemInv

LEMMA SemNext == SpeechInv /\ EngineInv /\ TypeInv /\ SemInv /\ [Next]_vars => SemInv'
<1> SUFFICES ASSUME SpeechInv, EngineInv, TypeInv, SemInv, [Next]_vars PROVE SemInv'
  OBVIOUS
<1>0. /\ pc = [u \in Users |-> pc[u]] /\ dpc = [r \in Runs |-> dpc[r]]
      /\ made \in Nat /\ inited \in BOOLEAN
  BY DEF SpeechInv, TypeInv, SpeechType
<1>1. \A u \in Users : \A label :
        Go(u, label) => pc'[u] = label /\ \A v \in Users : v # u => pc'[v] = pc[v]
  BY <1>0, GoMoves
<1>2. ASSUME NEW w \in Initialisers, InitStep(w) PROVE SemInv'
  <2>1. ASSUME NEW label, MoveTo(w, label)
        PROVE  At(w)' = label /\ \A v \in Initialisers : v # w => At(v)' = At(v)
    BY <2>1, MoveToMoves
  <2>2. /\ Cardinality(Placed("ready")) \in Nat /\ Cardinality(Placed("create")) \in Nat
        /\ Cardinality(Initialisers) \in Nat
    BY PlacedFinite
  <2>3. PICK label \in {"idle", "reply", "create", "reset", "ready"} : MoveTo(w, label)
    BY <1>2 DEF InitStep, InitChecks, InitCreates, InitDone, Afterwards, GivesUp
  <2>4. \A v \in Initialisers : v # w => At(v)' = At(v)
    BY <2>1, <2>3
  <2>5. CASE InitChecks(w)
    <3>1. UNCHANGED <<inited, made>> /\ At(w) = "init"
      BY <2>5 DEF InitChecks
    <3>2. CASE inited
      <4>1. MoveTo(w, Afterwards(w)) /\ Afterwards(w) \notin {"create", "ready", "init"}
        BY <2>5, <3>2 DEF InitChecks, Afterwards
      <4>2. At(w)' \notin {"create", "ready"}
        BY <2>1, <4>1
      <4>3. QED
        BY <2>4, <3>1, <4>2, SemFrame
    <3>3. CASE ~inited
      <4>1. MoveTo(w, "create")
        BY <2>5, <3>3 DEF InitChecks
      <4>2. At(w)' = "create"
        BY <2>1, <4>1
      <4>3. Cardinality(Placed("ready")') = Cardinality(Placed("ready"))
        BY <2>4, <3>1, <4>2, PlacedMoves
      <4>4. QED
        BY <3>1, <3>3, <4>3 DEF SemInv
    <3>4. QED
      BY <3>2, <3>3
  <2>6. CASE InitCreates(w)
    <3>1. At(w) = "create" /\ inited' = inited
      BY <2>6 DEF InitCreates
    <3>2. CASE made' = made + 1 /\ MoveTo(w, "ready")
      <4>1. At(w)' = "ready"
        BY <2>1, <3>2
      <4>2. /\ Cardinality(Placed("ready")') = Cardinality(Placed("ready")) + 1
            /\ Cardinality(Placed("create")') = Cardinality(Placed("create")) - 1
        BY <2>4, <3>1, <4>1, PlacedMoves
      <4>3. QED
        BY <1>0, <2>2, <3>1, <3>2, <4>2 DEF SemInv
    <3>3. CASE made' = made /\ GivesUp(w)
      <4>1. At(w)' \in {"idle", "reset"}
        BY <2>1, <3>3 DEF GivesUp
      <4>2. /\ Cardinality(Placed("ready")') = Cardinality(Placed("ready"))
            /\ Cardinality(Placed("create")') = Cardinality(Placed("create")) - 1
        BY <2>4, <3>1, <4>1, PlacedMoves
      <4>3. QED
        BY <1>0, <2>2, <3>1, <3>3, <4>2 DEF SemInv
    <3>4. QED
      BY <2>6, <3>2, <3>3 DEF InitCreates
  <2>7. CASE InitDone(w)
    <3>1. At(w) = "ready" /\ MoveTo(w, Afterwards(w)) /\ inited' = TRUE /\ made' = made
      BY <2>7 DEF InitDone
    <3>2. At(w)' \notin {"create", "ready"}
      BY <2>1, <3>1 DEF Afterwards
    <3>3. Cardinality(Placed("create")') = Cardinality(Placed("create"))
      BY <2>4, <3>1, <3>2, PlacedMoves
    <3>4. made + Cardinality(Placed("create")) <= Cardinality(Initialisers)
      BY <1>0, <2>2, PlacesAreApart DEF SemInv
    <3>5. QED
      BY <3>1, <3>3, <3>4 DEF SemInv
  <2>8. QED
    BY <1>2, <2>5, <2>6, <2>7 DEF InitStep
<1>3. ASSUME UNCHANGED <<inited, made>>,
             pc'["app"] = pc["app"]
               \/ {pc["app"], pc'["app"]} \cap {"create", "ready"} = {},
             dpc' = dpc
               \/ \E r \in Runs, label \in {"off", "start", "fetch", "init"} :
                    /\ dpc' = [dpc EXCEPT ![r] = label] /\ dpc[r] \notin {"create", "ready"}
      PROVE  SemInv'
  <2>1. ASSUME NEW r \in Runs
        PROVE  dpc'[r] = dpc[r] \/ {dpc[r], dpc'[r]} \cap {"create", "ready"} = {}
    <3>1. CASE dpc' = dpc
      BY <3>1
    <3>2. CASE dpc' # dpc
      <4>1. PICK q \in Runs, label \in {"off", "start", "fetch", "init"} :
              dpc' = [dpc EXCEPT ![q] = label] /\ dpc[q] \notin {"create", "ready"}
        BY <1>3, <3>2
      <4>2. dpc'[q] = label /\ \A x \in Runs : x # q => dpc'[x] = dpc[x]
        BY <1>0, <4>1, DetectGoes
      <4>3. QED
        BY <4>1, <4>2
    <3>3. QED
      BY <3>1, <3>2
  <2>2. \A w \in Initialisers :
          At(w)' = At(w) \/ {At(w), At(w)'} \cap {"create", "ready"} = {}
    BY <1>3, <2>1 DEF At, Initialisers
  <2>3. QED
    BY <1>3, <2>2, SemFrame
<1>4. ASSUME NEW u \in Users, DeviceStep(u) PROVE SemInv'
  <2>1. UNCHANGED <<inited, made, dpc>>
    BY <1>4 DEF DeviceStep, tts, sr
  <2>2. PICK label \in Inside \cup {"opened", "failed", "closed"} :
          Go(u, label) /\ pc[u] \in Inside \cup {"open", "close"}
    BY <1>4 DEF DeviceStep, OpenDecides, CloseDriver, CloseFlags, OpenDriver, Publish, Inside
  <2>3. pc'["app"] = pc["app"] \/ (u = "app" /\ pc'["app"] = label)
    BY <1>1, <2>2, UsersDiffer
  <2>4. QED
    BY <1>3, <2>1, <2>2, <2>3 DEF Inside
<1>5. ASSUME NEW t \in Speeches, SpeechStep(t) PROVE SemInv'
  <2>1. UNCHANGED <<inited, made, dpc>>
    BY <1>5 DEF SpeechStep, sr
  <2>2. \E label : Go(t, label)
    BY <1>5
       DEF SpeechStep, SpeechAsks, SpeechTakes, SpeechWrites, SpeechFindsNoDevice, SpeechGives
  <2>3. pc'["app"] = pc["app"]
    BY <1>1, <2>2, UsersDiffer
  <2>4. QED
    BY <1>3, <2>1, <2>3
<1>6. ASSUME NEW r \in Runs, SrBegin(r) PROVE SemInv'
  <2>1. UNCHANGED <<inited, made, dpc>> /\ pc["app"] = "idle" /\ pc'["app"] = "open"
    BY <1>1, <1>6, UsersDiffer DEF SrBegin, tts
  <2>2. QED
    BY <1>3, <2>1
<1>7. CASE SrStep
  <2>1. UNCHANGED <<inited, made>>
    BY <1>7 DEF SrStep, tts
  <2>2. PICK label \in {"idle", "spawn", "close", "join"} :
          Go("app", label) /\ pc["app"] \in {"failed", "opened", "spawn", "idle", "join"}
    BY <1>7 DEF SrStep, SrFindsNoDevice, SrStartsDetect, SrStartsFeed, SrEnd, SrJoins, Deinit
  <2>3. pc'["app"] = label
    BY <1>1, <2>2, UsersDiffer
  <2>4. dpc' = dpc \/ (afe \in Runs /\ dpc[afe] = "off" /\ dpc' = [dpc EXCEPT ![afe] = "start"])
    BY <1>7
       DEF SrStep, SrFindsNoDevice, SrStartsDetect, SrStartsFeed, SrEnd, SrJoins, EngineInv
  <2>5. QED
    BY <1>3, <2>1, <2>2, <2>3, <2>4
<1>8. Speaks => pc'["app"] = pc["app"]
  BY <1>1, UsersDiffer DEF Speaks
<1>9. ASSUME NEW r \in Runs, DetectStep(r) PROVE SemInv'
  <2>1. /\ UNCHANGED <<inited, made>> /\ dpc[r] \notin {"create", "ready"}
        /\ \E label \in {"off", "start", "fetch", "init"} : dpc' = [dpc EXCEPT ![r] = label]
        /\ Speaks \/ UNCHANGED pc
    BY <1>9 DEF DetectStep, DetectStarts, DetectFetches, DetectReplies, DetectMoves, tts
  <2>2. QED
    BY <1>3, <1>8, <2>1
<1>10. CASE AppSpeaks
  BY <1>3, <1>8, <1>10 DEF AppSpeaks, tts, sr
<1>11. CASE AppInits \/ UserStep
  <2>1. UNCHANGED <<inited, made, dpc>>
    BY <1>11 DEF AppInits, UserStep, tts, sr
  <2>2. PICK u \in {"app", "dec"}, label \in {"open", "close", "off", "idle", "init"} :
          Go(u, label) /\ pc[u] \in {"idle", "off", "open", "opened", "failed", "closed"}
    BY <1>11
       DEF AppInits, UserStep, Play, Stop, DecodeEnds, StartRecord, StartRecordEnds, StopRecord,
           AppCloses
  <2>3. pc'["app"] = pc["app"] \/ (u = "app" /\ pc'["app"] = label)
    BY <1>1, <2>2, UsersDiffer
  <2>4. QED
    BY <1>3, <2>1, <2>2, <2>3
<1>12. CASE (\E r \in Runs : FeedStep(r)) \/ RecordFails \/ CaptureEnds \/ UNCHANGED vars
  <2>1. UNCHANGED <<inited, made, dpc, pc>>
    BY <1>12 DEF FeedStep, RecordFails, CaptureEnds, vars, users, tts, sr
  <2>2. QED
    BY <1>3, <2>1
<1>13. QED
  BY <1>2, <1>4, <1>5, <1>6, <1>7, <1>9, <1>10, <1>11, <1>12 DEF Next

(* No more are created than there are initialisers.                        *)
LEMMA SemaphoresBounded ==
  ASSUME SpeechInv, TypeInv, SemInv
  PROVE  made \in 0 .. Cardinality(Initialisers)
<1>1. made \in Nat /\ inited \in BOOLEAN
  BY DEF SpeechInv, TypeInv, SpeechType
<1>2. QED
  BY <1>1, PlacedFinite, PlacesAreApart DEF SemInv

LEMMA SpeechTypeNext == SpeechInv /\ TypeInv /\ [Next]_vars => SpeechType'
<1> SUFFICES ASSUME SpeechInv, TypeInv, [Next]_vars PROVE SpeechType'
  OBVIOUS
<1>0. inited \in BOOLEAN /\ replaced \in BOOLEAN /\ waits \in [Speeches -> 0 .. made]
      /\ made \in Nat /\ sem \in 0 .. made
  BY DEF SpeechType, TypeInv, SpeechInv
<1>1. ASSUME NEW w \in Initialisers, InitStep(w) PROVE SpeechType'
  <2>1. /\ inited' \in {inited, TRUE} /\ waits' = waits
        /\ made' \in {made, made + 1}
    BY <1>1 DEF InitStep, InitChecks, InitCreates, InitDone
  <2>2. replaced' \in BOOLEAN
    BY <1>0, <1>1 DEF InitStep, InitChecks, InitCreates, InitDone
  <2>3. 0 .. made \subseteq 0 .. made'
    BY <1>0, <2>1
  <2>4. waits' \in [Speeches -> 0 .. made']
    BY <1>0, <2>1, <2>3
  <2>5. QED
    BY <1>0, <2>1, <2>2, <2>4 DEF SpeechType
<1>2. ASSUME NEW t \in Speeches, SpeechStep(t) PROVE SpeechType'
  <2>1. /\ waits' \in {waits, [waits EXCEPT ![t] = sem], [waits EXCEPT ![t] = 0]}
        /\ UNCHANGED <<inited, replaced, made>>
    BY <1>2
       DEF SpeechStep, SpeechAsks, SpeechTakes, SpeechWrites, SpeechFindsNoDevice, SpeechGives
  <2>2. QED
    BY <1>0, <2>1 DEF SpeechType
<1>3. CASE UNCHANGED tts
  BY <1>0, <1>3 DEF tts, SpeechType
<1>4. QED
  BY <1>1, <1>2, <1>3
     DEF Next, DeviceStep, AppInits, AppSpeaks, SrBegin, SrStep, DetectStep, FeedStep, UserStep,
         RecordFails, CaptureEnds, vars

(***************************************************************************)
(* The theorems                                                            *)
(***************************************************************************)
LEMMA InitSInv == Init => SInv
<1> SUFFICES ASSUME Init PROVE SInv
  OBVIOUS
<1>1. /\ pc["app"] = "idle"
      /\ \A u \in Users : pc[u] \notin Inside \cup {"opened"}
      /\ codec.open = FALSE
  BY UsersDiffer DEF Init, Inside, Closed
<1>2. MicInv /\ EngineInv
  BY <1>1 DEF Init, MicInv, EngineInv, EngineOutlivesTasks, Alive
<1>3. DeviceInv
  BY <1>1, UsersDiffer DEF Init, DeviceInv, Agree, Inside
<1>4. QED
  BY <1>2, <1>3, SpeechInit DEF SInv

(* The invariant the results below are read off from.                      *)
THEOREM SpeechInvariant == Spec => []SInv
<1>1. SInv /\ [Next]_vars => SInv'
  BY SpeechNext, MicNext, EngineNext, DeviceNext DEF SInv
<1>2. QED
  BY InitSInv, <1>1, PTL DEF Spec

(* Every variable has its type; in particular no more semaphores are ever   *)
(* created than there are initialisers: the application, and the detect     *)
(* tasks of the recognitions that may be there together.                    *)
THEOREM SpeechTypes == Spec => []TypeOK
<1>1. SInv /\ TypeInv /\ SemInv /\ [Next]_vars => (SInv /\ TypeInv /\ SemInv)'
  BY SpeechNext, MicNext, EngineNext, DeviceNext, UsersNext, DeviceTypeNext, TasksNext,
     SemNext, SpeechTypeNext DEF SInv, TypeInv
<1>2. SInv /\ TypeInv /\ SemInv => TypeOK
  <2> SUFFICES ASSUME SInv, TypeInv, SemInv PROVE TypeOK
    OBVIOUS
  <2>1. /\ made \in 0 .. Cardinality(Initialisers)
        /\ sem \in 0 .. made /\ token \subseteq 1 .. made
    BY SemaphoresBounded DEF SInv, SpeechInv
  <2>2. QED
    BY <2>1 DEF TypeInv, UsersType, DeviceType, TasksType, SpeechType, TypeOK
<1>3. QED
  BY InitSInv, TypesInit, <1>1, <1>2, PTL DEF Spec

(* Two speeches are never played at once until an initialiser overwrites    *)
(* the semaphore of another, for any number of tasks that textToSpeech()    *)
(* creates and any number of recognitions that answer with one.             *)
THEOREM SpeechesTakeTurns == Spec => []SpeechIsSerial
<1>1. SInv => SpeechIsSerial
  <2> SUFFICES ASSUME SInv, ~replaced, NEW t \in Speeches, NEW u \in Speeches,
                      pc[t] \in Holding, pc[u] \in Holding
               PROVE  t = u
    BY DEF SpeechIsSerial
  <2>1. made \in Nat /\ made # 0 /\ made <= 1
    BY DEF SInv, SpeechInv, Holding, Speaking
  <2>2. made = 1
    BY <2>1
  <2>3. QED
    BY <2>2 DEF SInv, SpeechInv, Serial
<1>2. QED
  BY <1>1, SpeechInvariant, PTL

(* The semaphore is given back on every path of ttsTask().                  *)
THEOREM SemaphoreComesBack == Spec => []SemaphoreIsKept
<1>1. SInv => SemaphoreIsKept
  <2> SUFFICES ASSUME SInv, inited, ~replaced
               PROVE  /\ fault # "semaphore" /\ sem # 0
                      /\ (sem \in token) # (\E t \in Speeches : pc[t] \in Holding)
    BY DEF SemaphoreIsKept
  <2>1. made \in Nat /\ made # 0 /\ made <= 1 /\ sem = made /\ fault # "semaphore"
    BY DEF SInv, SpeechInv
  <2>2. made = 1 /\ sem = 1
    BY <2>1
  <2>3. (1 \in token) # Held
    BY <2>2 DEF SInv, SpeechInv
  <2>4. QED
    BY <2>1, <2>2, <2>3 DEF Held
<1>2. QED
  BY <1>1, SpeechInvariant, PTL

(* A speech is written to a working device at its own rate, as long as no   *)
(* other user opened or closed it since, no two were ever inside the        *)
(* device's functions together, and the driver has not failed.              *)
THEOREM SpeechIsAudible == Spec => []SpeechHeard
<1>1. SInv => SpeechHeard
  BY DEF SInv, DeviceInv, Sound, SpeechHeard, Audible
<1>2. QED
  BY <1>1, SpeechInvariant, PTL

(* No two tasks read the microphone together, of any number of recordings   *)
(* and recognitions in any order, but for a capture task that its recording *)
(* left behind and for tasks that a join gave up on.                        *)
THEOREM MicrophoneIsNotShared == Spec => []MicHasOneReader
<1>1. SInv => MicHasOneReader
  <2> SUFFICES ASSUME SInv PROVE MicHasOneReader
    OBVIOUS
  <2>1. capture /\ feeding # {} => orphan \/ timedOut
    BY DEF SInv, MicInv
  <2>2. ASSUME NEW q \in feeding, NEW r \in feeding, ~timedOut PROVE q = r
    BY <2>2 DEF SInv, EngineInv, Alive
  <2>3. QED
    BY <2>1, <2>2 DEF MicHasOneReader
<1>2. QED
  BY <1>1, SpeechInvariant, PTL

(* However recognitions come and go, a recogniser is destroyed only after   *)
(* its tasks have ended, or after the eight seconds of a join.              *)
THEOREM EngineIsKept == Spec => []EngineOutlivesTasks
<1>1. SInv => EngineOutlivesTasks
  BY DEF SInv, EngineInv
<1>2. QED
  BY <1>1, SpeechInvariant, PTL
================================================================================
