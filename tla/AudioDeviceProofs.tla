-------------------------- MODULE AudioDeviceProofs --------------------------
(***************************************************************************)
(* Proofs about AudioDevice, for every set of clients.  What a side looks  *)
(* like between two operations (OpenIffWanted) is not inductive: Inv also  *)
(* says what the engine thread has in hand in the middle of one, and how a *)
(* side's device thread follows the side.  The liveness properties follow  *)
(* from the fairness of LiveSpec with its guards written out.              *)
(***************************************************************************)
EXTENDS AudioDevice, TLAPS

\* A side no operation is under way on.
Settled(s) == IF clients[s] = {} THEN ~on[s] /\ ~exc[s] ELSE on[s] # exc[s]

\* Where an operation finds its side.
Underway ==
  /\ op = "attach" => clients[side] # {} /\ ~on[side] /\ ~exc[side]
  /\ op = "retry" => clients[side] # {} /\ ~on[side] /\ exc[side]
  /\ op = "stop" => clients[side] = {} /\ on[side] /\ ~exc[side]
  /\ \A s \in Sides : op = "none" \/ s # side => Settled(s)

Threads ==
  \A s \in Sides :
    /\ thread[s] # "off" => on[s]
    /\ on[s] => thread[s] # "off" \/ Stopping(s)
    /\ thread[s] = "calling" => left[s] \subseteq clients[s]

Closed == ~device => op = "none" /\ \A s \in Sides : clients[s] = {}

Inv == TypeOK /\ Underway /\ Threads /\ Closed
-----------------------------------------------------------------------------
\* The types survive every step.
LEMMA TypeStep == TypeOK /\ [Next]_vars => TypeOK'
  <1> SUFFICES ASSUME TypeOK, [Next]_vars PROVE TypeOK'
    OBVIOUS
  <1> USE DEF TypeOK
  <1>1. CASE InitAudDevice
    BY <1>1 DEF InitAudDevice
  <1>2. CASE DeInitAudDevice
    BY <1>2 DEF DeInitAudDevice
  <1>3. CASE StartDone
    BY <1>3 DEF StartDone
  <1>4. CASE StartFailed
    BY <1>4 DEF StartFailed
  <1>5. CASE StopDone
    BY <1>5 DEF StopDone
  <1>6. CASE \E s \in Sides : Retry(s)
    BY <1>6 DEF Retry
  <1>7. CASE \E s \in Sides, c \in Clients : Attach(s, c)
    BY <1>7 DEF Attach
  <1>8. CASE \E s \in Sides, c \in Clients : Detach(s, c)
    BY <1>8 DEF Detach
  <1>9. CASE \E s \in Sides : Samples(s)
    BY <1>9 DEF Samples
  <1>10. CASE \E s \in Sides : Callback(s)
    BY <1>10 DEF Callback, Lock, Call, Return, Quit
  <1>11. CASE UNCHANGED vars
    BY <1>11 DEF vars
  <1> QED
    BY <1>1, <1>2, <1>3, <1>4, <1>5, <1>6, <1>7, <1>8, <1>9, <1>10, <1>11 DEF Next, Engine

\* So do the operations' place in the life of a side, its thread, and the end of the engine.
LEMMA SideStep == Inv /\ [Next]_vars => (Underway /\ Threads /\ Closed)'
  <1> SUFFICES ASSUME Inv, [Next]_vars PROVE (Underway /\ Threads /\ Closed)'
    OBVIOUS
  <1> USE DEF Inv, TypeOK, Underway, Threads, Closed, Settled, Stopping, Sides
  <1>1. CASE InitAudDevice
    BY <1>1 DEF InitAudDevice
  <1>2. CASE DeInitAudDevice
    BY <1>2 DEF DeInitAudDevice
  <1>3. CASE StartDone
    BY <1>3 DEF StartDone
  <1>4. CASE StartFailed
    BY <1>4 DEF StartFailed
  <1>5. CASE StopDone
    BY <1>5 DEF StopDone
  <1>6. CASE \E s \in Sides : Retry(s)
    BY <1>6 DEF Retry
  <1>7. CASE \E s \in Sides, c \in Clients : Attach(s, c)
    BY <1>7 DEF Attach, LockFree
  <1>8. CASE \E s \in Sides, c \in Clients : Detach(s, c)
    BY <1>8 DEF Detach, LockFree
  <1>9. CASE \E s \in Sides : Samples(s)
    BY <1>9 DEF Samples
  <1>10. CASE \E s \in Sides : Callback(s)
    BY <1>10 DEF Callback, Lock, Call, Return, Quit
  <1>11. CASE UNCHANGED vars
    BY <1>11 DEF vars
  <1> QED
    BY <1>1, <1>2, <1>3, <1>4, <1>5, <1>6, <1>7, <1>8, <1>9, <1>10, <1>11 DEF Next, Engine

\* Inv is inductive.
THEOREM Inductive == Spec => []Inv
  <1>1. Init => Inv
    <2> SUFFICES ASSUME Init PROVE Inv
      OBVIOUS
    <2>1. TypeOK
      BY DEF Init, TypeOK, Sides
    <2>2. Underway /\ Threads /\ Closed
      BY DEF Init, Underway, Threads, Closed, Settled
    <2> QED
      BY <2>1, <2>2 DEF Inv
  <1>2. Inv /\ [Next]_vars => Inv'
    BY TypeStep, SideStep DEF Inv
  <1> QED
    BY <1>1, <1>2, PTL DEF Spec

\* For every set of clients, every variable keeps its type.
THEOREM TypeCorrect == Spec => []TypeOK
  BY Inductive, PTL DEF Inv

\* The device is open, or being retried, exactly while somebody wants it.
THEOREM OpenRight == Spec => []OpenIffWanted
  <1>1. Inv => OpenIffWanted
    BY DEF Inv, Underway, Settled, OpenIffWanted
  <1> QED
    BY <1>1, Inductive, PTL

\* No callback reaches a client after its detach.
THEOREM CallsSafe == Spec => []CallsOnlyAttached
  <1>1. Inv => CallsOnlyAttached
    BY DEF Inv, Threads, CallsOnlyAttached
  <1> QED
    BY <1>1, Inductive, PTL

\* The engine's loop does not touch the device once release has dropped it.
THEOREM DeInitSafe == Spec => []NoUseAfterDeInit
  <1>1. Inv => NoUseAfterDeInit
    BY DEF Inv, TypeOK, Underway, Settled, Threads, Closed, NoUseAfterDeInit
  <1> QED
    BY <1>1, Inductive, PTL
-----------------------------------------------------------------------------
(***************************************************************************)
(* Liveness.  tlapm has no rule for ENABLED, so the fairness of LiveSpec   *)
(* is restated with each action's guard written out: an action whose guard *)
(* holds from some point on (Weak), or again and again (Strong), is taken  *)
(* again and again.                                                        *)
(***************************************************************************)
Weak(guard, A) == []<>~guard \/ []<><<A>>_vars
Strong(guard, A) == <>[]~guard \/ []<><<A>>_vars

CallbackDue(s) == thread[s] \in {"waiting", "calling"} \/ (thread[s] = "idle" /\ Stopping(s))

SideFair(s) == Weak(CallbackDue(s), Callback(s)) /\ Strong(op = "none" /\ exc[s], Retry(s))

GuardFairness ==
  /\ Weak(op \in {"attach", "retry"}, StartDone \/ StartFailed)
  /\ Weak(op = "stop" /\ thread[side] = "off", StopDone)
  /\ \A s \in Sides : SideFair(s)

\* The stop of side s comes to its end.
StopEnds(s) == Stopping(s) ~> op = "none"

\* The device thread runs down, through the lock if it has to, and is joined: a callback
\* that began before the stop finds no client to visit.
LEMMA SideStopEnds == ASSUME NEW s \in Sides PROVE Spec /\ GuardFairness => StopEnds(s)
  <1> DEFINE At(t) == Stopping(s) /\ thread[s] = t
  <1> USE DEF Inv, TypeOK, Underway, Threads, Stopping
  <1>a. Inv /\ Stopping(s) /\ [Next]_vars =>
          \/ (op = "none")'
          \/ Stopping(s)' /\ (Callback(s) \/ thread'[s] = thread[s])
    BY DEF Next, Engine, vars, InitAudDevice, DeInitAudDevice, StartDone, StartFailed, StopDone,
       Retry, Attach, Detach, Samples, Callback, Lock, Call, Return, Quit
  <1> USE DEF Callback, Lock, Call, Return, Quit
  <1>1. Inv /\ At("waiting") /\ [Next]_vars => (At("waiting") \/ At("calling") \/ op = "none")'
    BY <1>a
  <1>2. Inv /\ At("calling") /\ [Next]_vars => (At("calling") \/ At("idle") \/ op = "none")'
    BY <1>a
  <1>3. Inv /\ At("idle") /\ [Next]_vars => (At("idle") \/ At("off") \/ op = "none")'
    BY <1>a
  <1>4. Inv /\ At("off") /\ [Next]_vars => (At("off") \/ op = "none")'
    BY <1>a
  <1>5. Inv /\ At("waiting") /\ <<Callback(s)>>_vars => ~At("waiting")'
    OBVIOUS
  <1>6. Inv /\ At("calling") /\ <<Callback(s)>>_vars => ~At("calling")'
    OBVIOUS
  <1>7. Inv /\ At("idle") /\ <<Callback(s)>>_vars => ~At("idle")'
    OBVIOUS
  <1>8. At("off") /\ <<StopDone>>_vars => ~At("off")'
    BY DEF StopDone
  <1>9. At("waiting") \/ At("calling") \/ At("idle") => CallbackDue(s)
    BY DEF CallbackDue
  <1>10. Inv /\ Stopping(s) => At("waiting") \/ At("calling") \/ At("idle") \/ At("off")
    OBVIOUS
  <1>11. At("off") => op = "stop" /\ thread[side] = "off"
    OBVIOUS
  <1>12. GuardFairness => Weak(op = "stop" /\ thread[side] = "off", StopDone) /\ SideFair(s)
    BY DEF GuardFairness
  <1> HIDE DEF At
  <1> QED
    BY <1>1, <1>2, <1>3, <1>4, <1>5, <1>6, <1>7, <1>8, <1>9, <1>10, <1>11, <1>12, Inductive,
       PTL DEF Spec, SideFair, Weak, StopEnds

\* Detaching the last client returns, although it joins a thread that needs the lock.
THEOREM StopsEnd == Spec /\ GuardFairness => DetachReturns
  <1>1. \A s \in Sides : Spec /\ GuardFairness => StopEnds(s)
    BY SideStopEnds
  <1>2. Spec /\ GuardFairness => StopEnds("cap") /\ StopEnds("ply")
    BY <1>1 DEF Sides
  <1>3. Inv /\ op = "stop" => Stopping("cap") \/ Stopping("ply")
    BY DEF Inv, TypeOK, Sides, Stopping
  <1> QED
    BY <1>2, <1>3, Inductive, PTL DEF DetachReturns, StopEnds

\* No operation of the engine thread on the device lasts for ever.
LEMMA EngineRests == Spec /\ GuardFairness => []<>(op = "none")
  <1> DEFINE Opening == op \in {"attach", "retry"}
  <1>1. Opening /\ [Next]_vars => (Opening \/ op = "none")'
    BY DEF Next, Engine, vars, InitAudDevice, DeInitAudDevice, StartDone, StartFailed, StopDone,
       Retry, Attach, Detach, Samples, Callback, Lock, Call, Return, Quit
  <1>2. <<StartDone \/ StartFailed>>_vars => (op = "none")'
    BY DEF StartDone, StartFailed
  <1>3. Inv => Opening \/ op = "stop" \/ op = "none"
    BY DEF Inv, TypeOK
  <1>4. GuardFairness => Weak(Opening, StartDone \/ StartFailed)
    BY DEF GuardFairness
  <1> HIDE DEF Opening
  <1> QED
    BY <1>1, <1>2, <1>3, <1>4, StopsEnd, Inductive, PTL DEF Spec, Weak, DetachReturns

\* What DeviceRecovers says, with the guard written out.
GuardRecovers(s) == Strong(op \in {"attach", "retry"} /\ side = s, StartDone /\ side = s)

\* Side s is opened, or nobody wants it any more.
OpenOrUnwanted(s) == clients[s] # {} ~> on[s] \/ clients[s] = {}

\* While a client waits for a side that is closed, every rest of the engine thread finds
\* it marked for a retry, and one of those succeeds.
LEMMA SideOpens == ASSUME NEW s \in Sides
                   PROVE Spec /\ GuardFairness /\ GuardRecovers(s) => OpenOrUnwanted(s)
  <1>1. Inv /\ op = "none" /\ ~(on[s] \/ clients[s] = {}) => exc[s]
    BY DEF Inv, TypeOK, Underway, Settled
  <1>2. <<Retry(s)>>_vars => (op \in {"attach", "retry"} /\ side = s)'
    BY DEF Retry
  <1>3. Inv /\ <<StartDone /\ side = s>>_vars => (on[s])'
    BY DEF StartDone, Inv, TypeOK
  <1>4. GuardFairness => SideFair(s)
    BY DEF GuardFairness
  <1> QED
    BY <1>1, <1>2, <1>3, <1>4, EngineRests, Inductive, PTL DEF SideFair, Strong, GuardRecovers,
       OpenOrUnwanted

\* A side that failed to open is opened by some retry while a client waits for it, if the
\* device recovers; the last hypothesis says that the guard written out in GuardRecovers
\* is what enables the step.
THEOREM OpensInTheEnd ==
  /\ Spec /\ GuardFairness
  /\ DeviceRecovers => \A s \in Sides : GuardRecovers(s)
  => OpensAtLast
  <1>1. \A s \in Sides : Spec /\ GuardFairness /\ GuardRecovers(s) => OpenOrUnwanted(s)
    BY SideOpens
  <1> QED
    BY <1>1 DEF OpensAtLast, OpenOrUnwanted
=============================================================================
