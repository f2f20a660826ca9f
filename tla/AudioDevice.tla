----------------------------- MODULE AudioDevice -----------------------------
(***************************************************************************)
(* ArLive2Engine's ownership of the audio device: pushers attach to its    *)
(* capture side and players to its playout side, each side runs while it   *)
(* has a client, and a side that could not be opened is retried by the     *)
(* engine's loop every 100 ms.  The engine thread performs every attach    *)
(* and detach (other threads Invoke it); one thread per side, owned by the *)
(* WebRTC device, calls the clients back under the side's lock.            *)
(***************************************************************************)
EXTENDS Naturals, FiniteSets

CONSTANT Clients   \* ArLive2Pusher and ArLive2Player objects

Sides == {"cap", "ply"}   \* cs_aud_capture_ and cs_aud_speaker_, and what each guards

VARIABLES
  device,    \* audio_device_ptr_ is not NULL
  clients,   \* map_aud_dev_capture_, map_aud_dev_speaker_
  on,        \* Recording(), Playing()
  exc,       \* b_aud_cap_exception_, b_aud_ply_exception_
  op,        \* what the engine thread is doing to the device, "none" at rest
  side,      \* ... and to which side
  thread,    \* where the side's device thread stands
  left       \* the clients its callback has still to visit

vars == <<device, clients, on, exc, op, side, thread, left>>

Init ==
  /\ device = FALSE
  /\ clients = [s \in Sides |-> {}]
  /\ on = [s \in Sides |-> FALSE] /\ exc = [s \in Sides |-> FALSE]
  /\ op = "none" /\ side = "cap"
  /\ thread = [s \in Sides |-> "off"] /\ left = [s \in Sides |-> {}]

\* The side's lock, which its callback holds from the first client to the last.
LockFree(s) == thread[s] # "calling"

Stopping(s) == op = "stop" /\ side = s

-----------------------------------------------------------------------------
(***************************************************************************)
(* The engine thread.                                                      *)
(***************************************************************************)

\* InitAudDevice, invoked by initialize.
InitAudDevice ==
  /\ op = "none" /\ ~device
  /\ device' = TRUE
  /\ UNCHANGED <<clients, on, exc, op, side, thread, left>>

\* DeInitAudDevice, invoked by release once the application has released its pushers
\* and players: a side still open is stopped, which joins its thread.  The loop may turn
\* once more before it sees b_running_ fall.
DeInitAudDevice ==
  /\ op = "none" /\ device
  /\ \A s \in Sides : clients[s] = {} /\ thread[s] \in {"off", "idle"}
  /\ device' = FALSE
  /\ on' = [s \in Sides |-> FALSE] /\ thread' = [s \in Sides |-> "off"]
  /\ UNCHANGED <<clients, exc, op, side, left>>

\* AttachAudCapture, AttachAudSpeaker: the first client has the device opened, outside the lock.
Attach(s, c) ==
  /\ op = "none" /\ device /\ LockFree(s)
  /\ clients' = [clients EXCEPT ![s] = @ \cup {c}]
  /\ op' = IF clients[s] = {} /\ ~on[s] THEN "attach" ELSE "none"
  /\ side' = s
  /\ UNCHANGED <<device, on, exc, thread, left>>

\* The loop's retry of a side that failed to open.
Retry(s) ==
  /\ op = "none" /\ exc[s]
  /\ op' = "retry" /\ side' = s
  /\ UNCHANGED <<device, clients, on, exc, thread, left>>

\* Variant to be rejected: the failed attach leaves nothing for the loop to retry.
StartFailedQuietly ==
  /\ op \in {"attach", "retry"}
  /\ exc' = [exc EXCEPT ![side] = op = "retry"]
  /\ op' = "none"
  /\ UNCHANGED <<device, clients, on, side, thread, left>>

\* StartRecording or StartPlayout succeeds.  AttachAudSpeaker alone leaves the flag as it is.
StartDone ==
  /\ op \in {"attach", "retry"}
  /\ on' = [on EXCEPT ![side] = TRUE]
  /\ thread' = [thread EXCEPT ![side] = "idle"]
  /\ exc' = IF op = "attach" /\ side = "ply" THEN exc ELSE [exc EXCEPT ![side] = FALSE]
  /\ op' = "none"
  /\ UNCHANGED <<device, clients, side, left>>

StartFailed ==
  /\ op \in {"attach", "retry"}
  /\ exc' = [exc EXCEPT ![side] = TRUE]
  /\ op' = "none"
  /\ UNCHANGED <<device, clients, on, side, thread, left>>

\* Variants to be rejected: the map is changed without the lock; the retry is not called off.
DetachUnlocked(s, c) ==
  /\ op = "none" /\ device /\ c \in clients[s]
  /\ clients' = [clients EXCEPT ![s] = @ \ {c}]
  /\ side' = s
  /\ op' = IF clients[s] = {c} /\ on[s] THEN "stop" ELSE "none"
  /\ exc' = [exc EXCEPT ![s] = @ /\ clients[s] # {c}]
  /\ UNCHANGED <<device, on, thread, left>>

DetachKeepsRetry(s, c) ==
  /\ op = "none" /\ device /\ LockFree(s) /\ c \in clients[s]
  /\ clients' = [clients EXCEPT ![s] = @ \ {c}]
  /\ side' = s
  /\ op' = IF clients[s] = {c} /\ on[s] THEN "stop" ELSE "none"
  /\ UNCHANGED <<device, on, exc, thread, left>>

\* DetachAudCapture, DetachAudSpeaker: erase under the lock; the last client has the
\* device stopped and the retry called off.
Detach(s, c) ==
  /\ op = "none" /\ device /\ LockFree(s) /\ c \in clients[s]
  /\ clients' = [clients EXCEPT ![s] = @ \ {c}]
  /\ side' = s
  /\ IF clients[s] = {c}
     THEN IF on[s] THEN op' = "stop" /\ UNCHANGED exc
                   ELSE exc' = [exc EXCEPT ![s] = FALSE] /\ UNCHANGED op
     ELSE UNCHANGED <<op, exc>>
  /\ UNCHANGED <<device, on, thread, left>>

\* Variant to be rejected: the side is forgotten with the operation.
StopDoneForgets ==
  /\ op = "stop" /\ thread[side] = "off"
  /\ on' = [on EXCEPT ![side] = FALSE]
  /\ exc' = [exc EXCEPT ![side] = FALSE]
  /\ op' = "none" /\ side' = "none"
  /\ UNCHANGED <<device, clients, thread, left>>

\* StopRecording or StopPlayout returns: it has joined the device thread.
StopDone ==
  /\ op = "stop" /\ thread[side] = "off"
  /\ on' = [on EXCEPT ![side] = FALSE]
  /\ exc' = [exc EXCEPT ![side] = FALSE]
  /\ op' = "none"
  /\ UNCHANGED <<device, clients, side, thread, left>>

-----------------------------------------------------------------------------
(***************************************************************************)
(* The device threads: RecordedDataIsAvailable and NeedMorePlayData.       *)
(***************************************************************************)

\* The device has 10 ms of samples and calls the engine, unless it is being stopped.
Samples(s) ==
  /\ thread[s] = "idle" /\ ~Stopping(s)
  /\ thread' = [thread EXCEPT ![s] = "waiting"]
  /\ UNCHANGED <<device, clients, on, exc, op, side, left>>

\* Variant to be rejected: the engine thread holds the lock while it stops the device.
LockStopping(s) ==
  /\ thread[s] = "waiting" /\ ~Stopping(s)
  /\ thread' = [thread EXCEPT ![s] = "calling"]
  /\ left' = [left EXCEPT ![s] = clients[s]]
  /\ UNCHANGED <<device, clients, on, exc, op, side>>

\* The callback takes the lock and starts over the map.
Lock(s) ==
  /\ thread[s] = "waiting"
  /\ thread' = [thread EXCEPT ![s] = "calling"]
  /\ left' = [left EXCEPT ![s] = clients[s]]
  /\ UNCHANGED <<device, clients, on, exc, op, side>>

Call(s, c) ==
  /\ thread[s] = "calling" /\ c \in left[s]
  /\ left' = [left EXCEPT ![s] = @ \ {c}]
  /\ UNCHANGED <<device, clients, on, exc, op, side, thread>>

Return(s) ==
  /\ thread[s] = "calling" /\ left[s] = {}
  /\ thread' = [thread EXCEPT ![s] = "idle"]
  /\ UNCHANGED <<device, clients, on, exc, op, side, left>>

Quit(s) ==
  /\ thread[s] = "idle" /\ Stopping(s)
  /\ thread' = [thread EXCEPT ![s] = "off"]
  /\ UNCHANGED <<device, clients, on, exc, op, side, left>>

Callback(s) == Lock(s) \/ (\E c \in Clients : Call(s, c)) \/ Return(s) \/ Quit(s)

-----------------------------------------------------------------------------
Engine ==
  \/ InitAudDevice \/ DeInitAudDevice
  \/ StartDone \/ StartFailed \/ StopDone
  \/ \E s \in Sides : Retry(s) \/ \E c \in Clients : Attach(s, c) \/ Detach(s, c)

Next == Engine \/ \E s \in Sides : Samples(s) \/ Callback(s)

Spec == Init /\ [][Next]_vars

\* The engine's loop turns and its device calls return; a callback that began ends.
Fairness ==
  /\ WF_vars(StartDone \/ StartFailed) /\ WF_vars(StopDone)
  /\ \A s \in Sides : SF_vars(Retry(s)) /\ WF_vars(Callback(s))

\* The device is not broken for good: of the attempts to open it, one succeeds.
DeviceRecovers == \A s \in Sides : SF_vars(StartDone /\ side = s)

LiveSpec == Spec /\ Fairness
-----------------------------------------------------------------------------
\* Every variable keeps its type.
TypeOK ==
  /\ device \in BOOLEAN
  /\ clients \in [Sides -> SUBSET Clients]
  /\ on \in [Sides -> BOOLEAN] /\ exc \in [Sides -> BOOLEAN]
  /\ op \in {"none", "attach", "retry", "stop"} /\ side \in Sides
  /\ thread \in [Sides -> {"off", "idle", "waiting", "calling"}]
  /\ left \in [Sides -> SUBSET Clients]

\* Between two operations a side without clients is closed and not retried, and one with
\* clients is open or being retried, never both and never neither.
OpenIffWanted ==
  op = "none" =>
    \A s \in Sides : IF clients[s] = {} THEN ~on[s] /\ ~exc[s] ELSE on[s] # exc[s]

\* The callback visits no client that has been detached, and may since be deleted.
CallsOnlyAttached == \A s \in Sides : thread[s] = "calling" => left[s] \subseteq clients[s]

\* Once audio_device_ptr_ is NULL the loop's retry, which does not check it, stays away,
\* and no device thread runs.
NoUseAfterDeInit ==
  ~device => /\ op = "none"
             /\ \A s \in Sides : ~exc[s] /\ thread[s] = "off"

\* Detaching returns although it joins a thread that needs the side's lock to finish.
DetachReturns == op = "stop" ~> op = "none"

\* A side that failed to open is opened by some retry while a client waits for it, if the
\* device recovers.
OpensAtLast == DeviceRecovers => \A s \in Sides : clients[s] # {} ~> on[s] \/ clients[s] = {}
=============================================================================
