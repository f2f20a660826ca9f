----------------------------- MODULE AudioRoute -----------------------------
(***************************************************************************)
(* The audio route of the Android library: ArAudioManager, which chooses   *)
(* among loudspeaker, earpiece, wired and Bluetooth headset, and           *)
(* ArBluetoothManager, the state machine behind the last.  The two call    *)
(* each other, on the main thread alone, so a step is one handler: a       *)
(* broadcast, a callback of the headset service, a timeout, or a call of   *)
(* ArDeviceManagerImpl.  What goes on outside of the handlers is the       *)
(* world: headsets come and go, the SCO channel that carries the audio     *)
(* comes up or is lost, and broadcasts tell of it later.                   *)
(*                                                                         *)
(* The user's own choice, userSelectedAudioDevice, stays NONE, and the     *)
(* proximity sensor is never started: selectAudioDevice and                *)
(* ArProximitySensor.start have no caller.  An assertion that fails in a   *)
(* handler throws an error nothing in the library catches, which ends the  *)
(* process and with it the model.                                          *)
(***************************************************************************)
EXTENDS Naturals, Sequences

CONSTANT MaxMail     \* bound on the broadcasts that wait

ASSUME AudioRouteAssumption == MaxMail \in Nat \ {0}

MaxAttempts == 2     \* MAX_SCO_CONNECTION_ATTEMPTS

VARIABLES     \* ArAudioManager
  running,    \* amState is RUNNING
  wired,      \* hasWiredHeadset
  devices,    \* audioDevices
  selected,   \* selectedAudioDevice
  default,    \* defaultAudioDevice
  saved,      \* savedIsSpeakerPhoneOn, savedIsMicrophoneMute, savedAudioMode
  voice,      \* WebRtcAudioTrack.isVoiceMode, which is static
  thrown      \* the assertion of setAudioDeviceInternal has failed

amVars == <<running, wired, devices, selected, default, saved, voice, thrown>>

VARIABLES     \* ArBluetoothManager
  bt,         \* bluetoothState
  proxy,      \* bluetoothHeadset is not null
  attempts,   \* scoConnectionAttempts
  timer       \* bluetoothTimeoutRunnable is posted

btVars == <<bt, proxy, attempts, timer>>

VARIABLES     \* the phone
  earpiece,   \* hasEarpiece: it is a telephone
  usable,     \* ArBluetoothManager.start succeeds: permission, adapter and SCO exist
  system,     \* its loudspeaker, microphone mute and audio mode
  focus,      \* the library has the audio focus
  sco,        \* startBluetoothSco was called, and stopBluetoothSco not since
  linked,     \* a Bluetooth headset is connected
  audio,      \* its SCO channel is up
  plugged,    \* a wired headset is plugged in
  mail        \* the broadcasts on their way to the main thread

world == <<earpiece, usable, linked, audio, plugged>>
phone == <<system, focus, sco>>

VARIABLE before  \* history: the phone's settings when the library was started

vars == <<amVars, btVars, phone, world, mail, before>>

Defaults == {"SPEAKER_PHONE", "EARPIECE"}
Devices == {"SPEAKER_PHONE", "WIRED_HEADSET", "EARPIECE", "BLUETOOTH"}
Settings == [speaker : BOOLEAN, mute : BOOLEAN, mode : {"normal", "communication"}]

\* The constructor takes the default from the application's speakerphone_preference, and
\* does not ask whether there is an earpiece.
Init ==
  /\ running = FALSE /\ wired = FALSE /\ devices = {} /\ selected = "NONE"
  /\ default \in Defaults /\ thrown = FALSE
  /\ bt = "UNINITIALIZED" /\ proxy = FALSE /\ attempts = 0 /\ timer = FALSE
  /\ system \in [speaker : BOOLEAN, mute : {FALSE}, mode : {"normal"}]
  /\ saved = system /\ before = system /\ voice = FALSE /\ focus = FALSE /\ sco = FALSE
  /\ earpiece \in BOOLEAN /\ usable \in BOOLEAN /\ linked \in BOOLEAN /\ plugged \in BOOLEAN
  /\ audio = FALSE
  /\ mail = <<>>

-----------------------------------------------------------------------------
(***************************************************************************)
(* updateAudioDeviceState, at the end of every handler.  The handler       *)
(* passes what it has changed before: the Bluetooth state b, the proxy p,  *)
(* the attempts a, the timer t and the request r, the plug w and the       *)
(* default d.                                                              *)
(***************************************************************************)

\* ArBluetoothManager.updateDevice, which asks the headset service.
Updated(b, p) ==
  IF b = "UNINITIALIZED" \/ ~p THEN b
  ELSE IF linked THEN "HEADSET_AVAILABLE" ELSE "HEADSET_UNAVAILABLE"

Refreshed(b, p) ==
  IF b \in {"HEADSET_AVAILABLE", "HEADSET_UNAVAILABLE", "SCO_DISCONNECTING"} THEN Updated(b, p)
  ELSE b

Available(b, w) ==
  (IF b \in {"SCO_CONNECTED", "SCO_CONNECTING", "HEADSET_AVAILABLE"} THEN {"BLUETOOTH"} ELSE {})
  \cup (IF w THEN {"WIRED_HEADSET"}
        ELSE {"SPEAKER_PHONE"} \cup (IF earpiece THEN {"EARPIECE"} ELSE {}))

\* Variant to be rejected: a headset that is there is enough.
ChosenEarly(b, w, d) ==
  IF b \in {"SCO_CONNECTED", "HEADSET_AVAILABLE"} THEN "BLUETOOTH"
  ELSE IF w THEN "WIRED_HEADSET" ELSE d

\* The new selection, in the order of preference.
Chosen(b, w, d) == IF b = "SCO_CONNECTED" THEN "BLUETOOTH" ELSE IF w THEN "WIRED_HEADSET" ELSE d

\* Variant to be rejected: one attempt too many.
AttemptsLeftLate(a) == a <= MaxAttempts

AttemptsLeft(a) == a < MaxAttempts

Mode(v) == IF v THEN "communication" ELSE "normal"

\* startScoAudio is called if a headset is available, and gives up after MaxAttempts;
\* then Bluetooth is removed from the devices.  Only if the selection or the devices have
\* changed is there a switch, setAudioDeviceInternal, which asserts that the device is there.
UpdateAudioDeviceState(b, p, a, t, r, w, d) ==
  LET now     == Refreshed(b, p)
      needed  == now = "HEADSET_AVAILABLE"
      starts  == needed /\ AttemptsLeft(a)
      choice  == Chosen(IF starts THEN "SCO_CONNECTING" ELSE now, w, d)
      changed == choice # selected \/ Available(now, w) # devices \/ (needed /\ ~starts)
      fails   == changed /\ choice \notin devices'
  IN
  /\ bt' = (IF starts THEN "SCO_CONNECTING" ELSE now)
  /\ proxy' = p /\ wired' = w /\ default' = d
  /\ attempts' = IF starts THEN a + 1 ELSE a
  /\ timer' = (t \/ starts) /\ sco' = (r \/ starts)
  /\ devices' = IF needed /\ ~starts THEN Available(now, w) \ {"BLUETOOTH"} ELSE Available(now, w)
  /\ thrown' = fails
  /\ selected' = IF fails THEN selected ELSE choice
  /\ system' = IF changed /\ ~fails THEN [system EXCEPT !.speaker = (choice = "SPEAKER_PHONE")]
                                    ELSE system

\* stopScoAudio, when b is the state: its outcome for the state, the timer and the request.
InSco(b) == b \in {"SCO_CONNECTING", "SCO_CONNECTED"}
Stopped(b) == IF InSco(b) THEN "SCO_DISCONNECTING" ELSE b

-----------------------------------------------------------------------------
(***************************************************************************)
(* The calls of ArDeviceManagerImpl.                                       *)
(***************************************************************************)
Active == running /\ ~thrown

\* The constructor: a new ArAudioManager is created, with the default d of the preference,
\* and started.  Registering for the sticky broadcast of the wired headset, the last thing
\* start does, delivers its state.
Start(d) ==
  /\ ~running /\ bt = "UNINITIALIZED"
  /\ running' = TRUE /\ saved' = system /\ before' = system /\ focus' = TRUE
  /\ LET b      == IF usable THEN "HEADSET_UNAVAILABLE" ELSE "UNINITIALIZED"
         choice == Chosen(b, plugged, d)
         fails  == choice \notin Available(b, plugged)
     IN
     /\ bt' = b /\ proxy' = FALSE /\ attempts' = 0 /\ timer' = FALSE
     /\ wired' = plugged /\ default' = d /\ devices' = Available(b, plugged)
     /\ thrown' = fails /\ selected' = IF fails THEN "NONE" ELSE choice
     /\ system' = [speaker |-> IF fails THEN system.speaker ELSE choice = "SPEAKER_PHONE",
                   mute |-> FALSE, mode |-> Mode(voice)]
     /\ mail' = IF fails THEN <<>> ELSE <<IF plugged THEN "plugged" ELSE "unplugged">>
  /\ UNCHANGED <<voice, sco, world>>

\* Variant to be rejected: the headset's channel is not given back.
StopKeepsSco ==
  /\ Active /\ usable
  /\ running' = FALSE /\ bt' = "UNINITIALIZED" /\ proxy' = FALSE /\ timer' = FALSE
  /\ system' = saved /\ focus' = FALSE /\ mail' = <<>>
  /\ UNCHANGED <<wired, devices, selected, default, saved, voice, thrown, attempts, sco, world,
                 before>>

\* release: the receivers are unregistered, Bluetooth stopped and the settings restored.
Stop ==
  /\ Active /\ usable
  /\ running' = FALSE /\ bt' = "UNINITIALIZED" /\ proxy' = FALSE /\ timer' = FALSE
  /\ sco' = (sco /\ ~InSco(bt)) /\ system' = saved /\ focus' = FALSE /\ mail' = <<>>
  /\ UNCHANGED <<wired, devices, selected, default, saved, voice, thrown, attempts, world,
                 before>>

\* Without Bluetooth its receiver was never registered; unregistering it throws, and
\* nothing is restored.
StopThrows ==
  /\ Active /\ ~usable
  /\ running' = FALSE /\ mail' = <<>>
  /\ UNCHANGED <<wired, devices, selected, default, saved, voice, thrown, btVars, phone, world,
                 before>>

\* setAudioRoute: setDefaultAudioDevice, with a fallback for devices without an earpiece.
SetAudioRoute(route) ==
  /\ Active
  /\ UpdateAudioDeviceState(bt, proxy, attempts, timer, sco, wired,
       IF route = "EARPIECE" /\ ~earpiece THEN "SPEAKER_PHONE" ELSE route)
  /\ UNCHANGED <<running, saved, voice, focus, world, mail, before>>

\* setSystemVolumeType: setStreamMode.
SetSystemVolumeType(voip) ==
  /\ Active
  /\ voice' = voip /\ system' = [system EXCEPT !.mode = Mode(voip)]
  /\ UNCHANGED <<running, wired, devices, selected, default, saved, thrown, btVars, focus, sco,
                 world, mail, before>>

-----------------------------------------------------------------------------
(***************************************************************************)
(* The headset service, the broadcasts and the timer.                      *)
(***************************************************************************)

\* What no handler of Bluetooth does before the state is left as it was found.
Rest == UNCHANGED <<running, saved, voice, focus, world, before>>

OnServiceConnected ==
  /\ Active /\ usable /\ ~proxy
  /\ UpdateAudioDeviceState(bt, TRUE, attempts, timer, sco, wired, default)
  /\ Rest /\ UNCHANGED mail

OnServiceDisconnected ==
  /\ Active /\ proxy
  /\ UpdateAudioDeviceState("HEADSET_UNAVAILABLE", FALSE, attempts,
       timer /\ ~InSco(bt), sco /\ ~InSco(bt), wired, default)
  /\ Rest /\ UNCHANGED mail

Receive(message) == ~thrown /\ mail # <<>> /\ Head(mail) = message /\ mail' = Tail(mail)

\* WiredHeadsetReceiver.onReceive
OnPlug(message) ==
  /\ Receive(message)
  /\ UpdateAudioDeviceState(bt, proxy, attempts, timer, sco, message = "plugged", default)
  /\ Rest

\* BluetoothHeadsetBroadcastReceiver.onReceive: a headset was connected ...
OnLinked ==
  /\ Receive("linked")
  /\ UpdateAudioDeviceState(bt, proxy, 0, timer, sco, wired, default)
  /\ Rest

\* Variant to be rejected: the state machine is left in SCO.
OnUnlinkedIgnored ==
  /\ Receive("unlinked")
  /\ UpdateAudioDeviceState(bt, proxy, attempts, timer, sco, wired, default)
  /\ Rest

\* ... or disconnected ...
OnUnlinked ==
  /\ Receive("unlinked")
  /\ UpdateAudioDeviceState(Stopped(bt), proxy, attempts, timer /\ ~InSco(bt), sco /\ ~InSco(bt),
       wired, default)
  /\ Rest

\* What a handler leaves alone that finds nothing to do but with the timer.
Unaffected == <<wired, devices, selected, default, thrown, bt, proxy, attempts, system, sco>>

\* Variant to be rejected: the timer of the attempt goes on.
OnAudioConnectedKeepsTimer ==
  /\ Receive("audioOn")
  /\ IF bt = "SCO_CONNECTING"
     THEN UpdateAudioDeviceState("SCO_CONNECTED", proxy, 0, timer, sco, wired, default)
     ELSE UNCHANGED <<wired, devices, selected, default, thrown, btVars, system, sco>>
  /\ Rest

\* ... the channel came up, which counts only if that was asked for ...
OnAudioConnected ==
  /\ Receive("audioOn")
  /\ IF bt = "SCO_CONNECTING"
     THEN UpdateAudioDeviceState("SCO_CONNECTED", proxy, 0, FALSE, sco, wired, default)
     ELSE timer' = FALSE /\ UNCHANGED Unaffected
  /\ Rest

\* ... or went down.
OnAudioDisconnected ==
  /\ Receive("audioOff")
  /\ UpdateAudioDeviceState(bt, proxy, attempts, timer, sco, wired, default)
  /\ Rest

\* Variant to be rejected: the timeout gives up without going on.
BluetoothTimeoutSilent ==
  /\ timer /\ ~thrown
  /\ timer' = FALSE
  /\ UNCHANGED <<amVars, bt, proxy, attempts, phone, world, mail, before>>

\* bluetoothTimeout: the channel is up although nothing told of it, or the attempt is
\* given up, and perhaps another begun.
BluetoothTimeout ==
  /\ timer /\ ~thrown
  /\ IF ~proxy \/ bt # "SCO_CONNECTING"
     THEN timer' = FALSE /\ UNCHANGED Unaffected
     ELSE IF linked /\ audio
     THEN UpdateAudioDeviceState("SCO_CONNECTED", proxy, 0, FALSE, sco, wired, default)
     ELSE UpdateAudioDeviceState("SCO_DISCONNECTING", proxy, attempts, FALSE, FALSE, wired,
            default)
  /\ Rest /\ UNCHANGED mail

-----------------------------------------------------------------------------
(***************************************************************************)
(* The world.  Broadcasts reach the library while it is started.           *)
(***************************************************************************)

Tell(messages) ==
  IF running /\ usable THEN Len(mail) + Len(messages) <= MaxMail /\ mail' = mail \o messages
                       ELSE UNCHANGED mail

Outside == ~thrown /\ UNCHANGED <<amVars, btVars, phone, earpiece, usable, before>>

HeadsetLinks ==
  /\ ~linked /\ linked' = TRUE
  /\ Tell(<<"linked">>)
  /\ Outside /\ UNCHANGED <<audio, plugged>>

HeadsetUnlinks ==
  /\ linked /\ linked' = FALSE /\ audio' = FALSE
  /\ Tell(IF audio THEN <<"audioOff", "unlinked">> ELSE <<"unlinked">>)
  /\ Outside /\ UNCHANGED plugged

ChannelUp ==
  /\ linked /\ sco /\ ~audio /\ audio' = TRUE
  /\ Tell(<<"audioOn">>)
  /\ Outside /\ UNCHANGED <<linked, plugged>>

\* Given back, or lost, to a telephone call for instance.
ChannelDown ==
  /\ audio /\ audio' = FALSE
  /\ Tell(<<"audioOff">>)
  /\ Outside /\ UNCHANGED <<linked, plugged>>

Plug ==
  /\ plugged' = ~plugged
  /\ IF running THEN /\ Len(mail) < MaxMail
                     /\ mail' = Append(mail, IF plugged THEN "unplugged" ELSE "plugged")
                ELSE UNCHANGED mail
  /\ Outside /\ UNCHANGED <<linked, audio>>

Calls ==
  \/ \E d \in Defaults : Start(d)
  \/ Stop \/ StopThrows
  \/ \E route \in {"EARPIECE", "SPEAKER_PHONE"} : SetAudioRoute(route)
  \/ \E voip \in BOOLEAN : SetSystemVolumeType(voip)

Handlers ==
  \/ OnPlug("plugged") \/ OnPlug("unplugged")
  \/ OnLinked \/ OnUnlinked \/ OnAudioConnected \/ OnAudioDisconnected

World == HeadsetLinks \/ HeadsetUnlinks \/ ChannelUp \/ ChannelDown \/ Plug

\* The error has ended the process.
Over == thrown /\ UNCHANGED vars

Next ==
  \/ Calls \/ OnServiceConnected \/ OnServiceDisconnected \/ Handlers \/ BluetoothTimeout
  \/ World \/ Over

Spec == Init /\ [][Next]_vars

\* The timer that is posted to the main thread runs.  Nothing obliges the world.
Fairness == WF_vars(BluetoothTimeout)

LiveSpec == Spec /\ Fairness
-----------------------------------------------------------------------------
States == {"UNINITIALIZED", "HEADSET_UNAVAILABLE", "HEADSET_AVAILABLE", "SCO_DISCONNECTING",
           "SCO_CONNECTING", "SCO_CONNECTED"}

\* Every variable keeps its type; the state ERROR does not occur.
TypeOK ==
  /\ running \in BOOLEAN /\ wired \in BOOLEAN /\ devices \subseteq Devices
  /\ selected \in Devices \cup {"NONE"} /\ default \in Defaults
  /\ saved \in Settings /\ system \in Settings /\ before \in Settings
  /\ voice \in BOOLEAN /\ thrown \in BOOLEAN
  /\ bt \in States /\ proxy \in BOOLEAN /\ attempts \in 0..MaxAttempts /\ timer \in BOOLEAN
  /\ earpiece \in BOOLEAN /\ usable \in BOOLEAN /\ focus \in BOOLEAN /\ sco \in BOOLEAN
  /\ linked \in BOOLEAN /\ audio \in BOOLEAN /\ plugged \in BOOLEAN
  /\ mail \in Seq({"linked", "unlinked", "audioOn", "audioOff", "plugged", "unplugged"})

\* The channel is requested exactly while the state machine is in one of the two SCO states,
\* and a timer runs exactly while an attempt is under way, so an attempt never hangs for
\* want of one nor is a later one ended by the timer of an earlier.
ScoMatchesState == (sco <=> InSco(bt)) /\ (timer <=> bt = "SCO_CONNECTING")

\* The assertion in setAudioDeviceInternal fails in one case alone: the preference made the
\* earpiece the default of a device without one, no wired headset hides it and setAudioRoute,
\* which would have corrected it, was not called.  Otherwise what is selected is available,
\* and the loudspeaker is on exactly when it is selected.
RouteIsReal ==
  /\ thrown => default = "EARPIECE" /\ ~earpiece /\ ~wired
  /\ Active => selected \in devices /\ (system.speaker <=> selected = "SPEAKER_PHONE")

\* Once every broadcast has been handled the library agrees with the phone about headsets,
\* in whatever order the service's callbacks, broadcasts and timeouts came; and with a
\* headset there it is in SCO, on the way to it, or out of attempts.
AgreesWhenSettled ==
  running /\ mail = <<>> =>
    /\ wired = plugged
    /\ proxy => /\ bt = "HEADSET_UNAVAILABLE" <=> ~linked
                /\ linked => InSco(bt) \/ attempts = MaxAttempts

\* A stopped library holds no channel and no timer, and if it could use Bluetooth has given
\* back the settings and the focus; if it could not, StopThrows leaves them.
StoppedRestores == ~running => ~sco /\ ~timer /\ (usable => system = before /\ ~focus)

\* Attempts to bring the channel up come to an end, however often the service, the
\* application and the plug call in between, until a headset is newly connected.
AttemptEnds ==
  bt = "SCO_CONNECTING" ~>
    bt # "SCO_CONNECTING" \/ (mail # <<>> /\ Head(mail) = "linked") \/ thrown
=============================================================================
