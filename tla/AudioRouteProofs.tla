-------------------------- MODULE AudioRouteProofs --------------------------
(***************************************************************************)
(* The safety invariants of AudioRoute, for every bound on the broadcasts  *)
(* that wait; and that an attempt to bring the SCO       *)
(* channel up ends.                                                        *)
(*                                                                         *)
(* Which headsets there are is known to the library only when the          *)
(* broadcasts have been handled, so AgreesWhenSettled says nothing of the  *)
(* states in between and is not inductive.  Its strengthening, Headset and *)
(* Plugs, says that whatever the library does not know yet is in a         *)
(* broadcast on its way.                                                   *)
(***************************************************************************)
EXTENDS AudioRoute, SequenceTheorems, TLAPS

Messages == {"linked", "unlinked", "audioOn", "audioOff", "plugged", "unplugged"}
PlugMessages == {"plugged", "unplugged"}

In(m, s) == \E i \in 1..Len(s) : s[i] = m

\* Between handlers: a request matches its state, nothing is being disconnected, and a
\* library that is stopped or cannot use Bluetooth has no part of it.
Idle ==
  /\ ScoMatchesState
  /\ bt # "SCO_DISCONNECTING"
  /\ bt = "HEADSET_AVAILABLE" => attempts = MaxAttempts
  /\ ~running \/ ~usable => bt = "UNINITIALIZED"
  /\ running /\ usable => bt # "UNINITIALIZED"
  /\ bt = "UNINITIALIZED" => ~proxy
  /\ ~proxy => bt \in {"UNINITIALIZED", "HEADSET_UNAVAILABLE"}
  /\ ~running => mail = <<>>

Route ==
  /\ RouteIsReal
  /\ thrown => running
  /\ saved = before

Headset ==
  proxy =>
    /\ ~linked => bt = "HEADSET_UNAVAILABLE" \/ In("unlinked", mail)
    /\ linked => InSco(bt) \/ bt = "HEADSET_AVAILABLE" \/ In("linked", mail)

\* The last of the plug's broadcasts tells how the plug is.
LastTold(s) ==
  \A i \in 1..Len(s) :
    s[i] \in PlugMessages /\ (\A j \in 1..Len(s) : j > i => s[j] \notin PlugMessages)
      => (s[i] = "plugged" <=> plugged)

Plugs ==
  running => /\ (\A i \in 1..Len(mail) : mail[i] \notin PlugMessages) => wired = plugged
             /\ LastTold(mail)

IInv == TypeOK /\ Idle /\ Route /\ StoppedRestores /\ Headset /\ Plugs

-----------------------------------------------------------------------------
(***************************************************************************)
(* Sequences of broadcasts.                                                *)
(***************************************************************************)

LEMMA TailIn ==
  ASSUME NEW s \in Seq(Messages), s # <<>>
  PROVE  /\ Tail(s) \in Seq(Messages) /\ Len(Tail(s)) = Len(s) - 1
         /\ \A i \in 1..Len(Tail(s)) : Tail(s)[i] = s[i + 1]
         /\ Head(s) = s[1] /\ Len(s) \in Nat /\ Len(s) > 0
BY HeadTailProperties, LenProperties, EmptySeq

LEMMA TailKeeps ==
  ASSUME NEW s \in Seq(Messages), s # <<>>, NEW m, In(m, s), Head(s) # m
  PROVE  In(m, Tail(s))
<1>1. PICK i \in 1..Len(s) : s[i] = m
  BY DEF In
<1>2. i # 1
  BY <1>1, TailIn
<1>3. i - 1 \in 1..Len(Tail(s)) /\ Tail(s)[i - 1] = m
  BY <1>1, <1>2, TailIn
<1> QED
  BY <1>3 DEF In

LEMMA ConcatKeeps ==
  ASSUME NEW s \in Seq(Messages), NEW t \in Seq(Messages), NEW m, In(m, s) \/ In(m, t)
  PROVE  In(m, s \o t)
<1> DEFINE c == s \o t
<1>1. /\ Len(c) = Len(s) + Len(t) /\ Len(s) \in Nat /\ Len(t) \in Nat
      /\ \A i \in 1..Len(s) : c[i] = s[i]
      /\ \A i \in 1..Len(t) : c[i + Len(s)] = t[i]
  BY ConcatProperties, LenProperties
<1>2. CASE In(m, s)
  <2>1. PICK i \in 1..Len(s) : s[i] = m
    BY <1>2 DEF In
  <2>2. i \in 1..Len(c) /\ c[i] = m
    BY <2>1, <1>1
  <2> QED
    BY <2>2 DEF In
<1>3. CASE In(m, t)
  <2>1. PICK i \in 1..Len(t) : t[i] = m
    BY <1>3 DEF In
  <2>2. i + Len(s) \in 1..Len(c) /\ c[i + Len(s)] = m
    BY <2>1, <1>1
  <2> QED
    BY <2>2 DEF In
<1> QED
  BY <1>2, <1>3

LEMMA TailLast ==
  ASSUME NEW s \in Seq(Messages), s # <<>>, LastTold(s)
  PROVE  /\ LastTold(Tail(s))
         /\ (\A i \in 1..Len(Tail(s)) : Tail(s)[i] \notin PlugMessages) /\ Head(s) \in PlugMessages
              => (Head(s) = "plugged" <=> plugged)
<1> DEFINE t == Tail(s)
<1>0. /\ Len(t) = Len(s) - 1 /\ Len(s) \in Nat /\ Len(s) > 0 /\ Head(s) = s[1]
      /\ \A i \in 1..Len(t) : t[i] = s[i + 1]
  BY TailIn
<1> HIDE DEF t
<1>1. ASSUME NEW i \in 1..Len(t), t[i] \in PlugMessages,
             \A j \in 1..Len(t) : j > i => t[j] \notin PlugMessages
      PROVE  t[i] = "plugged" <=> plugged
  <2>1. i + 1 \in 1..Len(s) /\ s[i + 1] = t[i]
    BY <1>0
  <2>2. ASSUME NEW j \in 1..Len(s), j > i + 1 PROVE s[j] \notin PlugMessages
    <3>1. j - 1 \in 1..Len(t) /\ j - 1 > i /\ (j - 1) + 1 = j
      BY <1>0, <2>2
    <3> QED
      BY <3>1, <1>0, <1>1
  <2> QED
    BY <2>1, <2>2, <1>1 DEF LastTold
<1>2. ASSUME \A i \in 1..Len(t) : t[i] \notin PlugMessages, Head(s) \in PlugMessages
      PROVE  Head(s) = "plugged" <=> plugged
  <2>1. ASSUME NEW j \in 1..Len(s), j > 1 PROVE s[j] \notin PlugMessages
    <3>1. j - 1 \in 1..Len(t) /\ (j - 1) + 1 = j
      BY <1>0, <2>1
    <3> QED
      BY <3>1, <1>0, <1>2
  <2>2. 1 \in 1..Len(s)
    BY <1>0
  <2> QED
    BY <2>1, <2>2, <1>2, <1>0 DEF LastTold
<1> QED
  BY <1>1, <1>2 DEF LastTold, t

\* Broadcasts that do not concern the plug leave what is known of it.
LEMMA ConcatLast ==
  ASSUME NEW s \in Seq(Messages), NEW t \in Seq(Messages), LastTold(s),
         \A i \in 1..Len(t) : t[i] \notin PlugMessages
  PROVE  /\ LastTold(s \o t)
         /\ (\A i \in 1..Len(s \o t) : (s \o t)[i] \notin PlugMessages)
              => \A i \in 1..Len(s) : s[i] \notin PlugMessages
<1> DEFINE c == s \o t
<1>1. /\ Len(c) = Len(s) + Len(t) /\ Len(s) \in Nat /\ Len(t) \in Nat
      /\ \A i \in 1..Len(s) : c[i] = s[i]
      /\ \A i \in 1..Len(t) : c[i + Len(s)] = t[i]
  BY ConcatProperties, LenProperties
<1> HIDE DEF c
<1>2. ASSUME NEW i \in 1..Len(c), c[i] \in PlugMessages,
             \A j \in 1..Len(c) : j > i => c[j] \notin PlugMessages
      PROVE  c[i] = "plugged" <=> plugged
  <2>1. i <= Len(s)
    <3> SUFFICES ASSUME i > Len(s) PROVE FALSE
      BY <1>1
    <3>1. i - Len(s) \in 1..Len(t) /\ (i - Len(s)) + Len(s) = i
      BY <1>1
    <3> QED
      BY <3>1, <1>1, <1>2
  <2>2. i \in 1..Len(s) /\ s[i] = c[i]
    BY <2>1, <1>1
  <2>3. ASSUME NEW j \in 1..Len(s), j > i PROVE s[j] \notin PlugMessages
    BY <2>3, <1>1, <1>2
  <2> QED
    BY <2>2, <2>3, <1>2 DEF LastTold
<1>3. \A i \in 1..Len(s) : i \in 1..Len(c) /\ c[i] = s[i]
  BY <1>1
<1> QED
  BY <1>2, <1>3 DEF LastTold, c

LEMMA AppendLast ==
  ASSUME NEW s \in Seq(Messages), NEW m \in PlugMessages
  PROVE  /\ Append(s, m) \in Seq(Messages) /\ Len(Append(s, m)) = Len(s) + 1
         /\ Append(s, m)[Len(s) + 1] = m /\ Len(s) \in Nat
         /\ \A i \in 1..Len(s) : Append(s, m)[i] = s[i]
BY AppendProperties, LenProperties DEF Messages, PlugMessages

-----------------------------------------------------------------------------
(***************************************************************************)
(* updateAudioDeviceState, called by a handler that passes what it has     *)
(* changed, leaves the state as IInv wants it.                             *)
(***************************************************************************)
LEMMA Update ==
  ASSUME TypeOK, Active, RouteIsReal,
         NEW b \in States, NEW p \in BOOLEAN, NEW a \in 0..MaxAttempts,
         NEW t \in BOOLEAN, NEW r \in BOOLEAN, NEW w \in BOOLEAN,
         NEW d \in Defaults,
         r <=> InSco(b), t <=> b = "SCO_CONNECTING",
         b = "SCO_DISCONNECTING" => p,
         b = "UNINITIALIZED" => ~p,
         ~p => b \in {"UNINITIALIZED", "HEADSET_UNAVAILABLE"},
         UpdateAudioDeviceState(b, p, a, t, r, w, d)
  PROVE  /\ wired' \in BOOLEAN /\ devices' \subseteq Devices
         /\ selected' \in Devices \cup {"NONE"} /\ default' \in Defaults /\ thrown' \in BOOLEAN
         /\ system' \in Settings
         /\ bt' \in States /\ proxy' \in BOOLEAN /\ attempts' \in 0..MaxAttempts
         /\ timer' \in BOOLEAN /\ sco' \in BOOLEAN
         /\ thrown' => default' = "EARPIECE" /\ ~earpiece /\ ~wired'
         /\ ~thrown' => selected' \in devices' /\ (system'.speaker <=> selected' = "SPEAKER_PHONE")
         /\ sco' <=> InSco(bt')
         /\ timer' <=> bt' = "SCO_CONNECTING"
         /\ bt' # "SCO_DISCONNECTING"
         /\ bt' = "HEADSET_AVAILABLE" => attempts' = MaxAttempts
         /\ bt' = "UNINITIALIZED" <=> b = "UNINITIALIZED"
         /\ ~p => bt' = b
         /\ wired' = w /\ proxy' = p
         /\ p /\ ~linked /\ ~InSco(b) => bt' = "HEADSET_UNAVAILABLE"
         /\ p /\ linked => InSco(bt') \/ bt' = "HEADSET_AVAILABLE"
<1> DEFINE now == Refreshed(b, p)
           needed == now = "HEADSET_AVAILABLE"
           starts == needed /\ AttemptsLeft(a)
           choice == Chosen(IF starts THEN "SCO_CONNECTING" ELSE now, w, d)
           changed == choice # selected \/ Available(now, w) # devices \/ (needed /\ ~starts)
           fails == changed /\ choice \notin devices'
<1>1. /\ bt' = (IF starts THEN "SCO_CONNECTING" ELSE now)
      /\ proxy' = p /\ wired' = w /\ default' = d
      /\ attempts' = IF starts THEN a + 1 ELSE a
      /\ timer' = (t \/ starts) /\ sco' = (r \/ starts)
      /\ devices' = IF needed /\ ~starts THEN Available(now, w) \ {"BLUETOOTH"} ELSE Available(now, w)
      /\ thrown' = fails
      /\ selected' = IF fails THEN selected ELSE choice
      /\ system' = IF changed /\ ~fails THEN [system EXCEPT !.speaker = (choice = "SPEAKER_PHONE")]
                                         ELSE system
  BY DEF UpdateAudioDeviceState
<1>2. /\ now \in States \ {"SCO_DISCONNECTING"}
      /\ InSco(b) => now = b
      /\ ~InSco(b) => ~InSco(now)
      /\ now = "UNINITIALIZED" <=> b = "UNINITIALIZED"
      /\ ~p => now = b
      /\ p /\ ~linked /\ ~InSco(b) => now = "HEADSET_UNAVAILABLE"
      /\ p /\ linked => InSco(now) \/ now = "HEADSET_AVAILABLE"
  BY DEF Refreshed, Updated, States, InSco, TypeOK
<1>3. starts => a + 1 \in 0..MaxAttempts
  BY DEF AttemptsLeft, MaxAttempts
<1>4. needed /\ ~starts => a = MaxAttempts
  BY DEF AttemptsLeft, MaxAttempts
<1>5. /\ Available(now, w) \subseteq Devices
      /\ choice \in Devices
      /\ choice \in devices' \/ (d = "EARPIECE" /\ ~earpiece /\ ~w)
  BY <1>1, <1>2 DEF Available, Devices, Defaults, Chosen, States
<1>6. system' \in Settings /\ (~fails => (system'.speaker <=> choice = "SPEAKER_PHONE"))
  BY <1>1 DEF TypeOK, Settings, RouteIsReal, Active
<1>8. fails \in BOOLEAN /\ (fails => choice \notin devices') /\ selected \in Devices \cup {"NONE"}
  BY DEF TypeOK
<1>9. ~fails => choice \in devices'
  <2> SUFFICES ASSUME ~changed PROVE choice \in devices'
    OBVIOUS
  <2> QED
    BY <1>1 DEF RouteIsReal, Active
<1> HIDE DEF now, choice, changed, fails
<1>7. /\ sco' <=> InSco(bt')
      /\ timer' <=> bt' = "SCO_CONNECTING"
  BY <1>1, <1>2 DEF InSco
<1> QED
  BY <1>1, <1>2, <1>3, <1>4, <1>5, <1>6, <1>7, <1>8, <1>9 DEF States, InSco

LEMMA Handled ==
  ASSUME IInv, Active,
         NEW b \in States, NEW p \in BOOLEAN, NEW a \in 0..MaxAttempts,
         NEW t \in BOOLEAN, NEW r \in BOOLEAN, NEW w \in BOOLEAN,
         NEW d \in Defaults,
         r <=> InSco(b), t <=> b = "SCO_CONNECTING",
         b = "SCO_DISCONNECTING" => p,
         b = "UNINITIALIZED" <=> ~usable, ~usable => ~p,
         ~p => b \in {"UNINITIALIZED", "HEADSET_UNAVAILABLE"},
         UpdateAudioDeviceState(b, p, a, t, r, w, d), Rest, mail' \in Seq(Messages),
         p /\ ~linked /\ InSco(b) => In("unlinked", mail'),
         (\A i \in 1..Len(mail') : mail'[i] \notin PlugMessages) => w = plugged,
         LastTold(mail')
  PROVE  IInv'
<1>1. TypeOK /\ RouteIsReal /\ usable \in BOOLEAN /\ running
  BY DEF IInv, Route, TypeOK, Active
<1>2. /\ wired' \in BOOLEAN /\ devices' \subseteq Devices
      /\ selected' \in Devices \cup {"NONE"} /\ default' \in Defaults /\ thrown' \in BOOLEAN
      /\ system' \in Settings
      /\ bt' \in States /\ proxy' \in BOOLEAN /\ attempts' \in 0..MaxAttempts
      /\ timer' \in BOOLEAN /\ sco' \in BOOLEAN
      /\ thrown' => default' = "EARPIECE" /\ ~earpiece /\ ~wired'
      /\ ~thrown' => selected' \in devices' /\ (system'.speaker <=> selected' = "SPEAKER_PHONE")
      /\ sco' <=> InSco(bt')
      /\ timer' <=> bt' = "SCO_CONNECTING"
      /\ bt' # "SCO_DISCONNECTING"
      /\ bt' = "HEADSET_AVAILABLE" => attempts' = MaxAttempts
      /\ bt' = "UNINITIALIZED" <=> b = "UNINITIALIZED"
      /\ ~p => bt' = b
      /\ wired' = w /\ proxy' = p
      /\ p /\ ~linked /\ ~InSco(b) => bt' = "HEADSET_UNAVAILABLE"
      /\ p /\ linked => InSco(bt') \/ bt' = "HEADSET_AVAILABLE"
  BY <1>1, Update
<1>3. /\ running' = running /\ saved' = saved /\ voice' = voice /\ focus' = focus
      /\ usable' = usable /\ linked' = linked /\ audio' = audio /\ plugged' = plugged
      /\ before' = before /\ earpiece' = earpiece
  BY DEF Rest, world
<1>4. TypeOK'
  BY <1>1, <1>2, <1>3 DEF TypeOK, Messages
<1>5. Idle'
  BY <1>1, <1>2, <1>3 DEF Idle, ScoMatchesState
<1>6. Route'
  BY <1>1, <1>2, <1>3 DEF IInv, Route, RouteIsReal, Active
<1>7. StoppedRestores'
  BY <1>1, <1>3 DEF StoppedRestores
<1>8. Headset'
  BY <1>2, <1>3 DEF Headset
<1>9. Plugs'
  BY <1>2, <1>3 DEF Plugs, LastTold
<1> QED
  BY <1>4, <1>5, <1>6, <1>7, <1>8, <1>9 DEF IInv

\* What the handlers that pass on the state as they found it need.
LEMMA AsFound ==
  ASSUME IInv, Active
  PROVE  /\ bt \in States /\ proxy \in BOOLEAN /\ attempts \in 0..MaxAttempts /\ 0 \in 0..MaxAttempts
         /\ timer \in BOOLEAN /\ sco \in BOOLEAN /\ wired \in BOOLEAN
         /\ default \in Defaults
         /\ sco <=> InSco(bt)
         /\ timer <=> bt = "SCO_CONNECTING"
         /\ bt # "SCO_DISCONNECTING"
         /\ bt = "UNINITIALIZED" <=> ~usable
         /\ ~usable => ~proxy
         /\ ~proxy => bt \in {"UNINITIALIZED", "HEADSET_UNAVAILABLE"}
         /\ mail \in Seq(Messages)
         /\ proxy /\ ~linked /\ InSco(bt) => In("unlinked", mail)
         /\ (\A i \in 1..Len(mail) : mail[i] \notin PlugMessages) => wired = plugged
         /\ LastTold(mail) /\ usable \in BOOLEAN /\ MaxAttempts \in Nat
<1>1. TypeOK /\ Idle /\ Route /\ Headset /\ Plugs /\ running
  BY DEF IInv, Active
<1>2. mail \in Seq(Messages)
  BY <1>1 DEF TypeOK, Messages
<1>3. MaxAttempts \in Nat /\ 0 \in 0..MaxAttempts
  BY DEF MaxAttempts
<1>4. /\ bt \in States /\ proxy \in BOOLEAN /\ attempts \in 0..MaxAttempts
      /\ timer \in BOOLEAN /\ sco \in BOOLEAN /\ wired \in BOOLEAN
      /\ default \in Defaults /\ usable \in BOOLEAN
  BY <1>1 DEF TypeOK
<1>5. /\ sco <=> InSco(bt)
      /\ timer <=> bt = "SCO_CONNECTING"
      /\ bt # "SCO_DISCONNECTING"
      /\ bt = "UNINITIALIZED" <=> ~usable
      /\ ~usable => ~proxy
      /\ ~proxy => bt \in {"UNINITIALIZED", "HEADSET_UNAVAILABLE"}
  BY <1>1 DEF Idle, Route, ScoMatchesState
<1>6. proxy /\ ~linked /\ InSco(bt) => In("unlinked", mail)
  BY <1>1 DEF Headset, InSco
<1>7. /\ (\A i \in 1..Len(mail) : mail[i] \notin PlugMessages) => wired = plugged
      /\ LastTold(mail)
  BY <1>1 DEF Plugs
<1> QED
  BY <1>2, <1>3, <1>4, <1>5, <1>6, <1>7

\* A broadcast that does not concern the plug is received.
LEMMA Received ==
  ASSUME IInv, Active, NEW m \in Messages \ PlugMessages, Receive(m)
  PROVE  /\ mail' \in Seq(Messages) /\ LastTold(mail')
         /\ (\A i \in 1..Len(mail') : mail'[i] \notin PlugMessages) => wired = plugged
         /\ m # "unlinked" /\ In("unlinked", mail) => In("unlinked", mail')
         /\ m # "linked" /\ In("linked", mail) => In("linked", mail')
<1>1. mail \in Seq(Messages) /\ mail # <<>> /\ mail' = Tail(mail) /\ Head(mail) = m
  BY AsFound DEF Receive
<1>2. mail' \in Seq(Messages) /\ LastTold(mail')
  BY <1>1, AsFound, TailIn, TailLast
<1>3. ASSUME \A i \in 1..Len(mail') : mail'[i] \notin PlugMessages PROVE wired = plugged
  <2>1. ASSUME NEW i \in 1..Len(mail) PROVE mail[i] \notin PlugMessages
    <3>1. CASE i = 1
      BY <3>1, <1>1, TailIn
    <3>2. CASE i > 1
      <4>1. i - 1 \in 1..Len(mail') /\ mail'[i - 1] = mail[(i - 1) + 1] /\ (i - 1) + 1 = i
        BY <3>2, <1>1, TailIn
      <4> QED
        BY <4>1, <1>3
    <3> QED
      BY <3>1, <3>2, <1>1, TailIn
  <2> QED
    BY <2>1, AsFound
<1> QED
  BY <1>1, <1>2, <1>3, TailKeeps

-----------------------------------------------------------------------------
LEMMA InitIInv == Init => IInv
<1> SUFFICES ASSUME Init PROVE IInv
  OBVIOUS
<1>1. mail = <<>> /\ mail \in Seq(Messages) /\ Len(mail) = 0
  BY DEF Init
<1>2. TypeOK
  <2>1. /\ system \in Settings /\ saved = system /\ before = system
        /\ default \in Defaults /\ thrown \in BOOLEAN
    BY DEF Init, Settings
  <2> QED
    <3>1. mail \in Seq({"linked", "unlinked", "audioOn", "audioOff", "plugged", "unplugged"})
      BY <1>1 DEF Messages
    <3>2. attempts \in 0..MaxAttempts
      BY DEF Init, MaxAttempts
    <3> QED
      BY <2>1, <3>1, <3>2 DEF Init, TypeOK, States
<1>3. Idle /\ Route /\ StoppedRestores /\ Headset /\ Plugs
  BY DEF Init, Idle, Route, StoppedRestores, Headset, Plugs, ScoMatchesState, RouteIsReal, InSco,
     Active
<1> QED
  BY <1>2, <1>3 DEF IInv

LEMMA StartStep == ASSUME IInv, NEW d \in Defaults, Start(d) PROVE IInv'
<1> DEFINE b == IF usable THEN "HEADSET_UNAVAILABLE" ELSE "UNINITIALIZED"
           choice == Chosen(b, plugged, d)
           fails == choice \notin Available(b, plugged)
           m == IF plugged THEN "plugged" ELSE "unplugged"
<1>1. /\ ~running /\ bt = "UNINITIALIZED"
      /\ running' = TRUE /\ saved' = system /\ before' = system /\ focus' = TRUE
      /\ bt' = b /\ proxy' = FALSE /\ attempts' = 0 /\ timer' = FALSE
      /\ wired' = plugged /\ default' = d /\ devices' = Available(b, plugged)
      /\ thrown' = fails /\ selected' = IF fails THEN "NONE" ELSE choice
      /\ system' = [speaker |-> IF fails THEN system.speaker ELSE choice = "SPEAKER_PHONE",
                    mute |-> FALSE, mode |-> Mode(voice)]
      /\ mail' = IF fails THEN <<>> ELSE <<m>>
      /\ voice' = voice /\ sco' = sco
      /\ usable' = usable /\ linked' = linked /\ audio' = audio /\ plugged' = plugged
      /\ earpiece' = earpiece
  BY DEF Start, world
<1>2. TypeOK /\ Idle
  BY DEF IInv
<1>3. m \in Messages /\ m \in PlugMessages /\ (m = "plugged" <=> plugged)
  BY DEF Messages, PlugMessages
<1>4. /\ choice \in Devices /\ devices' \subseteq Devices
      /\ fails => d = "EARPIECE" /\ ~earpiece /\ ~plugged
      /\ ~fails => choice \in devices'
  BY <1>1 DEF Chosen, Available, Devices, Defaults
<1>5. ~sco
  BY <1>1, <1>2 DEF Idle, ScoMatchesState, InSco
<1>6. /\ mail' \in Seq(Messages)
      /\ IF fails THEN Len(mail') = 0 ELSE Len(mail') = 1 /\ mail'[1] = m
  BY <1>1, <1>3
<1>7. bt' \in States /\ ~InSco(bt') /\ bt' \in {"UNINITIALIZED", "HEADSET_UNAVAILABLE"}
      /\ (bt' = "UNINITIALIZED" <=> ~usable)
  BY <1>1 DEF States, InSco
<1>8. Mode(voice) \in {"normal", "communication"}
  BY DEF Mode
<1>14. fails \in BOOLEAN
  OBVIOUS
<1> HIDE DEF b, choice, m, fails
<1>9. TypeOK'
  <2>1. system' \in Settings
    <3>1. system.speaker \in BOOLEAN
      BY <1>2 DEF TypeOK, Settings
    <3> QED
      BY <1>1, <1>8, <3>1 DEF Settings
  <2> QED
    <3>1. mail' \in Seq({"linked", "unlinked", "audioOn", "audioOff", "plugged", "unplugged"})
      BY <1>6 DEF Messages
    <3>2. attempts' \in 0..MaxAttempts
      BY <1>1 DEF MaxAttempts
    <3> QED
      BY <1>1, <1>2, <1>4, <1>7, <1>14, <2>1, <3>1, <3>2 DEF TypeOK
<1>10. Idle'
  BY <1>1, <1>2, <1>5, <1>7 DEF Idle, ScoMatchesState, TypeOK
<1>11. Route'
  BY <1>1, <1>4 DEF Route, RouteIsReal, Active
<1>12. StoppedRestores' /\ Headset'
  BY <1>1 DEF StoppedRestores, Headset
<1>13. Plugs'
  BY <1>1, <1>3, <1>6 DEF Plugs, LastTold
<1> QED
  BY <1>9, <1>10, <1>11, <1>12, <1>13 DEF IInv

LEMMA StopStep == IInv /\ (Stop \/ StopThrows) => IInv'
<1> SUFFICES ASSUME IInv, Stop \/ StopThrows PROVE IInv'
  OBVIOUS
<1>1. TypeOK /\ Idle /\ Route
  BY DEF IInv
<1>2. /\ running /\ ~running' /\ mail' = <<>> /\ ~thrown /\ thrown' = thrown /\ earpiece' = earpiece
      /\ wired' = wired /\ devices' = devices /\ selected' = selected /\ default' = default
      /\ saved' = saved /\ voice' = voice /\ before' = before /\ attempts' = attempts
      /\ usable' = usable /\ linked' = linked /\ audio' = audio /\ plugged' = plugged
      /\ running' \in BOOLEAN
  BY DEF Stop, StopThrows, Active, world, phone, btVars
<1>3. /\ bt' = "UNINITIALIZED" /\ ~proxy' /\ ~timer' /\ ~sco'
      /\ proxy' \in BOOLEAN /\ timer' \in BOOLEAN /\ sco' \in BOOLEAN
  <2>1. CASE Stop
    BY <2>1, <1>1 DEF Stop, Idle, ScoMatchesState
  <2>2. CASE StopThrows
    BY <2>2, <1>1 DEF StopThrows, Active, phone, btVars, Idle, ScoMatchesState, InSco, TypeOK
  <2> QED
    BY <2>1, <2>2
<1>4. /\ focus' \in BOOLEAN /\ system' \in Settings
      /\ usable => system' = saved /\ ~focus'
  <2>1. CASE Stop
    BY <2>1, <1>1 DEF Stop, TypeOK
  <2>2. CASE StopThrows
    BY <2>2, <1>1 DEF StopThrows, phone, TypeOK
  <2> QED
    BY <2>1, <2>2
<1>5. mail' \in Seq(Messages)
  BY <1>2
<1>6. TypeOK'
  BY <1>1, <1>2, <1>3, <1>4, <1>5 DEF TypeOK, States, Messages
<1>7. Idle'
  BY <1>1, <1>2, <1>3 DEF Idle, ScoMatchesState, InSco
<1>8. Route' /\ StoppedRestores' /\ Headset' /\ Plugs'
  BY <1>1, <1>2, <1>3, <1>4 DEF Route, RouteIsReal, Active, StoppedRestores, Headset, Plugs
<1> QED
  BY <1>6, <1>7, <1>8 DEF IInv

LEMMA CallStep ==
  ASSUME IInv, (\E route \in {"EARPIECE", "SPEAKER_PHONE"} : SetAudioRoute(route))
                 \/ (\E voip \in BOOLEAN : SetSystemVolumeType(voip))
  PROVE  IInv'
<1>1. CASE \E route \in {"EARPIECE", "SPEAKER_PHONE"} : SetAudioRoute(route)
  <2>1. PICK route \in {"EARPIECE", "SPEAKER_PHONE"} : SetAudioRoute(route)
    BY <1>1
  <2> DEFINE d == IF route = "EARPIECE" /\ ~earpiece THEN "SPEAKER_PHONE" ELSE route
  <2>2. d \in Defaults
    BY DEF Defaults
  <2>3. UpdateAudioDeviceState(bt, proxy, attempts, timer, sco, wired, d)
        /\ Rest /\ mail' = mail /\ Active
    BY <2>1 DEF SetAudioRoute, Rest
  <2> HIDE DEF d
  <2> QED
    BY <2>2, <2>3, AsFound, Handled
<1>2. CASE \E voip \in BOOLEAN : SetSystemVolumeType(voip)
  <2>1. PICK voip \in BOOLEAN : SetSystemVolumeType(voip)
    BY <1>2
  <2>2. /\ Active /\ running /\ voice' = voip /\ system' = [system EXCEPT !.mode = Mode(voip)]
        /\ UNCHANGED <<running, wired, devices, selected, default, saved, thrown, bt, proxy, attempts,
                       timer, focus, sco, earpiece, usable, linked, audio, plugged, mail, before>>
    BY <2>1 DEF SetSystemVolumeType, Active, btVars, world
  <2>3. TypeOK /\ Idle /\ Route /\ Headset /\ Plugs
    BY DEF IInv
  <2>4. system' \in Settings /\ system'.speaker = system.speaker
    BY <2>2, <2>3 DEF TypeOK, Settings, Mode
  <2>5. TypeOK'
    BY <2>2, <2>3, <2>4 DEF TypeOK
  <2>6. Idle' /\ Route' /\ StoppedRestores' /\ Headset' /\ Plugs'
    BY <2>2, <2>3, <2>4 DEF Idle, ScoMatchesState, InSco, Route, RouteIsReal, Active,
       StoppedRestores, Headset, Plugs, LastTold
  <2> QED
    BY <2>5, <2>6 DEF IInv
<1> QED
  BY <1>1, <1>2

LEMMA ServiceStep == IInv /\ (OnServiceConnected \/ OnServiceDisconnected) => IInv'
<1> SUFFICES ASSUME IInv, OnServiceConnected \/ OnServiceDisconnected PROVE IInv'
  OBVIOUS
<1>0. Active /\ mail' = mail /\ usable /\ Rest
  BY DEF OnServiceConnected, OnServiceDisconnected, Active, IInv, Idle
<1>1. CASE OnServiceConnected
  <2>1. UpdateAudioDeviceState(bt, TRUE, attempts, timer, sco, wired, default)
        /\ bt = "HEADSET_UNAVAILABLE" /\ ~InSco(bt)
    BY <1>0, <1>1, AsFound DEF OnServiceConnected, InSco
  <2> QED
    BY <1>0, <2>1, AsFound, Handled, ZenonT(60)
<1>2. CASE OnServiceDisconnected
  <2> DEFINE b == "HEADSET_UNAVAILABLE"
             p == FALSE
             t == timer /\ ~InSco(bt)
             r == sco /\ ~InSco(bt)
  <2>1. UpdateAudioDeviceState(b, p, attempts, t, r, wired, default)
    BY <1>2 DEF OnServiceDisconnected
  <2>2. (sco <=> InSco(bt)) /\ (timer => InSco(bt))
    BY <1>0, AsFound DEF InSco
  <2>3. ~t /\ ~r /\ t \in BOOLEAN /\ r \in BOOLEAN
    BY <2>2
  <2>4. /\ b \in States /\ ~InSco(b) /\ b # "SCO_CONNECTING" /\ b # "SCO_DISCONNECTING"
        /\ b # "UNINITIALIZED" /\ b \in {"UNINITIALIZED", "HEADSET_UNAVAILABLE"}
        /\ ~p /\ p \in BOOLEAN
    BY DEF States, InSco
  <2> HIDE DEF b, p, t, r
  <2> QED
    BY <1>0, <2>1, <2>3, <2>4, AsFound, Handled
<1> QED
  BY <1>1, <1>2

LEMMA PlugStep == ASSUME IInv, NEW m \in PlugMessages, OnPlug(m) PROVE IInv'
<1>1. /\ Receive(m) /\ Rest
      /\ UpdateAudioDeviceState(bt, proxy, attempts, timer, sco, m = "plugged", default)
  BY DEF OnPlug
<1>2. Active
  BY <1>1 DEF IInv, Idle, Receive, Active
<1>3. mail \in Seq(Messages) /\ mail # <<>> /\ mail' = Tail(mail) /\ Head(mail) = m
  BY <1>1, <1>2, AsFound DEF Receive
<1>4. /\ mail' \in Seq(Messages) /\ LastTold(mail')
      /\ (\A i \in 1..Len(mail') : mail'[i] \notin PlugMessages) => (m = "plugged" <=> plugged)
      /\ In("unlinked", mail) => In("unlinked", mail')
  BY <1>2, <1>3, AsFound, TailIn, TailLast, TailKeeps DEF PlugMessages
<1>5. plugged \in BOOLEAN
  BY DEF IInv, TypeOK
<1> DEFINE w == m = "plugged"
<1>6. w \in BOOLEAN /\ ((\A i \in 1..Len(mail') : mail'[i] \notin PlugMessages) => w = plugged)
  BY <1>4, <1>5
<1>7. UpdateAudioDeviceState(bt, proxy, attempts, timer, sco, w, default)
  BY <1>1
<1> HIDE DEF w
<1> QED
  BY <1>1, <1>2, <1>4, <1>6, <1>7, AsFound, Handled

LEMMA HeadsetStep == IInv /\ (OnLinked \/ OnUnlinked) => IInv'
<1> SUFFICES ASSUME IInv, OnLinked \/ OnUnlinked PROVE IInv'
  OBVIOUS
<1>0. Rest /\ mail # <<>> /\ Active
  BY DEF OnLinked, OnUnlinked, Receive, IInv, Idle, Active
<1>1. CASE OnLinked
  <2>1. Receive("linked") /\ UpdateAudioDeviceState(bt, proxy, 0, timer, sco, wired, default)
    BY <1>1 DEF OnLinked
  <2>2. "linked" \in Messages \ PlugMessages
    BY DEF Messages, PlugMessages
  <2>3. /\ mail' \in Seq(Messages) /\ LastTold(mail')
        /\ (\A i \in 1..Len(mail') : mail'[i] \notin PlugMessages) => wired = plugged
        /\ In("unlinked", mail) => In("unlinked", mail')
    BY <1>0, <2>1, <2>2, Received
  <2> QED
    BY <1>0, <2>1, <2>3, AsFound, Handled
<1>2. CASE OnUnlinked
  <2> DEFINE b == Stopped(bt)
             t == timer /\ ~InSco(bt)
             r == sco /\ ~InSco(bt)
  <2>1. Receive("unlinked") /\ UpdateAudioDeviceState(b, proxy, attempts, t, r, wired, default)
    BY <1>2 DEF OnUnlinked
  <2>2. "unlinked" \in Messages \ PlugMessages
    BY DEF Messages, PlugMessages
  <2>3. /\ mail' \in Seq(Messages) /\ LastTold(mail')
        /\ (\A i \in 1..Len(mail') : mail'[i] \notin PlugMessages) => wired = plugged
    BY <1>0, <2>1, <2>2, Received
  <2>4. (sco <=> InSco(bt)) /\ (timer => InSco(bt))
    BY <1>0, AsFound DEF InSco
  <2>5. ~t /\ ~r /\ t \in BOOLEAN /\ r \in BOOLEAN
    BY <2>4
  <2>6. /\ b \in States /\ ~InSco(b) /\ b # "SCO_CONNECTING"
        /\ b = "SCO_DISCONNECTING" => proxy
        /\ b = "UNINITIALIZED" <=> ~usable
        /\ ~proxy => b \in {"UNINITIALIZED", "HEADSET_UNAVAILABLE"}
    BY <1>0, AsFound DEF Stopped, InSco, States
  <2> HIDE DEF b, t, r
  <2> QED
    BY <1>0, <2>1, <2>3, <2>5, <2>6, AsFound, Handled
<1> QED
  BY <1>1, <1>2

\* A handler that leaves the state of the route as it is.
LEMMA Ignored ==
  ASSUME IInv, Active, Rest, mail' \in Seq(Messages), UNCHANGED Unaffected, timer' = timer,
         In("unlinked", mail) => In("unlinked", mail'),
         In("linked", mail) => In("linked", mail'),
         (\A i \in 1..Len(mail') : mail'[i] \notin PlugMessages) => wired = plugged,
         LastTold(mail')
  PROVE  IInv'
<1>1. TypeOK /\ Idle /\ Route /\ Headset /\ Plugs /\ running /\ ~thrown
  BY DEF IInv, Active
<1>2. UNCHANGED <<running, saved, voice, focus, earpiece, usable, linked, audio, plugged, before,
                  wired, devices, selected, default, thrown, bt, proxy, attempts, system, sco, timer>>
  BY DEF Rest, world, Unaffected
<1>3. TypeOK'
  BY <1>1, <1>2 DEF TypeOK, Messages
<1>4. Idle' /\ Route' /\ StoppedRestores' /\ Headset'
  BY <1>1, <1>2 DEF Idle, ScoMatchesState, InSco, Route, RouteIsReal, Active, StoppedRestores,
     Headset
<1>5. Plugs'
  BY <1>1, <1>2 DEF Plugs, LastTold
<1> QED
  BY <1>3, <1>4, <1>5 DEF IInv

LEMMA AudioStep == IInv /\ (OnAudioConnected \/ OnAudioDisconnected) => IInv'
<1> SUFFICES ASSUME IInv, OnAudioConnected \/ OnAudioDisconnected PROVE IInv'
  OBVIOUS
<1>0. Rest /\ mail # <<>> /\ Active
  BY DEF OnAudioConnected, OnAudioDisconnected, Receive, IInv, Idle, Active
<1>1. "audioOn" \in Messages \ PlugMessages /\ "audioOff" \in Messages \ PlugMessages
  BY DEF Messages, PlugMessages
<1>2. Receive("audioOn") \/ Receive("audioOff")
  BY DEF OnAudioConnected, OnAudioDisconnected
<1>3. /\ mail' \in Seq(Messages) /\ LastTold(mail')
      /\ (\A i \in 1..Len(mail') : mail'[i] \notin PlugMessages) => wired = plugged
      /\ In("unlinked", mail) => In("unlinked", mail')
      /\ In("linked", mail) => In("linked", mail')
  BY <1>0, <1>1, <1>2, Received
<1>4. CASE OnAudioConnected /\ bt = "SCO_CONNECTING"
  <2> DEFINE b == "SCO_CONNECTED"
             t == FALSE
  <2>1. UpdateAudioDeviceState(b, proxy, 0, t, sco, wired, default)
    BY <1>4 DEF OnAudioConnected
  <2>2. /\ b \in States /\ InSco(b) /\ InSco(bt) /\ b # "SCO_CONNECTING"
        /\ b # "SCO_DISCONNECTING" /\ b # "UNINITIALIZED" /\ ~t /\ t \in BOOLEAN
    BY <1>4 DEF States, InSco
  <2>3. sco /\ proxy /\ usable
    BY <1>0, <1>4, <2>2, AsFound
  <2> HIDE DEF b, t
  <2>4. /\ sco <=> InSco(b)
        /\ t <=> b = "SCO_CONNECTING"
        /\ b = "UNINITIALIZED" <=> ~usable
    BY <2>2, <2>3
  <2>5. In("unlinked", mail') \/ linked
    BY <1>0, <1>3, <2>2, <2>3, AsFound
  <2>6. /\ proxy \in BOOLEAN /\ sco \in BOOLEAN /\ wired \in BOOLEAN /\ 0 \in 0..MaxAttempts
        /\ default \in Defaults
    BY <1>0, AsFound
  <2> QED
    BY <1>0, <1>3, <2>1, <2>2, <2>3, <2>4, <2>5, <2>6, Handled, ZenonT(60)
<1>5. CASE OnAudioConnected /\ bt # "SCO_CONNECTING"
  <2>1. ~timer' /\ timer' = FALSE /\ UNCHANGED Unaffected
    BY <1>5 DEF OnAudioConnected
  <2>2. timer = FALSE
    BY <1>0, <1>5, AsFound
  <2> QED
    BY <1>0, <1>3, <2>1, <2>2, Ignored
<1>6. CASE OnAudioDisconnected
  <2>1. UpdateAudioDeviceState(bt, proxy, attempts, timer, sco, wired, default)
    BY <1>6 DEF OnAudioDisconnected
  <2> QED
    BY <1>0, <1>3, <2>1, AsFound, Handled
<1> QED
  BY <1>4, <1>5, <1>6

LEMMA TimeoutStep == IInv /\ BluetoothTimeout => IInv'
<1> SUFFICES ASSUME IInv, BluetoothTimeout PROVE IInv'
  OBVIOUS
<1>0. /\ timer /\ ~thrown /\ Rest /\ mail' = mail
      /\ usable \in BOOLEAN
  BY DEF BluetoothTimeout, IInv, TypeOK
<1>1. Active /\ bt = "SCO_CONNECTING"
  BY <1>0 DEF IInv, Idle, ScoMatchesState, Active
<1>2. proxy /\ usable /\ InSco(bt) /\ sco
  BY <1>1, AsFound DEF InSco
<1>3. CASE linked /\ audio
  <2> DEFINE b == "SCO_CONNECTED"
             t == FALSE
  <2>1. UpdateAudioDeviceState(b, proxy, 0, t, sco, wired, default)
    BY <1>1, <1>2, <1>3 DEF BluetoothTimeout
  <2>2. /\ b \in States /\ InSco(b) /\ b # "SCO_CONNECTING"
        /\ b # "SCO_DISCONNECTING" /\ b # "UNINITIALIZED" /\ ~t /\ t \in BOOLEAN
    BY DEF States, InSco
  <2> HIDE DEF b, t
  <2>3. /\ sco <=> InSco(b)
        /\ t <=> b = "SCO_CONNECTING"
        /\ b = "UNINITIALIZED" <=> ~usable
    BY <1>2, <2>2
  <2>4. /\ proxy \in BOOLEAN /\ sco \in BOOLEAN /\ wired \in BOOLEAN /\ 0 \in 0..MaxAttempts
        /\ default \in Defaults
        /\ mail' \in Seq(Messages) /\ LastTold(mail')
        /\ (\A i \in 1..Len(mail') : mail'[i] \notin PlugMessages) => wired = plugged
    BY <1>0, <1>1, AsFound
  <2> QED
    BY <1>0, <1>1, <1>2, <1>3, <2>1, <2>2, <2>3, <2>4, Handled, ZenonT(60)
<1>4. CASE ~(linked /\ audio)
  <2>1. UpdateAudioDeviceState("SCO_DISCONNECTING", proxy, attempts, FALSE, FALSE, wired, default)
    BY <1>1, <1>2, <1>4 DEF BluetoothTimeout
  <2>2. "SCO_DISCONNECTING" \in States /\ ~InSco("SCO_DISCONNECTING")
    BY DEF States, InSco
  <2> QED
    BY <1>0, <1>1, <1>2, <2>1, <2>2, AsFound, Handled, ZenonT(60)
<1> QED
  BY <1>3, <1>4

-----------------------------------------------------------------------------
(***************************************************************************)
(* The world: what it changes, it tells.                                   *)
(***************************************************************************)
LEMMA Told ==
  ASSUME IInv, Outside, NEW ms \in Seq(Messages), Tell(ms), plugged' = plugged,
         linked' \in BOOLEAN, audio' \in BOOLEAN,
         \A i \in 1..Len(ms) : ms[i] \notin PlugMessages,
         linked' # linked => IF linked' THEN In("linked", ms) ELSE In("unlinked", ms)
  PROVE  IInv'
<1>1. TypeOK /\ Idle /\ Route /\ StoppedRestores /\ Headset /\ Plugs
  BY DEF IInv
<1>2. UNCHANGED <<running, wired, devices, selected, default, saved, voice, bt, proxy, attempts,
                  timer, system, focus, sco, usable, before, thrown, earpiece>>
  BY DEF Outside, amVars, btVars, phone
<1> ~thrown
  BY DEF Outside
<1>3. mail \in Seq(Messages)
  BY <1>1 DEF TypeOK, Messages
<1>4. mail' = mail \/ (running /\ mail' = mail \o ms)
  BY DEF Tell
<1>5. mail' \in Seq(Messages)
  BY <1>3, <1>4, ConcatProperties
<1>6. TypeOK'
  BY <1>1, <1>2, <1>5 DEF TypeOK, Messages
<1>7. ~running => mail' = mail
  BY <1>4
<1>8. Idle' /\ Route' /\ StoppedRestores'
  BY <1>1, <1>2, <1>7 DEF Idle, ScoMatchesState, InSco, Route, RouteIsReal, Active,
     StoppedRestores
<1>9. Headset'
  <2> SUFFICES ASSUME proxy PROVE Headset'
    BY <1>2 DEF Headset
  <2>1. running /\ usable
    BY <1>1 DEF Idle
  <2>2. mail' = mail \o ms
    BY <2>1 DEF Tell
  <2>3. /\ In("linked", mail) \/ In("linked", ms) => In("linked", mail')
        /\ In("unlinked", mail) \/ In("unlinked", ms) => In("unlinked", mail')
    BY <2>2, <1>3, ConcatKeeps
  <2>4. linked \in BOOLEAN /\ linked' \in BOOLEAN
    BY <1>1 DEF TypeOK
  <2>5. Headset => Headset'
    BY <1>2, <2>3, <2>4 DEF Headset, InSco
  <2> QED
    BY <2>5, <1>1
<1>10. Plugs'
  <2>1. running => /\ LastTold(mail')
                   /\ (\A i \in 1..Len(mail') : mail'[i] \notin PlugMessages)
                        => \A i \in 1..Len(mail) : mail[i] \notin PlugMessages
    BY <1>1, <1>3, <1>4, ConcatLast DEF Plugs
  <2> QED
    BY <1>1, <1>2, <2>1 DEF Plugs, LastTold
<1> QED
  BY <1>1, <1>6, <1>8, <1>9, <1>10 DEF IInv

LEMMA HeadsetWorldStep == IInv /\ (HeadsetLinks \/ HeadsetUnlinks \/ ChannelUp \/ ChannelDown) => IInv'
<1> SUFFICES ASSUME IInv, HeadsetLinks \/ HeadsetUnlinks \/ ChannelUp \/ ChannelDown PROVE IInv'
  OBVIOUS
<1>0. /\ Outside /\ plugged' = plugged
      /\ linked \in BOOLEAN /\ audio \in BOOLEAN
  BY DEF HeadsetLinks, HeadsetUnlinks, ChannelUp, ChannelDown, IInv, TypeOK
<1>1. ASSUME NEW m \in Messages \ PlugMessages
      PROVE  /\ <<m>> \in Seq(Messages) /\ In(m, <<m>>)
             /\ \A i \in 1..Len(<<m>>) : <<m>>[i] \notin PlugMessages
  BY DEF In
<1>2. CASE HeadsetLinks
  <2>1. "linked" \in Messages \ PlugMessages
    BY DEF Messages, PlugMessages
  <2>2. Tell(<<"linked">>) /\ linked' = TRUE /\ audio' = audio
    BY <1>2 DEF HeadsetLinks
  <2> QED
    BY <1>0, <1>1, <2>1, <2>2, Told
<1>3. CASE HeadsetUnlinks
  <2>1. "unlinked" \in Messages \ PlugMessages
    BY DEF Messages, PlugMessages
  <2>2. linked' = FALSE /\ audio' = FALSE
    BY <1>3 DEF HeadsetUnlinks
  <2>3. CASE audio
    <3> DEFINE ms == <<"audioOff", "unlinked">>
    <3>1. Tell(ms)
      BY <1>3, <2>3 DEF HeadsetUnlinks
    <3>2. ms \in Seq(Messages) /\ Len(ms) = 2 /\ ms[1] = "audioOff" /\ ms[2] = "unlinked"
      BY DEF Messages
    <3>3. In("unlinked", ms)
      BY <3>2 DEF In
    <3>4. \A i \in 1..Len(ms) : ms[i] \notin PlugMessages
      BY <3>2 DEF PlugMessages
    <3> HIDE DEF ms
    <3> QED
      BY <1>0, <2>2, <3>1, <3>2, <3>3, <3>4, Told
  <2>4. CASE ~audio
    <3>1. Tell(<<"unlinked">>)
      BY <1>3, <2>4 DEF HeadsetUnlinks
    <3> QED
      BY <1>0, <1>1, <2>1, <2>2, <3>1, Told
  <2> QED
    BY <2>3, <2>4
<1>4. CASE ChannelUp
  <2>1. "audioOn" \in Messages \ PlugMessages
    BY DEF Messages, PlugMessages
  <2>2. Tell(<<"audioOn">>) /\ linked' = linked /\ audio' = TRUE
    BY <1>4 DEF ChannelUp
  <2> QED
    BY <1>0, <1>1, <2>1, <2>2, Told
<1>5. CASE ChannelDown
  <2>1. "audioOff" \in Messages \ PlugMessages
    BY DEF Messages, PlugMessages
  <2>2. Tell(<<"audioOff">>) /\ linked' = linked /\ audio' = FALSE
    BY <1>5 DEF ChannelDown
  <2> QED
    BY <1>0, <1>1, <2>1, <2>2, Told
<1> QED
  BY <1>2, <1>3, <1>4, <1>5

LEMMA PlugWorldStep == IInv /\ Plug => IInv'
<1> SUFFICES ASSUME IInv, Plug PROVE IInv'
  OBVIOUS
<1> DEFINE m == IF plugged THEN "unplugged" ELSE "plugged"
           s == Append(mail, m)
<1>1. TypeOK /\ Idle /\ Route /\ StoppedRestores /\ Headset /\ Plugs
  BY DEF IInv
<1>2. UNCHANGED <<running, wired, devices, selected, default, saved, voice, bt, proxy, attempts,
                  timer, system, focus, sco, usable, before, linked, audio, thrown, earpiece>>
  BY DEF Plug, Outside, amVars, btVars, phone
<1> ~thrown
  BY DEF Plug, Outside
<1>3. plugged' = ~plugged /\ plugged' \in BOOLEAN /\ mail' = IF running THEN s ELSE mail
  BY DEF Plug
<1>4. mail \in Seq(Messages)
  BY <1>1 DEF TypeOK, Messages
<1>5. m \in PlugMessages /\ (m = "plugged" <=> plugged')
  BY <1>3 DEF PlugMessages
<1> HIDE DEF m
<1>6. /\ s \in Seq(Messages) /\ Len(s) = Len(mail) + 1 /\ Len(mail) \in Nat
      /\ s[Len(mail) + 1] = m
      /\ \A i \in 1..Len(mail) : s[i] = mail[i]
  BY <1>4, <1>5, AppendLast
<1> HIDE DEF s
<1>7. mail' \in Seq(Messages)
  BY <1>3, <1>4, <1>6
<1>8. TypeOK'
  BY <1>1, <1>2, <1>3, <1>7 DEF TypeOK, Messages
<1>9. Idle' /\ Route' /\ StoppedRestores'
  BY <1>1, <1>2, <1>3 DEF Idle, ScoMatchesState, InSco, Route, RouteIsReal, Active,
     StoppedRestores
<1>10. Headset'
  <2>1. ASSUME NEW n, In(n, mail) PROVE In(n, mail')
    BY <2>1, <1>3, <1>6 DEF In
  <2> QED
    BY <1>1, <1>2, <2>1 DEF Headset, InSco
<1>11. Plugs'
  <2> SUFFICES ASSUME running PROVE Plugs'
    BY <1>2 DEF Plugs
  <2>1. mail' = s
    BY <1>3
  <2>2. Len(s) \in 1..Len(s) /\ s[Len(s)] = m
    BY <1>6
  <2>3. ~(\A i \in 1..Len(s) : s[i] \notin PlugMessages)
    BY <2>2, <1>5
  <2>4. ASSUME NEW i \in 1..Len(s), \A j \in 1..Len(s) : j > i => s[j] \notin PlugMessages
        PROVE  i = Len(s)
    BY <2>2, <2>4, <1>5, <1>6
  <2> QED
    BY <2>1, <2>2, <2>3, <2>4, <1>5 DEF Plugs, LastTold
<1> QED
  BY <1>1, <1>8, <1>9, <1>10, <1>11 DEF IInv

-----------------------------------------------------------------------------
\* IInv is an invariant: it holds at first and every step keeps it.
THEOREM Invariance == Spec => []IInv
<1>1. Init => IInv
  BY InitIInv
<1>2. IInv /\ [Next]_vars => IInv'
  <2> SUFFICES ASSUME IInv, [Next]_vars PROVE IInv'
    OBVIOUS
  <2>1. CASE Calls
    BY <2>1, StartStep, StopStep, CallStep DEF Calls
  <2>2. CASE OnServiceConnected \/ OnServiceDisconnected
    BY <2>2, ServiceStep
  <2>3. CASE Handlers
    <3>1. "plugged" \in PlugMessages /\ "unplugged" \in PlugMessages
      BY DEF PlugMessages
    <3> QED
      BY <2>3, <3>1, PlugStep, HeadsetStep, AudioStep DEF Handlers
  <2>4. CASE BluetoothTimeout
    BY <2>4, TimeoutStep
  <2>5. CASE World
    BY <2>5, HeadsetWorldStep, PlugWorldStep DEF World
  <2>6. CASE Over \/ UNCHANGED vars
    BY <2>6 DEF Over, Active, vars, amVars, btVars, phone, world, IInv, TypeOK, Idle, Route,
       StoppedRestores,
       Headset, Plugs, ScoMatchesState, RouteIsReal, InSco, LastTold, In
  <2> QED
    BY <2>1, <2>2, <2>3, <2>4, <2>5, <2>6 DEF Next
<1> QED
  BY <1>1, <1>2, PTL DEF Spec

\* Every variable keeps its type.
THEOREM TypeCorrect == Spec => []TypeOK
<1>1. IInv => TypeOK
  BY DEF IInv
<1> QED
  BY <1>1, Invariance, PTL

\* The SCO channel is requested, and its timer runs, exactly in the states that say so.
THEOREM ScoMatches == Spec => []ScoMatchesState
<1>1. IInv => ScoMatchesState
  BY DEF IInv, Idle
<1> QED
  BY <1>1, Invariance, PTL

\* The route selected is one there is, and the assertion that it is fails in no other case
\* than that of the preference.
THEOREM RouteReal == Spec => []RouteIsReal
<1>1. IInv => RouteIsReal
  BY DEF IInv, Route
<1> QED
  BY <1>1, Invariance, PTL

\* A library that is stopped holds no channel, and if it can use Bluetooth gives everything
\* back.
THEOREM StoppedGivesBack == Spec => []StoppedRestores
<1>1. IInv => StoppedRestores
  BY DEF IInv
<1> QED
  BY <1>1, Invariance, PTL

\* When all broadcasts have been handled the library knows which headsets there are.
THEOREM SettledAgrees == Spec => []AgreesWhenSettled
<1>1. IInv => AgreesWhenSettled
  <2> SUFFICES ASSUME IInv, running, mail = <<>>
               PROVE  /\ wired = plugged
                      /\ proxy => /\ bt = "HEADSET_UNAVAILABLE" <=> ~linked
                                  /\ linked => InSco(bt) \/ attempts = MaxAttempts
    BY DEF AgreesWhenSettled
  <2>1. Len(mail) = 0
    OBVIOUS
  <2>2. wired = plugged
    BY <2>1 DEF IInv, Plugs
  <2>3. ~In("linked", mail) /\ ~In("unlinked", mail)
    BY <2>1 DEF In
  <2> QED
    BY <2>2, <2>3 DEF IInv, Headset, Idle, InSco
<1> QED
  BY <1>1, Invariance, PTL

-----------------------------------------------------------------------------
(***************************************************************************)
(* Liveness.  tlapm has no rule for ENABLED, so the fairness of LiveSpec   *)
(* is restated with the guard of BluetoothTimeout written out.             *)
(***************************************************************************)
GuardFairness == []<>~(timer /\ ~thrown) \/ []<><<BluetoothTimeout>>_vars

\* An attempt, the n-th; and the broadcast that makes the attempts start again.
Attempt(n) == bt = "SCO_CONNECTING" /\ attempts = n
Anew == mail # <<>> /\ Head(mail) = "linked"

\* updateAudioDeviceState counts each attempt that it begins.
LEMMA UpdateCounts ==
  ASSUME NEW b, NEW p, NEW a \in 0..MaxAttempts, NEW t, NEW r, NEW w, NEW d,
         UpdateAudioDeviceState(b, p, a, t, r, w, d), bt' = "SCO_CONNECTING"
  PROVE  \/ b = "SCO_CONNECTING" /\ attempts' = a
         \/ attempts' = a + 1 /\ a < MaxAttempts
<1> DEFINE now == Refreshed(b, p)
           starts == now = "HEADSET_AVAILABLE" /\ AttemptsLeft(a)
<1>1. bt' = (IF starts THEN "SCO_CONNECTING" ELSE now) /\ attempts' = (IF starts THEN a + 1 ELSE a)
  BY DEF UpdateAudioDeviceState
<1>2. now = "SCO_CONNECTING" => b = "SCO_CONNECTING"
  BY DEF Refreshed, Updated
<1> HIDE DEF now
<1> QED
  BY <1>1, <1>2 DEF AttemptsLeft

\* When an attempt times out it is over, or the next one has begun.
LEMMA TimeoutCounts ==
  ASSUME NEW n \in 0..MaxAttempts, IInv, Attempt(n), BluetoothTimeout, bt' = "SCO_CONNECTING"
  PROVE  attempts' = n + 1 /\ n < MaxAttempts
<1>1. proxy /\ bt = "SCO_CONNECTING" /\ attempts = n
  BY DEF IInv, Idle, Attempt
<1>2. CASE linked /\ audio
  <2>1. UpdateAudioDeviceState("SCO_CONNECTED", proxy, 0, FALSE, sco, wired, default)
    BY <1>1, <1>2 DEF BluetoothTimeout
  <2> QED
    BY <2>1 DEF UpdateAudioDeviceState, Refreshed
<1>3. CASE ~(linked /\ audio)
  <2>1. UpdateAudioDeviceState("SCO_DISCONNECTING", proxy, n, FALSE, FALSE, wired, default)
    BY <1>1, <1>3 DEF BluetoothTimeout
  <2> QED
    BY <2>1 DEF UpdateAudioDeviceState, Refreshed, Updated, AttemptsLeft
<1> QED
  BY <1>2, <1>3

\* While an attempt is under way the count does not go down, unless a headset is newly linked.
LEMMA AttemptStep ==
  ASSUME NEW n \in 0..MaxAttempts, IInv, Attempt(n), ~Anew, [Next]_vars, bt' = "SCO_CONNECTING"
  PROVE  attempts' = n \/ (attempts' = n + 1 /\ n < MaxAttempts)
<1> USE DEF Attempt
<1>1. CASE Calls
  BY <1>1, UpdateCounts DEF Calls, Start, Stop, StopThrows, SetAudioRoute, SetSystemVolumeType,
     Active, btVars
<1>2. CASE OnServiceConnected \/ OnServiceDisconnected
  BY <1>2, UpdateCounts DEF OnServiceConnected, OnServiceDisconnected
<1>3. CASE Handlers
  <2>1. ~OnLinked
    BY DEF OnLinked, Receive, Anew
  <2>2. CASE OnUnlinked
    BY <2>2, UpdateCounts DEF OnUnlinked
  <2>3. CASE OnPlug("plugged") \/ OnPlug("unplugged") \/ OnAudioDisconnected
    BY <2>3, UpdateCounts DEF OnPlug, OnAudioDisconnected
  <2>4. CASE OnAudioConnected
    <3>1. UpdateAudioDeviceState("SCO_CONNECTED", proxy, 0, FALSE, sco, wired, default)
      BY <2>4 DEF OnAudioConnected
    <3> QED
      BY <3>1 DEF UpdateAudioDeviceState, Refreshed
  <2> QED
    BY <1>3, <2>1, <2>2, <2>3, <2>4 DEF Handlers
<1>4. CASE BluetoothTimeout
  BY <1>4, TimeoutCounts
<1>5. CASE World \/ Over \/ UNCHANGED vars
  BY <1>5 DEF World, Over, HeadsetLinks, HeadsetUnlinks, ChannelUp, ChannelDown, Plug, Outside,
     vars, btVars
<1> QED
  BY <1>1, <1>2, <1>3, <1>4, <1>5 DEF Next

\* An attempt is over, or the next one has begun, sooner or later.
Passes(n) ==
  Attempt(n) ~> (n < MaxAttempts /\ Attempt(n + 1)) \/ bt # "SCO_CONNECTING" \/ Anew \/ thrown

LEMMA AttemptPasses == ASSUME NEW n \in 0..MaxAttempts PROVE Spec /\ GuardFairness => Passes(n)
<1> DEFINE Done == bt # "SCO_CONNECTING" \/ Anew \/ thrown
           More == n < MaxAttempts /\ Attempt(n + 1)
<1>1. IInv /\ Attempt(n) /\ [Next]_vars => (Attempt(n) \/ More)' \/ Done \/ Done'
  BY AttemptStep DEF Attempt
<1>2. IInv /\ Attempt(n) /\ <<BluetoothTimeout>>_vars => More' \/ Done'
  BY TimeoutCounts DEF Attempt
<1>3. IInv /\ Attempt(n) /\ ~Done => timer /\ ~thrown
  BY DEF IInv, Idle, ScoMatchesState, Attempt
<1> HIDE DEF Attempt, Done, More, IInv
<1>4. Spec /\ GuardFairness => (Attempt(n) ~> More \/ Done)
  BY <1>1, <1>2, <1>3, Invariance, PTL DEF Spec, GuardFairness
<1> QED
  BY <1>4, PTL DEF Passes, More, Done

\* Attempts to bring the channel up come to an end: there are at most MaxAttempts of them.
THEOREM AttemptsEnd == Spec /\ GuardFairness => AttemptEnds
<1>1. \A n \in 0..MaxAttempts : Spec /\ GuardFairness => Passes(n)
  BY AttemptPasses
<1>2. Spec /\ GuardFairness => Passes(0) /\ Passes(1) /\ Passes(2)
  <2> HIDE DEF Passes
  <2> QED
    BY <1>1 DEF MaxAttempts
<1>3. IInv /\ bt = "SCO_CONNECTING" => Attempt(0) \/ Attempt(1) \/ Attempt(2)
  BY DEF IInv, TypeOK, MaxAttempts, Attempt
<1>4. (Attempt(0 + 1) <=> Attempt(1)) /\ (Attempt(1 + 1) <=> Attempt(2)) /\ ~(2 < MaxAttempts)
  BY DEF MaxAttempts
<1> HIDE DEF Attempt, IInv
<1> QED
  BY <1>2, <1>3, <1>4, Invariance, PTL DEF Passes, AttemptEnds, Anew
=============================================================================
