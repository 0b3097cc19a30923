--------------------------- MODULE DrivePath_proofs ---------------------------
(***************************************************************************)
(* The bounds of DrivePath for every threshold and every delay: a command  *)
(* that drives the motor is at most StopTime old, and what the user does   *)
(* takes effect within ReactionTime, whoever dies or is late.  And at the  *)
(* motor, VescReceiver: how the serial port cuts the bytes of the answers  *)
(* into reads makes no difference, whatever the bytes are.                 *)
(***************************************************************************)
EXTENDS DrivePath, VescReceiver, SequenceTheorems, NaturalsInduction,
        WellFoundedInduction, TLAPS

-----------------------------------------------------------------------------
(* The inductive invariant.                                                *)

\* What the age of a command may exceed its stamp by: its way of /joy, or the
\* lead of the controller's clock.
Late == IF JoyDelay > Ahead THEN JoyDelay ELSE Ahead

\* The loop of the multiplexer has not run in this tick.
Due == IF muxLoop = "due" THEN 1 ELSE 0

\* What the keyboard node remembers is what the user does, while its listener
\* runs; a speed is only pending between the two lines of its timer.
KeyboardInv ==
  /\ listening => keyboard
  /\ ~keyboard => loop = "done" /\ ~held /\ mode = "human"
  /\ speed = 1 => loop = "computed" /\ (listening => released <= 1)
  /\ listening => (held <=> released = 0)
  /\ keyboard => (mode = "auto" <=> overridden = 0)

\* A command of a source is not much older than its stamp says.
SourceInv ==
  /\ human.stamp >= 0
  /\ \A c \in {human, auto} :
       IF c.stamp < Fresh THEN c.age <= c.stamp + Late ELSE c = NoCommand

\* While the multiplexer runs it has sent one command in each tick, so that
\* the one that the motor runs on is as many ticks old as there are on the way.
CmdInv ==
  /\ \A i \in 1 .. Len(cmd) :
       cmd[i].from # "none" => cmd[i].age < Fresh + Late + cmd[i].wait
  /\ mux => \A i \in 1 .. Len(cmd) : cmd[i].wait = Len(cmd) - i + Due

MotorInv ==
  /\ driver = "initializing" => motor.from = "none"
  /\ mux /\ motor.from # "none" => motor.age < Fresh + Late + Len(cmd) + Due

\* Messages of the controller's mode, and those that a held key gives.
AutoJoy == [speed : {0, 1}, mode : {"auto"}, age : Nat]
DriveJoy == [speed : {1}, mode : {"human"}, age : Nat]

\* Since the user ended what the messages in S bring about, none of them was
\* sent, and the multiplexer has heard or will hear that it ended: it is out of
\* what they bring about, or something else follows among msgs in time.  The
\* keyboard node may have to publish yet.
Ended(S, since, out, msgs, publishing) ==
  /\ \A i \in 1 .. Len(msgs) : msgs[i] \in S => since <= msgs[i].age + 1
  /\ \/ since <= 1
     \/ since = 2 /\ publishing
     \/ out /\ \A i \in 1 .. Len(msgs) : msgs[i] \notin S
     \/ \E i \in 1 .. Len(msgs) :
          /\ since <= msgs[i].age + 2
          /\ \A j \in i .. Len(msgs) : msgs[j] \notin S

\* Commands of a source that the multiplexer has left are on the way out.
Leaving(source, since, cmds, from, due) ==
  /\ \A i \in 1 .. Len(cmds) :
       cmds[i].from = source => since <= cmds[i].wait + JoyDelay + 2
  /\ from = source => since <= Len(cmds) + due + JoyDelay + 2

OverrideInv ==
  keyboard /\ mux =>
    /\ Ended(AutoJoy, overridden, host # "autodrive", joy, loop # "done")
    /\ Leaving("auto", overridden, cmd, motor.from, Due)

ReleaseInv ==
  listening /\ mux =>
    /\ Ended(DriveJoy, released, host # "humandrive" \/ human = NoCommand, joy,
             loop # "done")
    /\ Leaving("human", released, cmd, motor.from, Due)

IInv ==
  /\ TypeOK
  /\ KeyboardInv
  /\ SourceInv
  /\ CmdInv
  /\ MotorInv
  /\ OverrideInv
  /\ ReleaseInv

-----------------------------------------------------------------------------
(* Messages on their way.                                                  *)

JoyMsg == [speed : {0, 1}, mode : {"human", "auto"}, age : 0 .. JoyDelay]
Sources == {"human", "auto", "none"}
CmdMsg == [from : Sources, age : 0 .. StopTime + 1, wait : 0 .. CmdDelay]
Drive == [from : Sources, age : 0 .. StopTime + 1]
Source == [stamp : -Ahead .. Fresh, age : 0 .. StopTime]

LEMMA Constants ==
  /\ Fresh \in Nat /\ Fresh > 0
  /\ JoyDelay \in Nat /\ DriveDelay \in Nat /\ CmdDelay \in Nat /\ Ahead \in Nat
  /\ Late \in Nat /\ JoyDelay <= Late /\ Ahead <= Late
  /\ StopTime \in Nat /\ StopTime = Fresh + Late + CmdDelay
  /\ ReactionTime \in Nat /\ ReactionTime = JoyDelay + CmdDelay + 3
BY DrivePathAssumption DEF Late, StopTime, ReactionTime

\* A sequence that is mapped element by element stays one, of the same length.
LEMMA MappedSeq ==
  ASSUME NEW S, NEW T, NEW s \in Seq(S), NEW t,
         t = [i \in DOMAIN s |-> t[i]],
         \A i \in 1 .. Len(s) : t[i] \in T
  PROVE  t \in Seq(T) /\ Len(t) = Len(s)
<1>1. DOMAIN s = 1 .. Len(s) /\ Len(s) \in Nat
  BY LenProperties
<1>2. t \in [1 .. Len(s) -> T]
  BY <1>1
<1>3. t \in Seq(T)
  BY <1>1, <1>2, SeqDef
<1>4. DOMAIN t = 1 .. Len(t) /\ Len(t) \in Nat
  BY <1>3, LenProperties
<1>5. DOMAIN t = 1 .. Len(s)
  BY <1>2
<1>6. Len(t) = Len(s)
  <2>1. \A k \in Nat : k \in 1 .. Len(t) <=> k \in 1 .. Len(s)
    BY <1>4, <1>5
  <2>. QED
    BY <2>1, <1>1, <1>4
<1>. QED
  BY <1>3, <1>6

\* What is left of a sequence when its head is taken.
LEMMA TakenSeq ==
  ASSUME NEW S, NEW s \in Seq(S), s # << >>
  PROVE  /\ Len(s) \in Nat /\ Len(s) > 0
         /\ Head(s) = s[1] /\ s[1] \in S
         /\ Tail(s) \in Seq(S) /\ Len(Tail(s)) = Len(s) - 1
         /\ \A i \in 1 .. Len(s) - 1 : Tail(s)[i] = s[i + 1]
BY HeadTailProperties, EmptySeq, LenProperties, ElementOfSeq

LEMMA AppendedSeq ==
  ASSUME NEW S, NEW s \in Seq(S), NEW e \in S
  PROVE  /\ Append(s, e) \in Seq(S)
         /\ Len(s) \in Nat /\ Len(Append(s, e)) = Len(s) + 1
         /\ \A i \in 1 .. Len(s) : Append(s, e)[i] = s[i]
         /\ Append(s, e)[Len(s) + 1] = e
BY AppendProperties, LenProperties

\* The type invariant in the terms above.
LEMMA Types ==
  ASSUME TypeOK
  PROVE  /\ joy \in Seq(JoyMsg) /\ Len(joy) \in Nat
         /\ \A i \in 1 .. Len(joy) : joy[i] \in JoyMsg
         /\ cmd \in Seq(CmdMsg) /\ Len(cmd) \in Nat
         /\ \A i \in 1 .. Len(cmd) : cmd[i] \in CmdMsg
         /\ human \in Source /\ auto \in Source
         /\ motor \in Drive
         /\ released \in Nat /\ overridden \in Nat
         /\ Due \in {0, 1}
<1>1. joy \in Seq(JoyMsg) /\ cmd \in Seq(CmdMsg)
  BY DEF TypeOK, JoyMsg, CmdMsg, Sources
<1>2. /\ Len(joy) \in Nat /\ \A i \in 1 .. Len(joy) : joy[i] \in JoyMsg
      /\ Len(cmd) \in Nat /\ \A i \in 1 .. Len(cmd) : cmd[i] \in CmdMsg
  BY <1>1, LenProperties, ElementOfSeq
<1>3. human \in Source /\ auto \in Source /\ motor \in Drive /\ Due \in {0, 1}
  BY DEF TypeOK, Source, Drive, Sources, Due
<1>4. released \in Nat /\ overridden \in Nat
  BY Constants DEF TypeOK
<1>. QED
  BY <1>1, <1>2, <1>3, <1>4

\* What the operators of time give.
LEMMA Ages ==
  /\ \A age, limit \in Nat : age <= limit =>
       /\ Older(age, limit) \in 0 .. limit
       /\ age <= Older(age, limit) /\ Older(age, limit) <= age + 1
  /\ \A age \in 0 .. ReactionTime + 1 :
       /\ Since(age) \in 0 .. ReactionTime + 1
       /\ Since(age) = 0 <=> age = 0
       /\ age <= Since(age) /\ Since(age) <= age + 1
       /\ Since(age) <= 1 <=> age = 0
  /\ \A d \in Drive \cup CmdMsg :
       /\ OlderDrive(d).from = d.from
       /\ OlderDrive(d).age \in 0 .. StopTime + 1
       /\ d.from # "none" => OlderDrive(d).age <= d.age + 1
  /\ \A d \in Drive : OlderDrive(d) \in Drive
  /\ \A d \in CmdMsg : [OlderDrive(d) EXCEPT !.wait = @ + 1] =
       [from |-> d.from, age |-> OlderDrive(d).age, wait |-> d.wait + 1]
<1> USE Constants
<1>1. \A age, limit \in Nat : age <= limit =>
       /\ Older(age, limit) \in 0 .. limit
       /\ age <= Older(age, limit) /\ Older(age, limit) <= age + 1
  BY DEF Older
<1>2. \A age \in 0 .. ReactionTime + 1 :
       /\ Since(age) \in 0 .. ReactionTime + 1
       /\ Since(age) = 0 <=> age = 0
       /\ age <= Since(age) /\ Since(age) <= age + 1
       /\ Since(age) <= 1 <=> age = 0
  BY DEF Since, Older
<1>3. ASSUME NEW d \in Drive
      PROVE  /\ OlderDrive(d) \in Drive
             /\ OlderDrive(d).from = d.from
             /\ d.from # "none" => OlderDrive(d).age <= d.age + 1
  BY DEF Drive, OlderDrive, Older
<1>4. ASSUME NEW d \in CmdMsg
      PROVE  /\ OlderDrive(d).from = d.from
             /\ OlderDrive(d).age \in 0 .. StopTime + 1
             /\ d.from # "none" => OlderDrive(d).age <= d.age + 1
             /\ [OlderDrive(d) EXCEPT !.wait = @ + 1] =
                  [from |-> d.from, age |-> OlderDrive(d).age, wait |-> d.wait + 1]
  BY DEF CmdMsg, OlderDrive, Older
<1>5. \A d \in Drive : OlderDrive(d).age \in 0 .. StopTime + 1
  BY <1>3 DEF Drive
<1>. QED
  BY <1>1, <1>2, <1>3, <1>4, <1>5

-----------------------------------------------------------------------------
(* What the steps do to what is on its way.                                *)

LEMMA JoyAges ==
  ASSUME NEW m \in JoyMsg, m.age < JoyDelay
  PROVE  /\ [m EXCEPT !.age = @ + 1] =
              [speed |-> m.speed, mode |-> m.mode, age |-> m.age + 1]
         /\ [speed |-> m.speed, mode |-> m.mode, age |-> m.age + 1] \in JoyMsg
BY Constants DEF JoyMsg

LEMMA TickTimes ==
  ASSUME TypeOK, Tick
  PROVE  /\ joy' \in Seq(JoyMsg) /\ Len(joy') = Len(joy)
         /\ \A i \in 1 .. Len(joy) :
              /\ joy'[i] = [speed |-> joy[i].speed, mode |-> joy[i].mode,
                            age |-> joy[i].age + 1]
              /\ joy[i].age < JoyDelay
         /\ cmd' \in Seq(CmdMsg) /\ Len(cmd') = Len(cmd)
         /\ \A i \in 1 .. Len(cmd) :
              /\ cmd'[i].from = cmd[i].from
              /\ cmd[i].from # "none" => cmd'[i].age <= cmd[i].age + 1
              /\ cmd'[i].wait = cmd[i].wait + 1
<1>1. DOMAIN joy = 1 .. Len(joy) /\ DOMAIN cmd = 1 .. Len(cmd)
  BY Types, LenProperties
<1>2. ASSUME NEW i \in 1 .. Len(joy)
      PROVE  /\ joy'[i] = [speed |-> joy[i].speed, mode |-> joy[i].mode,
                           age |-> joy[i].age + 1]
             /\ joy[i].age < JoyDelay
             /\ joy'[i] \in JoyMsg
  <2>1. joy[i] \in JoyMsg
    BY Types
  <2>2. joy'[i] = [joy[i] EXCEPT !.age = @ + 1] /\ joy[i].age < JoyDelay
    BY <1>1 DEF Tick
  <2>. QED
    BY <2>1, <2>2, JoyAges
<1>3. joy' \in Seq(JoyMsg) /\ Len(joy') = Len(joy)
  <2>1. joy' = [i \in DOMAIN joy |-> joy'[i]]
    BY DEF Tick
  <2>2. joy \in Seq(JoyMsg) /\ \A i \in 1 .. Len(joy) : joy'[i] \in JoyMsg
    BY <1>2, Types
  <2>. QED
    BY <2>1, <2>2, MappedSeq
<1>4. ASSUME NEW i \in 1 .. Len(cmd)
      PROVE  /\ cmd'[i].from = cmd[i].from
             /\ cmd[i].from # "none" => cmd'[i].age <= cmd[i].age + 1
             /\ cmd'[i].wait = cmd[i].wait + 1
             /\ cmd'[i] \in CmdMsg
  <2>1. cmd[i] \in CmdMsg
    BY Types
  <2>2. cmd'[i] = [OlderDrive(cmd[i]) EXCEPT !.wait = @ + 1]
    BY <1>1 DEF Tick
  <2>0. cmd[i].wait < CmdDelay
    BY <1>1 DEF Tick
  <2>3. cmd'[i] = [from |-> cmd[i].from, age |-> OlderDrive(cmd[i]).age,
                   wait |-> cmd[i].wait + 1]
    BY <2>1, <2>2, Ages
  <2>4. /\ OlderDrive(cmd[i]).age \in 0 .. StopTime + 1
        /\ cmd[i].from # "none" => OlderDrive(cmd[i]).age <= cmd[i].age + 1
    BY <2>1, Ages
  <2>5. cmd[i].wait + 1 \in 0 .. CmdDelay /\ cmd[i].from \in Sources
    <3>1. cmd[i].wait \in 0 .. CmdDelay /\ cmd[i].from \in Sources
      BY <2>1 DEF CmdMsg
    <3>. QED
      BY <2>0, <3>1, Constants
  <2>6. cmd'[i] \in CmdMsg
    BY <2>3, <2>4, <2>5 DEF CmdMsg
  <2>. QED
    BY <2>3, <2>4, <2>6
<1>5. cmd' \in Seq(CmdMsg) /\ Len(cmd') = Len(cmd)
  <2>1. cmd' = [i \in DOMAIN cmd |-> cmd'[i]]
    BY DEF Tick
  <2>2. cmd \in Seq(CmdMsg) /\ \A i \in 1 .. Len(cmd) : cmd'[i] \in CmdMsg
    BY <1>4, Types
  <2>. QED
    BY <2>1, <2>2, MappedSeq
<1>. QED
  BY <1>2, <1>3, <1>4, <1>5

\* A fresh command is younger than Fresh + Late, and one that is kept stays in
\* its bounds.
LEMMA Freshness ==
  ASSUME TypeOK, SourceInv
  PROVE  /\ Selected \in Drive
         /\ Selected.from # "none" => Selected.age < Fresh + Late
         /\ Selected.from = "auto" => host = "autodrive"
         /\ Selected.from = "human" => host = "humandrive" /\ human # NoCommand
         /\ \A c \in {human, auto} : Aged(c) \in Source
         /\ \A c \in {human, auto} :
              IF Aged(c).stamp < Fresh THEN Aged(c).age <= Aged(c).stamp + Late
                                       ELSE Aged(c) = NoCommand
         /\ Aged(human).stamp >= 0
         /\ human = NoCommand => Aged(human) = NoCommand
<1> USE Constants
<1>1. ASSUME NEW c \in {human, auto}
      PROVE  /\ c.stamp \in Int /\ c.age \in Int /\ 0 <= c.age /\ -Ahead <= c.stamp
             /\ IsFresh(c) => c.age < Fresh + Late /\ c.age \in 0 .. StopTime + 1
             /\ IsFresh(c) => c # NoCommand
             /\ IF c.stamp < Fresh THEN c.age <= c.stamp + Late ELSE c = NoCommand
  <2>1. c \in Source
    BY Types
  <2>2. IF c.stamp < Fresh THEN c.age <= c.stamp + Late ELSE c = NoCommand
    BY DEF SourceInv
  <2>. QED
    BY <2>1, <2>2 DEF IsFresh, NoCommand, Source
<1>2. /\ Selected \in Drive
      /\ Selected.from # "none" => Selected.age < Fresh + Late
      /\ Selected.from = "auto" => host = "autodrive"
      /\ Selected.from = "human" => host = "humandrive" /\ human # NoCommand
  BY <1>1 DEF Selected, Stop, Drive, Sources
<1>3. ASSUME NEW c \in {human, auto}
      PROVE  /\ Aged(c) \in Source
             /\ IF Aged(c).stamp < Fresh THEN Aged(c).age <= Aged(c).stamp + Late
                                         ELSE Aged(c) = NoCommand
             /\ c.stamp >= 0 => Aged(c).stamp >= 0
             /\ c = NoCommand => Aged(c) = NoCommand
  <2>1. CASE c.stamp + 1 < Fresh
    <3>1. Aged(c) = [stamp |-> c.stamp + 1, age |-> c.age + 1]
      BY <2>1 DEF Aged, Command
    <3>2. c.stamp + 1 \in -Ahead .. Fresh /\ c.age + 1 \in 0 .. StopTime
      BY <1>1, <2>1
    <3>. QED
      BY <1>1, <2>1, <3>1, <3>2 DEF Source, NoCommand
  <2>2. CASE ~(c.stamp + 1 < Fresh)
    <3>1. Aged(c) = NoCommand
      BY <2>2 DEF Aged, Command
    <3>. QED
      BY <3>1 DEF Source, NoCommand
  <2>. QED
    BY <2>1, <2>2
<1>. QED
  BY <1>2, <1>3 DEF SourceInv

\* Of what JoyCb and DriveCb keep.
LEMMA Received ==
  /\ NoCommand \in Source
  /\ \A age \in 0 .. JoyDelay :
       /\ Command(0, age) \in Source
       /\ Command(0, age).stamp = 0 /\ Command(0, age).age <= Late
  /\ \A age \in 0 .. DriveDelay : age <= age - Ahead + Ahead
BY Constants DEF NoCommand, Command, Source

-----------------------------------------------------------------------------
(* The invariant, part by part.                                            *)

USE DEF keyboardVars, muxVars, vescVars, userVars, vars

LEMMA InitIInv == Init => IInv
<1> SUFFICES ASSUME Init PROVE IInv
  OBVIOUS
<1> USE Constants DEF Init
<1>1. TypeOK
  <2>1. joy \in Seq(JoyMsg) /\ cmd \in Seq(CmdMsg)
    BY EmptySeq
  <2>2. human \in Source /\ auto \in Source
    BY Received
  <2>3. motor \in Drive /\ 1 \in 0 .. ReactionTime + 1
    BY DEF Stop, Drive, Sources
  <2>. QED
    BY <2>1, <2>2, <2>3 DEF TypeOK, JoyMsg, CmdMsg, Source, Drive, Sources
<1>2. Len(joy) = 0 /\ Len(cmd) = 0
  BY EmptySeq
<1>3. KeyboardInv /\ SourceInv
  BY DEF KeyboardInv, SourceInv, NoCommand
<1>4. CmdInv /\ MotorInv
  BY <1>2 DEF CmdInv, MotorInv, Stop
<1>5. OverrideInv /\ ReleaseInv
  BY <1>2 DEF OverrideInv, ReleaseInv, Ended, Leaving, Stop
<1>. QED
  BY <1>1, <1>3, <1>4, <1>5 DEF IInv

LEMMA StepTypeOK == TypeOK /\ SourceInv /\ [Next]_vars => TypeOK'
<1> SUFFICES ASSUME TypeOK, SourceInv, [Next]_vars PROVE TypeOK'
  OBVIOUS
<1>1. TypeOK <=>
        /\ held \in BOOLEAN /\ speed \in {0, 1} /\ mode \in {"human", "auto"}
        /\ loop \in {"due", "computed", "done"}
        /\ listening \in BOOLEAN /\ keyboard \in BOOLEAN
        /\ joy \in Seq(JoyMsg)
        /\ host \in {"none", "humandrive", "autodrive"}
        /\ human \in Source /\ auto \in Source
        /\ muxLoop \in {"due", "done"} /\ mux \in BOOLEAN
        /\ cmd \in Seq(CmdMsg)
        /\ driver \in {"initializing", "operating"}
        /\ motor \in Drive
        /\ released \in 0 .. ReactionTime + 1 /\ overridden \in 0 .. ReactionTime + 1
  BY DEF TypeOK, JoyMsg, CmdMsg, Source, Drive, Sources
<1>2. TypeOK' <=>
        /\ held' \in BOOLEAN /\ speed' \in {0, 1} /\ mode' \in {"human", "auto"}
        /\ loop' \in {"due", "computed", "done"}
        /\ listening' \in BOOLEAN /\ keyboard' \in BOOLEAN
        /\ joy' \in Seq(JoyMsg)
        /\ host' \in {"none", "humandrive", "autodrive"}
        /\ human' \in Source /\ auto' \in Source
        /\ muxLoop' \in {"due", "done"} /\ mux' \in BOOLEAN
        /\ cmd' \in Seq(CmdMsg)
        /\ driver' \in {"initializing", "operating"}
        /\ motor' \in Drive
        /\ released' \in 0 .. ReactionTime + 1 /\ overridden' \in 0 .. ReactionTime + 1
  BY DEF TypeOK, JoyMsg, CmdMsg, Source, Drive, Sources
<1>3. 0 \in 0 .. ReactionTime + 1 /\ 1 \in 0 .. ReactionTime + 1
  BY Constants
<1>4. CASE User
  BY <1>1, <1>2, <1>3, <1>4
     DEF User, PressUp, ReleaseUp, PressSpace, PressH, PressA, PressQ
<1>5. CASE KeyboardCompute \/ KeyboardDies \/ KeyboardStarts
  BY <1>1, <1>2, <1>3, <1>5 DEF KeyboardCompute, KeyboardDies, KeyboardStarts
<1>6. CASE KeyboardPublish
  <2>1. [speed |-> speed, mode |-> mode, age |-> 0] \in JoyMsg
    BY <1>1, Constants DEF JoyMsg
  <2>2. joy' \in Seq(JoyMsg)
    BY <1>1, <1>6, <2>1, AppendedSeq DEF KeyboardPublish
  <2>. QED
    BY <1>1, <1>2, <1>6, <2>2 DEF KeyboardPublish
<1>7. CASE JoyCb
  <2>1. joy # << >> /\ joy' = Tail(joy)
    BY <1>7 DEF JoyCb
  <2>2. Head(joy) \in JoyMsg /\ joy' \in Seq(JoyMsg)
    BY <1>1, <2>1, TakenSeq
  <2>3. human' \in Source
    BY <1>1, <1>7, <2>2, Received DEF JoyCb, JoyMsg
  <2>. QED
    BY <1>1, <1>2, <1>7, <2>2, <2>3 DEF JoyCb
<1>8. CASE DriveCb
  <2>1. \A age \in 0 .. DriveDelay : Command(age - Ahead, age) \in Source
    BY Constants DEF Command, NoCommand, Source
  <2>. QED
    BY <1>1, <1>2, <1>8, <2>1, Received DEF DriveCb
<1>9. CASE MuxLoop
  <2>1. [from |-> Selected.from, age |-> Selected.age, wait |-> 0] \in CmdMsg
    BY Freshness, Constants DEF Drive, CmdMsg
  <2>2. cmd' \in Seq(CmdMsg)
    BY <1>1, <1>9, <2>1, AppendedSeq DEF MuxLoop
  <2>. QED
    BY <1>1, <1>2, <1>9, <2>2 DEF MuxLoop
<1>10. CASE MuxDies
  BY <1>1, <1>2, <1>10, Received, EmptySeq DEF MuxDies
<1>11. CASE DriverTimer
  BY <1>1, <1>2, <1>11 DEF DriverTimer
<1>12. CASE SpeedCallback
  <2>1. cmd # << >> /\ cmd' = Tail(cmd)
    BY <1>12 DEF SpeedCallback
  <2>2. Head(cmd) \in CmdMsg /\ cmd' \in Seq(CmdMsg)
    BY <1>1, <2>1, TakenSeq
  <2>3. motor' \in Drive
    BY <1>1, <1>12, <2>2 DEF SpeedCallback, Drive, CmdMsg
  <2>. QED
    BY <1>1, <1>2, <1>12, <2>2, <2>3 DEF SpeedCallback
<1>13. CASE Tick
  <2>1. joy' \in Seq(JoyMsg) /\ cmd' \in Seq(CmdMsg)
    BY <1>13, TickTimes
  <2>2. human' \in Source /\ auto' \in Source
    BY <1>13, Freshness DEF Tick
  <2>3. motor' \in Drive
    BY <1>1, <1>13, Ages DEF Tick
  <2>4. released' \in 0 .. ReactionTime + 1 /\ overridden' \in 0 .. ReactionTime + 1
    BY <1>1, <1>13, Ages DEF Tick
  <2>. QED
    BY <1>1, <1>2, <1>13, <2>1, <2>2, <2>3, <2>4 DEF Tick
<1>14. CASE UNCHANGED vars
  BY <1>1, <1>2, <1>14
<1>. QED
  BY <1>4, <1>5, <1>6, <1>7, <1>8, <1>9, <1>10, <1>11, <1>12, <1>13, <1>14
     DEF Next, Keyboard, Mux, Vesc


LEMMA StepKeyboard == TypeOK /\ KeyboardInv /\ [Next]_vars => KeyboardInv'
<1> SUFFICES ASSUME TypeOK, KeyboardInv, [Next]_vars PROVE KeyboardInv'
  OBVIOUS
<1> USE DEF KeyboardInv
<1>1. /\ listening \in BOOLEAN /\ keyboard \in BOOLEAN /\ held \in BOOLEAN
      /\ mode \in {"human", "auto"} /\ released \in Nat /\ overridden \in Nat
  BY Types DEF TypeOK
<1>2. CASE User
  <2>1. CASE PressUp
    BY <1>1, <2>1 DEF PressUp
  <2>2. CASE ReleaseUp
    <3>1. /\ released' = 1 /\ (listening => ~held') /\ keyboard
          /\ UNCHANGED << speed, mode, loop, listening, keyboard, overridden >>
      BY <1>1, <2>2 DEF ReleaseUp
    <3>2. released' # 0 /\ released' <= 1
      BY <3>1
    <3>. QED
      BY <1>1, <3>1, <3>2, Zenon
  <2>3. CASE PressSpace
    BY <1>1, <2>3 DEF PressSpace
  <2>4. CASE PressH
    BY <1>1, <2>4 DEF PressH
  <2>5. CASE PressA
    BY <1>1, <2>5 DEF PressA
  <2>6. CASE PressQ
    BY <1>1, <2>6 DEF PressQ
  <2>. QED
    BY <1>2, <2>1, <2>2, <2>3, <2>4, <2>5, <2>6 DEF User
<1>3. CASE Keyboard
  BY <1>1, <1>3
     DEF Keyboard, KeyboardCompute, KeyboardPublish, KeyboardDies, KeyboardStarts
<1>4. CASE Tick
  <2>1. \A age \in {released, overridden} : Since(age) = 0 <=> age = 0
    BY Ages DEF TypeOK
  <2>2. speed = 0
    BY <1>4 DEF Tick, TypeOK
  <2>. QED
    BY <1>1, <1>4, <2>1, <2>2 DEF Tick
<1>5. CASE Mux \/ Vesc \/ UNCHANGED vars
  BY <1>5 DEF Mux, JoyCb, DriveCb, MuxLoop, MuxDies, Vesc, DriverTimer, SpeedCallback
<1>. QED
  BY <1>2, <1>3, <1>4, <1>5 DEF Next

LEMMA StepSource == TypeOK /\ SourceInv /\ [Next]_vars => SourceInv'
<1> SUFFICES ASSUME TypeOK, SourceInv, [Next]_vars PROVE SourceInv'
  OBVIOUS
<1> DEFINE Bounded(c) ==
      IF c.stamp < Fresh THEN c.age <= c.stamp + Late ELSE c = NoCommand
<1>1. NoCommand.stamp >= 0 /\ Bounded(NoCommand) /\ Bounded(human) /\ Bounded(auto)
  BY Constants DEF NoCommand, SourceInv
<1>2. SUFFICES human'.stamp >= 0 /\ Bounded(human') /\ Bounded(auto')
  BY DEF SourceInv
<1> HIDE DEF Bounded
<1>3. CASE JoyCb
  <2>1. Head(joy) \in JoyMsg
    BY <1>3, Types, TakenSeq DEF JoyCb
  <2>2. Bounded(Command(0, Head(joy).age)) /\ Command(0, Head(joy).age).stamp >= 0
    BY <2>1, Constants DEF Bounded, Command, JoyMsg
  <2>. QED
    BY <1>1, <1>3, <2>2 DEF JoyCb, SourceInv
<1>4. CASE DriveCb
  <2>1. \A age \in 0 .. DriveDelay : Bounded(Command(age - Ahead, age))
    BY Constants DEF Bounded, Command, NoCommand
  <2>. QED
    BY <1>1, <1>4, <2>1 DEF DriveCb, SourceInv
<1>5. CASE MuxDies
  BY <1>1, <1>5 DEF MuxDies
<1>6. CASE Tick
  <2>1. Bounded(Aged(human)) /\ Bounded(Aged(auto)) /\ Aged(human).stamp >= 0
    BY Freshness DEF Bounded
  <2>. QED
    BY <1>6, <2>1 DEF Tick
<1>7. CASE User \/ Keyboard \/ MuxLoop \/ Vesc \/ UNCHANGED vars
  <2>1. UNCHANGED << human, auto >>
    BY <1>7 DEF User, PressUp, ReleaseUp, PressSpace, PressH, PressA, PressQ,
                Keyboard, KeyboardCompute, KeyboardPublish, KeyboardDies,
                KeyboardStarts, MuxLoop, Vesc, DriverTimer, SpeedCallback
  <2>. QED
    BY <1>1, <2>1 DEF SourceInv
<1>. QED
  BY <1>3, <1>4, <1>5, <1>6, <1>7 DEF Next, Mux

LEMMA StepCmd ==
  TypeOK /\ SourceInv /\ CmdInv /\ MotorInv /\ [Next]_vars => CmdInv' /\ MotorInv'
<1> SUFFICES ASSUME TypeOK, SourceInv, CmdInv, MotorInv, [Next]_vars
             PROVE  CmdInv' /\ MotorInv'
  OBVIOUS
<1>0. Len(cmd) \in Nat /\ Due \in Nat
  BY Types
<1>1. /\ Len(cmd) \in Nat /\ \A i \in 1 .. Len(cmd) : cmd[i] \in CmdMsg
      /\ motor \in Drive /\ mux \in BOOLEAN
      /\ driver \in {"initializing", "operating"} /\ Due \in {0, 1}
  BY Types DEF TypeOK
<1>2. CASE MuxLoop
  <2> DEFINE c == [from |-> Selected.from, age |-> Selected.age, wait |-> 0]
  <2>1. c \in CmdMsg /\ (c.from # "none" => c.age < Fresh + Late + c.wait)
    BY Freshness, Constants DEF Drive, CmdMsg
  <2>2. cmd' = Append(cmd, c)
    BY <1>2 DEF MuxLoop
  <2>3. /\ Len(cmd') = Len(cmd) + 1
        /\ \A i \in 1 .. Len(cmd) : cmd'[i] = cmd[i]
        /\ cmd'[Len(cmd) + 1] = c
    BY <2>1, <2>2, Types, AppendedSeq
  <2>4. mux /\ Due = 1 /\ Due' = 0 /\ UNCHANGED << mux, motor, driver >> /\ c.wait = 0
    BY <1>2 DEF MuxLoop, Due
  <2> HIDE DEF c
  <2>5. CmdInv'
    <3>1. ASSUME NEW i \in 1 .. Len(cmd')
          PROVE  /\ cmd'[i].from # "none" => cmd'[i].age < Fresh + Late + cmd'[i].wait
                 /\ cmd'[i].wait = Len(cmd') - i + Due'
      BY <1>1, <2>1, <2>3, <2>4 DEF CmdInv
    <3>. QED
      BY <3>1 DEF CmdInv
  <2>6. MotorInv'
    BY <1>1, <2>3, <2>4, Constants DEF MotorInv, Drive
  <2>. QED
    BY <2>5, <2>6
<1>3. CASE SpeedCallback
  <2>1. cmd # << >> /\ cmd' = Tail(cmd) /\ UNCHANGED << mux, driver >> /\ Due' = Due
    BY <1>3 DEF SpeedCallback, Due
  <2>2. /\ Len(cmd) > 0 /\ Head(cmd) = cmd[1] /\ Len(cmd') = Len(cmd) - 1
        /\ \A i \in 1 .. Len(cmd) - 1 : cmd'[i] = cmd[i + 1]
    BY <2>1, Types, TakenSeq
  <2>3. CmdInv'
    <3>1. ASSUME NEW i \in 1 .. Len(cmd')
          PROVE  /\ cmd'[i].from # "none" => cmd'[i].age < Fresh + Late + cmd'[i].wait
                 /\ mux' => cmd'[i].wait = Len(cmd') - i + Due'
      <4>1. i \in Nat /\ i + 1 \in 1 .. Len(cmd) /\ cmd'[i] = cmd[i + 1]
        BY <1>1, <2>2
      <4>2. /\ cmd[i + 1].from # "none" =>
                 cmd[i + 1].age < Fresh + Late + cmd[i + 1].wait
            /\ mux => cmd[i + 1].wait = Len(cmd) - (i + 1) + Due
        BY <4>1 DEF CmdInv
      <4>3. Len(cmd) - (i + 1) + Due = Len(cmd') - i + Due'
        <5>1. Due' = Due /\ Len(cmd') = Len(cmd) - 1 /\ i \in Nat
          BY <2>1, <2>2, <4>1
        <5>. QED
          BY <1>0, <5>1
      <4>. QED
        BY <2>1, <4>1, <4>2, <4>3
    <3>. QED
      BY <3>1 DEF CmdInv
  <2>4. MotorInv'
    <3>1. motor' = IF driver = "operating"
                   THEN [from |-> cmd[1].from, age |-> cmd[1].age] ELSE motor
      BY <1>3, <2>2 DEF SpeedCallback
    <3>2. /\ 1 \in 1 .. Len(cmd)
          /\ cmd[1].from # "none" => cmd[1].age < Fresh + Late + cmd[1].wait
          /\ mux => cmd[1].wait = Len(cmd) - 1 + Due
      BY <1>1, <2>2 DEF CmdInv
    <3>3. CASE driver = "operating"
      <4>1. motor'.from = cmd[1].from /\ motor'.age = cmd[1].age
        BY <3>1, <3>3
      <4>2. cmd[1].wait \in Nat /\ cmd[1].age \in Nat
        BY <1>1, <3>2, Constants DEF CmdMsg
      <4>3. Len(cmd) - 1 + Due = Len(cmd') + Due' /\ Len(cmd') + Due' \in Nat
        <5>1. Due' = Due /\ Len(cmd') = Len(cmd) - 1 /\ Len(cmd) > 0
          BY <2>1, <2>2
        <5>. QED
          BY <1>0, <5>1
      <4>4. mux' /\ motor'.from # "none" => motor'.age < Fresh + Late + (Len(cmd') + Due')
        BY <2>1, <3>2, <4>1, <4>2, <4>3
      <4>5. Fresh + Late + (Len(cmd') + Due') = Fresh + Late + Len(cmd') + Due'
        <5>1. Due' = Due /\ Len(cmd') = Len(cmd) - 1
          BY <2>1, <2>2
        <5>. QED
          BY <1>0, <5>1, Constants
      <4>. QED
        BY <2>1, <3>3, <4>4, <4>5 DEF MotorInv
    <3>4. CASE driver = "initializing"
      BY <2>1, <3>1, <3>4 DEF MotorInv
    <3>. QED
      BY <1>1, <3>3, <3>4
  <2>. QED
    BY <2>3, <2>4
<1>4. CASE Tick
  <2>1. /\ Len(cmd') = Len(cmd)
        /\ \A i \in 1 .. Len(cmd) :
             /\ cmd'[i].from = cmd[i].from
             /\ cmd[i].from # "none" => cmd'[i].age <= cmd[i].age + 1
             /\ cmd'[i].wait = cmd[i].wait + 1
        /\ cmd' \in Seq(CmdMsg)
    BY <1>4, TickTimes
  <2>2. \A i \in 1 .. Len(cmd) : cmd'[i] \in CmdMsg
    BY <2>1, ElementOfSeq
  <2>3. UNCHANGED << mux, driver >> /\ (mux => Due = 0 /\ Due' = 1)
    BY <1>4 DEF Tick, Due
  <2>4. CmdInv'
    <3>1. ASSUME NEW i \in 1 .. Len(cmd)
          PROVE  /\ cmd'[i].from # "none" => cmd'[i].age < Fresh + Late + cmd'[i].wait
                 /\ mux' => cmd'[i].wait = Len(cmd') - i + Due'
      <4>1. /\ cmd[i].age \in Nat /\ cmd[i].wait \in Nat
            /\ cmd'[i].age \in Nat /\ cmd'[i].wait \in Nat
        <5>1. cmd[i] \in CmdMsg /\ cmd'[i] \in CmdMsg
          BY <1>1, <2>2
        <5>2. /\ cmd[i].age \in 0 .. StopTime + 1 /\ cmd[i].wait \in 0 .. CmdDelay
              /\ cmd'[i].age \in 0 .. StopTime + 1 /\ cmd'[i].wait \in 0 .. CmdDelay
          BY <5>1 DEF CmdMsg
        <5>. QED
          BY <5>2
      <4>2. /\ cmd[i].from # "none" => cmd[i].age < Fresh + Late + cmd[i].wait
            /\ mux => cmd[i].wait = Len(cmd) - i + Due
        BY DEF CmdInv
      <4>3. /\ cmd'[i].from = cmd[i].from
            /\ cmd[i].from # "none" => cmd'[i].age <= cmd[i].age + 1
            /\ cmd'[i].wait = cmd[i].wait + 1
            /\ Len(cmd') = Len(cmd)
        BY <2>1
      <4>. QED
        BY <1>1, <2>3, <4>1, <4>2, <4>3, Constants
    <3>. QED
      BY <2>1, <3>1 DEF CmdInv
  <2>5. MotorInv'
    <3>1. /\ motor'.from = motor.from
          /\ motor.from # "none" => motor'.age <= motor.age + 1
          /\ motor'.age \in Nat /\ motor.age \in Nat
      BY <1>1, <1>4, Ages, Constants DEF Tick, Drive
    <3>. QED
      BY <1>1, <2>1, <2>3, <3>1, Constants DEF MotorInv
  <2>. QED
    BY <2>4, <2>5
<1>5. CASE MuxDies
  <2>1. ~mux' /\ UNCHANGED << cmd, motor, driver >>
    BY <1>5 DEF MuxDies
  <2>. QED
    BY <2>1 DEF CmdInv, MotorInv
<1>7. CASE DriverTimer
  <2>1. driver' = "operating" /\ UNCHANGED << cmd, motor, mux, muxLoop >>
    BY <1>7 DEF DriverTimer
  <2>. QED
    BY <2>1 DEF CmdInv, MotorInv, Due
<1>6. CASE User \/ Keyboard \/ JoyCb \/ DriveCb \/ UNCHANGED vars
  <2>1. UNCHANGED << cmd, mux, muxLoop, motor, driver >>
    BY <1>6 DEF User, PressUp, ReleaseUp, PressSpace, PressH, PressA, PressQ,
                Keyboard, KeyboardCompute, KeyboardPublish, KeyboardDies,
                KeyboardStarts, JoyCb, DriveCb
  <2>. QED
    BY <2>1 DEF CmdInv, MotorInv, Due
<1>. QED
  BY <1>2, <1>3, <1>4, <1>5, <1>6, <1>7 DEF Next, Mux, Vesc


-----------------------------------------------------------------------------
(* What the user ends.                                                     *)

LEMMA JoyAge ==
  ASSUME NEW q \in Seq(JoyMsg)
  PROVE  /\ Len(q) \in Nat
         /\ \A i \in 1 .. Len(q) : q[i].age \in Nat /\ q[i].age <= JoyDelay
<1>1. ASSUME NEW i \in 1 .. Len(q) PROVE q[i].age \in Nat /\ q[i].age <= JoyDelay
  <2>1. q[i] \in JoyMsg
    BY ElementOfSeq
  <2>. QED
    BY <2>1, Constants DEF JoyMsg
<1>. QED
  BY <1>1, LenProperties

LEMMA CmdWait ==
  ASSUME NEW q \in Seq(CmdMsg)
  PROVE  /\ Len(q) \in Nat
         /\ \A i \in 1 .. Len(q) : q[i].wait \in Nat
<1>1. ASSUME NEW i \in 1 .. Len(q) PROVE q[i].wait \in Nat
  <2>1. q[i] \in CmdMsg
    BY ElementOfSeq
  <2>. QED
    BY <2>1, Constants DEF CmdMsg
<1>. QED
  BY <1>1, LenProperties

LEMMA EndedAtOnce ==
  ASSUME NEW S, NEW q \in Seq(JoyMsg), NEW since \in Nat, since <= 1,
         NEW out, NEW publishing
  PROVE  Ended(S, since, out, q, publishing)
<1>1. \A i \in 1 .. Len(q) : q[i].age \in Nat
  BY JoyAge
<1>. QED
  BY <1>1 DEF Ended

LEMMA EndedPublish ==
  ASSUME NEW S, NEW q \in Seq(JoyMsg), NEW m \in JoyMsg, m.age = 0,
         NEW since \in Nat, m \in S => since <= 1, NEW out, NEW publishing,
         Ended(S, since, out, q, publishing), NEW publishing2
  PROVE  Ended(S, since, out, Append(q, m), publishing2)
<1> DEFINE r == Append(q, m)
<1>1. /\ Len(q) \in Nat /\ Len(r) = Len(q) + 1
      /\ \A i \in 1 .. Len(q) : r[i] = q[i]
      /\ r[Len(q) + 1] = m
  BY AppendedSeq
<1> HIDE DEF r
<1>2. \A i \in 1 .. Len(r) : r[i] \in S => since <= r[i].age + 1
  BY <1>1 DEF Ended
<1>3. CASE since <= 1
  BY <1>2, <1>3 DEF Ended, r
<1>4. CASE since = 2
  <2>1. /\ Len(r) \in 1 .. Len(r) /\ since <= r[Len(r)].age + 2
        /\ \A j \in Len(r) .. Len(r) : r[j] \notin S
    BY <1>1, <1>4
  <2>. QED
    BY <1>2, <2>1 DEF Ended, r
<1>5. CASE ~(since <= 1) /\ out /\ \A i \in 1 .. Len(q) : q[i] \notin S
  <2>1. \A i \in 1 .. Len(r) : r[i] \notin S
    BY <1>1, <1>5
  <2>. QED
    BY <1>2, <1>5, <2>1 DEF Ended, r
<1>6. CASE ~(since <= 1) /\ \E i \in 1 .. Len(q) :
             since <= q[i].age + 2 /\ \A j \in i .. Len(q) : q[j] \notin S
  <2>1. PICK i \in 1 .. Len(q) :
             since <= q[i].age + 2 /\ \A j \in i .. Len(q) : q[j] \notin S
    BY <1>6
  <2>2. i \in 1 .. Len(r) /\ since <= r[i].age + 2
    BY <1>1, <2>1
  <2>3. \A j \in i .. Len(r) : r[j] \notin S
    BY <1>1, <1>6, <2>1
  <2>. QED
    BY <1>2, <2>2, <2>3 DEF Ended, r
<1>. QED
  BY <1>3, <1>4, <1>5, <1>6 DEF Ended

LEMMA EndedTake ==
  ASSUME NEW S, NEW q \in Seq(JoyMsg), q # << >>, NEW since \in Nat,
         NEW out, NEW out2, Head(q) \notin S => out2, NEW publishing,
         Ended(S, since, out, q, publishing)
  PROVE  Ended(S, since, out2, Tail(q), publishing)
<1> DEFINE r == Tail(q)
<1>1. /\ Len(q) \in Nat /\ Len(q) > 0 /\ Head(q) = q[1]
      /\ Len(r) = Len(q) - 1
      /\ \A i \in 1 .. Len(q) - 1 : r[i] = q[i + 1]
  BY TakenSeq
<1> HIDE DEF r
<1>2. \A i \in 1 .. Len(r) : r[i] \in S => since <= r[i].age + 1
  BY <1>1 DEF Ended
<1>3. CASE since <= 1 \/ (since = 2 /\ publishing)
  BY <1>2, <1>3 DEF Ended, r
<1>4. CASE out /\ \A i \in 1 .. Len(q) : q[i] \notin S
  <2>1. out2 /\ \A i \in 1 .. Len(r) : r[i] \notin S
    BY <1>1, <1>4
  <2>. QED
    BY <1>2, <2>1 DEF Ended, r
<1>5. CASE \E i \in 1 .. Len(q) :
             since <= q[i].age + 2 /\ \A j \in i .. Len(q) : q[j] \notin S
  <2>1. PICK i \in 1 .. Len(q) :
             since <= q[i].age + 2 /\ \A j \in i .. Len(q) : q[j] \notin S
    BY <1>5
  <2>2. CASE i = 1
    <3>1. out2 /\ \A j \in 1 .. Len(r) : r[j] \notin S
      BY <1>1, <2>1, <2>2
    <3>. QED
      BY <1>2, <3>1 DEF Ended, r
  <2>3. CASE i > 1
    <3>1. i - 1 \in 1 .. Len(r) /\ r[i - 1] = q[i]
      BY <1>1, <2>3
    <3>2. \A j \in i - 1 .. Len(r) : r[j] \notin S
      BY <1>1, <2>1, <2>3
    <3>. QED
      BY <1>2, <2>1, <3>1, <3>2 DEF Ended, r
  <2>. QED
    BY <2>2, <2>3
<1>. QED
  BY <1>3, <1>4, <1>5 DEF Ended

LEMMA EndedTick ==
  ASSUME NEW S, NEW q \in Seq(JoyMsg), NEW r \in Seq(JoyMsg), Len(r) = Len(q),
         \A i \in 1 .. Len(q) :
           /\ r[i].age = q[i].age + 1
           /\ r[i] \in S <=> q[i] \in S,
         NEW since \in Nat, NEW later \in Nat, later <= since + 1,
         NEW out, NEW out2, out => out2, NEW publishing, NEW publishing2,
         later <= 1 \/ (later = 2 /\ publishing2) \/ since >= 2, ~publishing,
         Ended(S, since, out, q, publishing)
  PROVE  Ended(S, later, out2, r, publishing2)
<1>1. Len(q) \in Nat /\ \A i \in 1 .. Len(q) : q[i].age \in Nat
  BY JoyAge
<1>2. \A i \in 1 .. Len(r) : r[i] \in S => later <= r[i].age + 1
  BY <1>1 DEF Ended
<1>3. CASE later <= 1 \/ (later = 2 /\ publishing2)
  BY <1>2, <1>3 DEF Ended
<1>4. CASE out /\ \A i \in 1 .. Len(q) : q[i] \notin S
  BY <1>2, <1>4 DEF Ended
<1>5. CASE \E i \in 1 .. Len(q) :
             since <= q[i].age + 2 /\ \A j \in i .. Len(q) : q[j] \notin S
  <2>1. PICK i \in 1 .. Len(q) :
             since <= q[i].age + 2 /\ \A j \in i .. Len(q) : q[j] \notin S
    BY <1>5
  <2>2. i \in 1 .. Len(r) /\ later <= r[i].age + 2
    BY <1>1, <2>1
  <2>3. \A j \in i .. Len(r) : r[j] \notin S
    BY <1>1, <2>1
  <2>. QED
    BY <1>2, <2>2, <2>3 DEF Ended
<1>. QED
  BY <1>3, <1>4, <1>5 DEF Ended

\* Whoever is not out of it yet will be soon.
LEMMA EndedSoon ==
  ASSUME NEW S, NEW q \in Seq(JoyMsg), NEW since \in Nat, NEW publishing,
         NEW out, ~out, Ended(S, since, out, q, publishing)
  PROVE  since <= JoyDelay + 2
<1>1. \A i \in 1 .. Len(q) : q[i].age \in Nat /\ q[i].age <= JoyDelay
  BY JoyAge
<1>2. JoyDelay \in Nat
  BY Constants
<1>. QED
  BY <1>1, <1>2 DEF Ended

LEMMA LeavingAtOnce ==
  ASSUME NEW source, NEW q \in Seq(CmdMsg), NEW since \in Nat, since <= 1,
         NEW from, NEW due \in Nat
  PROVE  Leaving(source, since, q, from, due)
<1>1. Len(q) \in Nat /\ \A i \in 1 .. Len(q) : q[i].wait \in Nat
  BY CmdWait
<1>2. JoyDelay \in Nat
  BY Constants
<1>. QED
  BY <1>1, <1>2 DEF Leaving

LEMMA LeavingSend ==
  ASSUME NEW source, NEW q \in Seq(CmdMsg), NEW c \in CmdMsg, c.wait = 0,
         NEW since \in Nat, c.from = source => since <= JoyDelay + 2,
         NEW from, Leaving(source, since, q, from, 1)
  PROVE  Leaving(source, since, Append(q, c), from, 0)
<1> DEFINE r == Append(q, c)
<1>1. /\ Len(q) \in Nat /\ Len(r) = Len(q) + 1
      /\ \A i \in 1 .. Len(q) : r[i] = q[i]
      /\ r[Len(q) + 1] = c
  BY AppendedSeq
<1> HIDE DEF r
<1>2. \A i \in 1 .. Len(r) : r[i].from = source => since <= r[i].wait + JoyDelay + 2
  BY <1>1, Constants DEF Leaving
<1>3. from = source => since <= Len(r) + 0 + JoyDelay + 2
  BY <1>1, Constants DEF Leaving
<1>. QED
  BY <1>2, <1>3 DEF Leaving, r

LEMMA LeavingTake ==
  ASSUME NEW source, NEW q \in Seq(CmdMsg), q # << >>, NEW since \in Nat,
         NEW due \in Nat, q[1].wait = Len(q) - 1 + due,
         NEW from, NEW from2, from2 = q[1].from \/ from2 # source,
         Leaving(source, since, q, from, due)
  PROVE  Leaving(source, since, Tail(q), from2, due)
<1> DEFINE r == Tail(q)
<1>1. /\ Len(q) \in Nat /\ Len(q) > 0
      /\ Len(r) = Len(q) - 1
      /\ \A i \in 1 .. Len(q) - 1 : r[i] = q[i + 1]
  BY TakenSeq
<1> HIDE DEF r
<1>2. \A i \in 1 .. Len(r) : r[i].from = source => since <= r[i].wait + JoyDelay + 2
  BY <1>1 DEF Leaving
<1>3. from2 = source => since <= Len(r) + due + JoyDelay + 2
  <2>1. 1 \in 1 .. Len(q) /\ JoyDelay \in Nat
    BY <1>1, Constants
  <2>2. from2 = source => since <= q[1].wait + JoyDelay + 2
    BY <2>1 DEF Leaving
  <2>. QED
    BY <1>1, <2>1, <2>2
<1>. QED
  BY <1>2, <1>3 DEF Leaving, r

LEMMA LeavingTick ==
  ASSUME NEW source, NEW q \in Seq(CmdMsg), NEW r \in Seq(CmdMsg), Len(r) = Len(q),
         \A i \in 1 .. Len(q) :
           r[i].from = q[i].from /\ r[i].wait = q[i].wait + 1,
         NEW since \in Nat, NEW later \in Nat, later <= since + 1,
         NEW from, Leaving(source, since, q, from, 0)
  PROVE  Leaving(source, later, r, from, 1)
<1>1. Len(q) \in Nat /\ JoyDelay \in Nat
  BY CmdWait, Constants
<1>2. ASSUME NEW i \in 1 .. Len(r), r[i].from = source
      PROVE  later <= r[i].wait + JoyDelay + 2
  <2>1. q[i].wait \in Nat /\ r[i].wait = q[i].wait + 1
    BY CmdWait
  <2>2. since <= q[i].wait + JoyDelay + 2
    BY <1>2 DEF Leaving
  <2>. QED
    BY <1>1, <2>1, <2>2
<1>3. ASSUME from = source PROVE later <= Len(r) + 1 + JoyDelay + 2
  <2>1. since <= Len(q) + 0 + JoyDelay + 2
    BY <1>3 DEF Leaving
  <2>. QED
    BY <1>1, <2>1
<1>. QED
  BY <1>2, <1>3 DEF Leaving


LEMMA StepOverride ==
  /\ TypeOK /\ KeyboardInv /\ SourceInv /\ CmdInv /\ MotorInv /\ OverrideInv
  /\ [Next]_vars
  => OverrideInv'
<1> SUFFICES ASSUME TypeOK, KeyboardInv, SourceInv, CmdInv, MotorInv, OverrideInv,
                    [Next]_vars, keyboard', mux'
             PROVE  /\ Ended(AutoJoy, overridden', host' # "autodrive", joy',
                             loop' # "done")
                    /\ Leaving("auto", overridden', cmd', motor'.from, Due')
  BY DEF OverrideInv
<1>1. TypeOK'
  BY StepTypeOK
<1>2. /\ joy \in Seq(JoyMsg) /\ cmd \in Seq(CmdMsg) /\ overridden \in Nat
      /\ Due \in Nat
      /\ joy' \in Seq(JoyMsg) /\ cmd' \in Seq(CmdMsg) /\ overridden' \in Nat
      /\ Due' \in Nat
  <2>1. joy' \in Seq(JoyMsg) /\ cmd' \in Seq(CmdMsg)
    BY <1>1 DEF TypeOK, JoyMsg, CmdMsg, Sources
  <2>2. overridden' \in Nat
    BY <1>1, Constants DEF TypeOK
  <2>3. Due' \in Nat /\ Due \in Nat
    BY DEF Due
  <2>. QED
    BY Types, <2>1, <2>2, <2>3
<1>3. keyboard /\ mux =>
        /\ Ended(AutoJoy, overridden, host # "autodrive", joy, loop # "done")
        /\ Leaving("auto", overridden, cmd, motor.from, Due)
  BY DEF OverrideInv
<1>4. CASE PressH \/ PressA \/ KeyboardStarts
  <2>1. overridden' \in {0, 1}
    BY <1>4 DEF PressH, PressA, KeyboardStarts
  <2>2. overridden' <= 1
    BY <2>1
  <2>. QED
    BY <1>2, <2>2, EndedAtOnce, LeavingAtOnce
<1>5. CASE KeyboardPublish
  <2> DEFINE m == [speed |-> speed, mode |-> mode, age |-> 0]
  <2>1. m \in JoyMsg /\ m.age = 0 /\ (m \in AutoJoy => overridden <= 1)
    BY <1>5, Constants DEF KeyboardPublish, KeyboardInv, TypeOK, JoyMsg, AutoJoy
  <2>2. /\ keyboard /\ mux /\ joy' = Append(joy, m)
        /\ UNCHANGED << host, cmd, motor, overridden >> /\ Due' = Due
    BY <1>5 DEF KeyboardPublish, Due
  <2> HIDE DEF m
  <2>3. Ended(AutoJoy, overridden, host # "autodrive", joy', loop' # "done")
    BY <1>2, <1>3, <2>1, <2>2, EndedPublish
  <2>. QED
    BY <1>3, <2>2, <2>3
<1>6. CASE JoyCb
  <2>1. /\ joy # << >> /\ joy' = Tail(joy) /\ mux
        /\ UNCHANGED << keyboard, cmd, motor, overridden, loop >> /\ Due' = Due
    BY <1>6 DEF JoyCb, Due
  <2>2. Head(joy) \notin AutoJoy => host' # "autodrive"
    <3>1. Head(joy) \in JoyMsg
      BY <1>2, <2>1, TakenSeq
    <3>2. Head(joy).mode = "auto" => Head(joy) \in AutoJoy
      BY <3>1, Constants DEF JoyMsg, AutoJoy
    <3>3. Head(joy).mode \in {"human", "auto"}
      BY <3>1 DEF JoyMsg
    <3>. QED
      BY <1>6, <3>2, <3>3 DEF JoyCb
  <2>3. Ended(AutoJoy, overridden, host' # "autodrive", joy', loop # "done")
    BY <1>2, <1>3, <2>1, <2>2, EndedTake
  <2>. QED
    BY <1>3, <2>1, <2>3
<1>7. CASE MuxLoop
  <2> DEFINE c == [from |-> Selected.from, age |-> Selected.age, wait |-> 0]
  <2>1. c \in CmdMsg /\ c.wait = 0
    BY Freshness, Constants DEF Drive, CmdMsg
  <2>2. /\ mux /\ cmd' = Append(cmd, c) /\ Due = 1 /\ Due' = 0
        /\ UNCHANGED << keyboard, joy, host, motor, overridden, loop >>
    BY <1>7 DEF MuxLoop, Due
  <2>3. c.from = "auto" => overridden <= JoyDelay + 2
    <3>1. c.from = "auto" => host = "autodrive"
      BY Freshness
    <3>. QED
      BY <1>2, <1>3, <2>2, <3>1, EndedSoon
  <2> HIDE DEF c
  <2>4. Leaving("auto", overridden, cmd', motor.from, 0)
    BY <1>2, <1>3, <2>1, <2>2, <2>3, LeavingSend
  <2>. QED
    BY <1>3, <2>2, <2>4
<1>8. CASE SpeedCallback
  <2>1. /\ cmd # << >> /\ cmd' = Tail(cmd)
        /\ UNCHANGED << keyboard, mux, joy, host, overridden, loop >> /\ Due' = Due
    BY <1>8 DEF SpeedCallback, Due
  <2>2. /\ Head(cmd) = cmd[1] /\ 1 \in 1 .. Len(cmd)
    BY <1>2, <2>1, TakenSeq
  <2>3. cmd[1].wait = Len(cmd) - 1 + Due
    BY <2>1, <2>2 DEF CmdInv
  <2>4. motor'.from = cmd[1].from \/ motor'.from # "auto"
    <3>1. CASE driver = "operating"
      BY <1>8, <2>2, <3>1 DEF SpeedCallback
    <3>2. CASE driver = "initializing"
      BY <1>8, <3>2 DEF SpeedCallback, MotorInv
    <3>. QED
      BY <3>1, <3>2 DEF TypeOK
  <2>5. Leaving("auto", overridden, cmd', motor'.from, Due)
    BY <1>2, <1>3, <2>1, <2>3, <2>4, LeavingTake
  <2>. QED
    BY <1>3, <2>1, <2>5
<1>9. CASE Tick
  <2>1. /\ keyboard /\ mux /\ loop = "done" /\ loop' = "due"
        /\ Due = 0 /\ Due' = 1 /\ host' = host /\ overridden' = Since(overridden)
    BY <1>9 DEF Tick, Due
  <2>2. overridden' <= overridden + 1 /\ (overridden' <= 1 \/ overridden' = 2 \/ overridden >= 2)
    <3>1. overridden \in 0 .. ReactionTime + 1
      BY DEF TypeOK
    <3>. QED
      BY <1>2, <2>1, <3>1, Ages
  <2>3. motor'.from = motor.from
    BY <1>9, Types, Ages DEF Tick
  <2>4. /\ Len(joy') = Len(joy)
        /\ \A i \in 1 .. Len(joy) :
             /\ joy'[i].age = joy[i].age + 1
             /\ joy'[i] \in AutoJoy <=> joy[i] \in AutoJoy
    <3>1. ASSUME NEW i \in 1 .. Len(joy)
          PROVE  /\ joy'[i].age = joy[i].age + 1
                 /\ joy'[i] \in AutoJoy <=> joy[i] \in AutoJoy
      <4>1. joy[i] \in JoyMsg
        BY Types
      <4>2. joy'[i] = [speed |-> joy[i].speed, mode |-> joy[i].mode,
                       age |-> joy[i].age + 1]
        BY <1>9, TickTimes
      <4>. QED
        BY <4>1, <4>2, Constants DEF JoyMsg, AutoJoy
    <3>. QED
      BY <1>9, <3>1, TickTimes
  <2>5. /\ Len(cmd') = Len(cmd)
        /\ \A i \in 1 .. Len(cmd) :
             cmd'[i].from = cmd[i].from /\ cmd'[i].wait = cmd[i].wait + 1
    BY <1>9, TickTimes
  <2>6. Ended(AutoJoy, overridden', host # "autodrive", joy', loop' # "done")
    BY <1>2, <1>3, <2>1, <2>2, <2>4, EndedTick
  <2>7. Leaving("auto", overridden', cmd', motor.from, 1)
    BY <1>2, <1>3, <2>1, <2>2, <2>5, LeavingTick
  <2>. QED
    BY <2>1, <2>3, <2>6, <2>7
<1>10. CASE \/ PressUp \/ ReleaseUp \/ PressSpace \/ PressQ \/ KeyboardCompute
            \/ DriveCb \/ DriverTimer \/ UNCHANGED vars
  <2>1. /\ UNCHANGED << keyboard, mux, joy, host, cmd, motor, overridden >> /\ Due' = Due
        /\ (loop' = "done" <=> loop = "done")
    BY <1>10 DEF PressUp, ReleaseUp, PressSpace, PressQ, KeyboardCompute, DriveCb,
                 DriverTimer, Due
  <2>. QED
    BY <1>3, <2>1 DEF Ended
<1>11. CASE KeyboardDies \/ MuxDies
  BY <1>11 DEF KeyboardDies, MuxDies
<1>. QED
  BY <1>4, <1>5, <1>6, <1>7, <1>8, <1>9, <1>10, <1>11
     DEF Next, User, Keyboard, Mux, Vesc


LEMMA StepRelease ==
  /\ TypeOK /\ KeyboardInv /\ SourceInv /\ CmdInv /\ MotorInv /\ ReleaseInv
  /\ [Next]_vars
  => ReleaseInv'
<1> DEFINE out == host # "humandrive" \/ human = NoCommand
<1> SUFFICES ASSUME TypeOK, KeyboardInv, SourceInv, CmdInv, MotorInv, ReleaseInv,
                    [Next]_vars, listening', mux'
             PROVE  /\ Ended(DriveJoy, released', out', joy', loop' # "done")
                    /\ Leaving("human", released', cmd', motor'.from, Due')
  BY DEF ReleaseInv
<1>1. TypeOK'
  BY StepTypeOK
<1>2. /\ joy \in Seq(JoyMsg) /\ cmd \in Seq(CmdMsg) /\ released \in Nat
      /\ Due \in Nat
      /\ joy' \in Seq(JoyMsg) /\ cmd' \in Seq(CmdMsg) /\ released' \in Nat
      /\ Due' \in Nat
  <2>1. joy' \in Seq(JoyMsg) /\ cmd' \in Seq(CmdMsg)
    BY <1>1 DEF TypeOK, JoyMsg, CmdMsg, Sources
  <2>2. released' \in Nat
    BY <1>1, Constants DEF TypeOK
  <2>3. Due' \in Nat /\ Due \in Nat
    BY DEF Due
  <2>. QED
    BY Types, <2>1, <2>2, <2>3
<1>3. listening /\ mux =>
        /\ Ended(DriveJoy, released, out, joy, loop # "done")
        /\ Leaving("human", released, cmd, motor.from, Due)
  BY DEF ReleaseInv
<1>4. CASE PressUp \/ ReleaseUp \/ KeyboardStarts
  <2>1. released' \in {0, 1}
    BY <1>4 DEF PressUp, ReleaseUp, KeyboardStarts
  <2>2. released' <= 1
    BY <2>1
  <2>. QED
    BY <1>2, <2>2, EndedAtOnce, LeavingAtOnce
<1>5. CASE KeyboardPublish
  <2> DEFINE m == [speed |-> speed, mode |-> mode, age |-> 0]
  <2>1. m \in JoyMsg /\ m.age = 0 /\ (m \in DriveJoy => released <= 1)
    BY <1>5, Constants DEF KeyboardPublish, KeyboardInv, TypeOK, JoyMsg, DriveJoy
  <2>2. /\ listening /\ mux /\ joy' = Append(joy, m)
        /\ UNCHANGED << host, human, cmd, motor, released >> /\ Due' = Due
    BY <1>5 DEF KeyboardPublish, Due
  <2> HIDE DEF m
  <2>3. Ended(DriveJoy, released, out, joy', loop' # "done")
    BY <1>2, <1>3, <2>1, <2>2, EndedPublish
  <2>. QED
    BY <1>3, <2>2, <2>3
<1>6. CASE JoyCb
  <2>1. /\ joy # << >> /\ joy' = Tail(joy) /\ mux
        /\ UNCHANGED << listening, cmd, motor, released, loop >> /\ Due' = Due
    BY <1>6 DEF JoyCb, Due
  <2>2. Head(joy) \notin DriveJoy => out'
    <3>1. Head(joy) \in JoyMsg
      BY <1>2, <2>1, TakenSeq
    <3>2. Head(joy).mode = "human" /\ Head(joy).speed # 0 => Head(joy) \in DriveJoy
      BY <3>1, Constants DEF JoyMsg, DriveJoy
    <3>. QED
      BY <1>6, <3>2 DEF JoyCb
  <2>3. Ended(DriveJoy, released, out', joy', loop # "done")
    BY <1>2, <1>3, <2>1, <2>2, EndedTake
  <2>. QED
    BY <1>3, <2>1, <2>3
<1>7. CASE MuxLoop
  <2> DEFINE c == [from |-> Selected.from, age |-> Selected.age, wait |-> 0]
  <2>1. c \in CmdMsg /\ c.wait = 0
    BY Freshness, Constants DEF Drive, CmdMsg
  <2>2. /\ mux /\ cmd' = Append(cmd, c) /\ Due = 1 /\ Due' = 0
        /\ UNCHANGED << listening, joy, host, human, motor, released, loop >>
    BY <1>7 DEF MuxLoop, Due
  <2>3. c.from = "human" => released <= JoyDelay + 2
    <3>1. c.from = "human" => ~out
      BY Freshness
    <3>. QED
      BY <1>2, <1>3, <2>2, <3>1, EndedSoon
  <2> HIDE DEF c
  <2>4. Leaving("human", released, cmd', motor.from, 0)
    BY <1>2, <1>3, <2>1, <2>2, <2>3, LeavingSend
  <2>. QED
    BY <1>3, <2>2, <2>4
<1>8. CASE SpeedCallback
  <2>1. /\ cmd # << >> /\ cmd' = Tail(cmd)
        /\ UNCHANGED << listening, mux, joy, host, human, released, loop >>
        /\ Due' = Due
    BY <1>8 DEF SpeedCallback, Due
  <2>2. /\ Head(cmd) = cmd[1] /\ 1 \in 1 .. Len(cmd)
    BY <1>2, <2>1, TakenSeq
  <2>3. cmd[1].wait = Len(cmd) - 1 + Due
    BY <2>1, <2>2 DEF CmdInv
  <2>4. motor'.from = cmd[1].from \/ motor'.from # "human"
    <3>1. CASE driver = "operating"
      BY <1>8, <2>2, <3>1 DEF SpeedCallback
    <3>2. CASE driver = "initializing"
      BY <1>8, <3>2 DEF SpeedCallback, MotorInv
    <3>. QED
      BY <3>1, <3>2 DEF TypeOK
  <2>5. Leaving("human", released, cmd', motor'.from, Due)
    BY <1>2, <1>3, <2>1, <2>3, <2>4, LeavingTake
  <2>. QED
    BY <1>3, <2>1, <2>5
<1>9. CASE Tick
  <2>1. /\ listening /\ mux /\ loop = "done" /\ loop' = "due"
        /\ Due = 0 /\ Due' = 1 /\ host' = host /\ released' = Since(released)
    BY <1>9 DEF Tick, Due, KeyboardInv
  <2>2. released' <= released + 1 /\ (released' <= 1 \/ released' = 2 \/ released >= 2)
    <3>1. released \in 0 .. ReactionTime + 1
      BY DEF TypeOK
    <3>. QED
      BY <1>2, <2>1, <3>1, Ages
  <2>3. motor'.from = motor.from
    BY <1>9, Types, Ages DEF Tick
  <2>4. /\ Len(joy') = Len(joy)
        /\ \A i \in 1 .. Len(joy) :
             /\ joy'[i].age = joy[i].age + 1
             /\ joy'[i] \in DriveJoy <=> joy[i] \in DriveJoy
    <3>1. ASSUME NEW i \in 1 .. Len(joy)
          PROVE  /\ joy'[i].age = joy[i].age + 1
                 /\ joy'[i] \in DriveJoy <=> joy[i] \in DriveJoy
      <4>1. joy[i] \in JoyMsg
        BY Types
      <4>2. joy'[i] = [speed |-> joy[i].speed, mode |-> joy[i].mode,
                       age |-> joy[i].age + 1]
        BY <1>9, TickTimes
      <4>. QED
        BY <4>1, <4>2, Constants DEF JoyMsg, DriveJoy
    <3>. QED
      BY <1>9, <3>1, TickTimes
  <2>5. /\ Len(cmd') = Len(cmd)
        /\ \A i \in 1 .. Len(cmd) :
             cmd'[i].from = cmd[i].from /\ cmd'[i].wait = cmd[i].wait + 1
    BY <1>9, TickTimes
  <2>6. out => out'
    <3>1. human' = Aged(human)
      BY <1>9 DEF Tick
    <3>. QED
      BY <2>1, <3>1, Freshness
  <2>7. Ended(DriveJoy, released', out', joy', loop' # "done")
    BY <1>2, <1>3, <2>1, <2>2, <2>4, <2>6, EndedTick
  <2>8. Leaving("human", released', cmd', motor.from, 1)
    BY <1>2, <1>3, <2>1, <2>2, <2>5, LeavingTick
  <2>. QED
    BY <2>1, <2>3, <2>7, <2>8
<1>10. CASE \/ PressSpace \/ PressH \/ PressA \/ PressQ \/ KeyboardCompute
            \/ DriveCb \/ DriverTimer \/ UNCHANGED vars
  <2>1. /\ UNCHANGED << mux, joy, host, human, cmd, motor, released >> /\ Due' = Due
        /\ (loop' = "done" <=> loop = "done") /\ listening
    BY <1>10 DEF PressSpace, PressH, PressA, PressQ, KeyboardCompute, DriveCb,
                 DriverTimer, Due
  <2>. QED
    BY <1>3, <2>1 DEF Ended
<1>11. CASE KeyboardDies \/ MuxDies
  BY <1>11 DEF KeyboardDies, MuxDies
<1>. QED
  BY <1>4, <1>5, <1>6, <1>7, <1>8, <1>9, <1>10, <1>11
     DEF Next, User, Keyboard, Mux, Vesc

-----------------------------------------------------------------------------
(* The theorems.                                                           *)

LEMMA StepIInv == IInv /\ [Next]_vars => IInv'
BY StepTypeOK, StepKeyboard, StepSource, StepCmd, StepOverride, StepRelease DEF IInv

\* The invariant, whatever the user, the processes and the topics do.
THEOREM Invariance == Spec => []IInv
BY InitIInv, StepIInv, PTL DEF Spec

\* Every variable has its type in every behaviour, and every age its bound:
\* what is on the topics and drives the motor of the nodes.
THEOREM TypeCorrect == Spec => []TypeOK
<1>1. IInv => TypeOK
  BY DEF IInv
<1>. QED
  BY <1>1, Invariance, PTL

\* What is on the way to the motor while the multiplexer runs arrives in time.
LEMMA OnTheWay ==
  ASSUME IInv, mux
  PROVE  Len(cmd) + Due <= CmdDelay + 1
<1>1. Len(cmd) \in Nat /\ Due \in {0, 1} /\ CmdDelay \in Nat
  BY Types, Constants DEF IInv
<1>2. CASE Len(cmd) > 0
  <2>1. 1 \in 1 .. Len(cmd)
    BY <1>1, <1>2
  <2>2. cmd[1].wait = Len(cmd) - 1 + Due
    BY <2>1 DEF IInv, CmdInv
  <2>3. cmd[1].wait <= CmdDelay
    <3>1. cmd[1] \in CmdMsg
      BY <2>1, Types DEF IInv
    <3>. QED
      BY <3>1, <1>1 DEF CmdMsg
  <2>. QED
    BY <1>1, <2>2, <2>3
<1>. QED
  BY <1>1, <1>2

\* While the multiplexer runs, no command drives the motor for longer than the
\* freshness threshold, the delays and the lead of the clock add up to
\* (_is_fresh, _loop): the keyboard node or the controller may die at any time.
THEOREM SilenceStopsTheCar == Spec => []SilenceStops
<1>1. IInv => SilenceStops
  <2> SUFFICES ASSUME IInv, mux, motor.from # "none" PROVE motor.age <= StopTime
    BY DEF SilenceStops
  <2>1. motor.age < Fresh + Late + Len(cmd) + Due
    BY DEF IInv, MotorInv
  <2>2. Len(cmd) + Due <= CmdDelay + 1
    BY OnTheWay
  <2>3. /\ Len(cmd) \in Nat /\ Due \in {0, 1} /\ motor \in Drive
        /\ Fresh \in Nat /\ Late \in Nat /\ CmdDelay \in Nat
        /\ StopTime = Fresh + Late + CmdDelay
    BY Types, Constants DEF IInv
  <2>4. motor.age \in Nat
    BY <2>3 DEF Drive
  <2>. QED
    BY <2>1, <2>2, <2>3, <2>4
<1>. QED
  BY <1>1, Invariance, PTL

\* Within ReactionTime of the H key the controller has lost the motor
\* (PressH, _joy_cb), whatever was under way from either when it was pressed.
THEOREM HumanOverridesController == Spec => []HumanOverrides
<1>1. IInv => HumanOverrides
  <2>0. IInv => overridden \in Nat /\ ReactionTime \in Nat
    BY Types, Constants DEF IInv
  <2> SUFFICES ASSUME IInv, keyboard, mux, motor.from = "auto"
               PROVE  overridden <= ReactionTime
    BY <2>0 DEF HumanOverrides
  <2>1. overridden <= Len(cmd) + Due + JoyDelay + 2
    BY DEF IInv, OverrideInv, Leaving
  <2>2. Len(cmd) + Due <= CmdDelay + 1
    BY OnTheWay
  <2>3. /\ Len(cmd) \in Nat /\ Due \in {0, 1} /\ overridden \in Nat
        /\ JoyDelay \in Nat /\ CmdDelay \in Nat
        /\ ReactionTime = JoyDelay + CmdDelay + 3
    BY Types, Constants DEF IInv
  <2>. QED
    BY <2>1, <2>2, <2>3
<1>. QED
  BY <1>1, Invariance, PTL

\* Within ReactionTime of the release of Up the car stands, while the listener
\* thread of the keyboard node runs: what the run that ends with Q refutes of
\* the comment "resets on release", holds until then.
THEOREM ReleaseStopsTheCar == Spec => []ReleaseStops
<1>1. IInv => ReleaseStops
  <2>0. IInv => released \in Nat /\ ReactionTime \in Nat
    BY Types, Constants DEF IInv
  <2> SUFFICES ASSUME IInv, listening, mux, motor.from = "human"
               PROVE  released <= ReactionTime
    BY <2>0 DEF ReleaseStops, ResetsOnRelease
  <2>1. released <= Len(cmd) + Due + JoyDelay + 2
    BY DEF IInv, ReleaseInv, Leaving
  <2>2. Len(cmd) + Due <= CmdDelay + 1
    BY OnTheWay
  <2>3. /\ Len(cmd) \in Nat /\ Due \in {0, 1} /\ released \in Nat
        /\ JoyDelay \in Nat /\ CmdDelay \in Nat
        /\ ReactionTime = JoyDelay + CmdDelay + 3
    BY Types, Constants DEF IInv
  <2>. QED
    BY <2>1, <2>2, <2>3
<1>. QED
  BY <1>1, Invariance, PTL

-----------------------------------------------------------------------------
(* The search for frames, whatever the bytes are.                          *)

\* A set that has the last position, and each one if it has all those after it,
\* has them all: it takes the place of an induction.
LEMMA Downward ==
  ASSUME NEW last \in Nat \ {0}, NEW S,
         \A i \in 1 .. last : (\A j \in i + 1 .. last : j \in S) => i \in S
  PROVE  1 .. last \subseteq S
<1> DEFINE T == {m \in Nat : m < last /\ last - m \notin S}
           R == OpToRel(<, Nat)
<1>1. SUFFICES ASSUME T # {} PROVE FALSE
  <2> SUFFICES ASSUME NEW i \in 1 .. last, i \notin S PROVE T # {}
    BY <1>1
  <2>1. last - i \in Nat /\ last - i < last /\ last - (last - i) = i
    OBVIOUS
  <2>. QED
    BY <2>1
<1>2. IsWellFoundedOn(R, Nat)
  BY NatLessThanWellFounded, Zenon
<1>3. \A x, y \in Nat : << y, x >> \in R <=> y < x
  BY Zenon DEF OpToRel
<1> HIDE DEF R
<1>4. PICK m \in T : \A k \in T : ~ (<< k, m >> \in R)
  BY <1>1, <1>2, WFMin
<1>5. \A k \in T : ~ (k < m)
  BY <1>3, <1>4
<1>6. m \in Nat /\ last - m \in 1 .. last /\ last - m \notin S
  BY <1>4
<1>7. ASSUME NEW j \in last - m + 1 .. last PROVE j \in S
  <2>1. last - j \in Nat /\ last - j < m /\ last - j < last /\ last - (last - j) = j
    BY <1>6, <1>7
  <2>. QED
    BY <1>5, <2>1
<1>. QED
  BY <1>6, <1>7

\* Where the search finds a packet, and where it has to wait for more bytes.
IsPacket(b, i) == IsStart(b[i]) /\ createPacket(b, i) = "packet"
Waits(b, i) == IsStart(b[i]) /\ createPacket(b, i) = "more"

Nothing == [packets |-> << >>, rest |-> << >>]
Results == [packets : Seq(Bytes), rest : Seq(Bytes)]

\* What a packet adds to what is found behind it.
Added(kind, result) == [result EXCEPT !.packets = << kind >> \o @]

\* What is found from i, given what is found from each later position.
At(b, f, i) ==
  IF i > Len(b) THEN Nothing
  ELSE IF ~ IsStart(b[i]) THEN f[i + 1]
  ELSE CASE createPacket(b, i) = "packet" ->
              Added(b[Payload(b, i).first], f[PacketEnd(b, i) + 1])
         [] createPacket(b, i) = "more" ->
              [packets |-> << >>, rest |-> SubSeq(b, i, Len(b))]
         [] createPacket(b, i) = "no" -> f[i + 1]

LEMMA ByteIs == Bytes \subseteq Nat /\ Base \in Nat /\ (\A x, y \in Nat : x * Base + y \in Nat)
BY ReceiverAssumption DEF Bytes

\* Where the payload is and how long it is, if there are as many bytes as the
\* shortest frame has.
LEMMA PayloadIs ==
  ASSUME NEW b \in Seq(Bytes), NEW i \in 1 .. Len(b), Len(b) - i + 1 >= MinFrame
  PROVE  /\ Payload(b, i).first \in {i + 2, i + 3} /\ Payload(b, i).size \in Nat
         /\ Payload(b, i).first \in 1 .. Len(b)
<1>1. i + 1 \in 1 .. Len(b) /\ i + 2 \in 1 .. Len(b) /\ i + 3 \in 1 .. Len(b)
  BY DEF MinFrame
<1>2. b[i + 1] \in Nat /\ b[i + 2] \in Nat
  BY <1>1, ByteIs, ElementOfSeq
<1>3. b[i + 1] * Base + b[i + 2] \in Nat
  BY <1>2, ByteIs
<1>. QED
  BY <1>1, <1>2, <1>3 DEF Payload

LEMMA ResultIs ==
  ASSUME NEW p \in Seq(Bytes), NEW r \in Seq(Bytes)
  PROVE  [packets |-> p, rest |-> r] \in Results
BY DEF Results

LEMMA AddedIs ==
  ASSUME NEW kind \in Bytes, NEW r \in Results
  PROVE  /\ r.packets \in Seq(Bytes) /\ r.rest \in Seq(Bytes) /\ << kind >> \in Seq(Bytes)
         /\ << kind >> \o r.packets \in Seq(Bytes)
         /\ Added(kind, r) = [packets |-> << kind >> \o r.packets, rest |-> r.rest]
<1>1. r.packets \in Seq(Bytes) /\ r.rest \in Seq(Bytes)
  BY DEF Results
<1>2. << kind >> \in Seq(Bytes)
  OBVIOUS
<1>3. << kind >> \o r.packets \in Seq(Bytes)
  BY <1>1, <1>2, ConcatProperties
<1>4. PICK s \in Seq(Bytes) : s = << kind >> \o r.packets
  BY <1>3
<1>5. Added(kind, r) = [r EXCEPT !.packets = s]
  BY <1>4, Zenon DEF Added
<1>6. [r EXCEPT !.packets = s] = [packets |-> s, rest |-> r.rest]
  BY DEF Results
<1>. QED
  BY <1>1, <1>2, <1>3, <1>4, <1>5, <1>6

LEMMA FieldsAre ==
  ASSUME NEW p, NEW r
  PROVE  [packets |-> p, rest |-> r].packets = p /\ [packets |-> p, rest |-> r].rest = r
OBVIOUS

LEMMA InAnyOrder ==
  ASSUME NEW x \in Seq(Bytes), NEW y \in Seq(Bytes), NEW z \in Seq(Bytes)
  PROVE  (x \o y) \o z = x \o (y \o z)
<1>1. PICK S : S = Bytes
  OBVIOUS
<1>2. x \in Seq(S) /\ y \in Seq(S) /\ z \in Seq(S)
  BY <1>1
<1>. QED
  BY <1>2, ConcatAssociative

LEMMA OnePacket ==
  ASSUME NEW b, NEW i
  PROVE  createPacket(b, i) \in {"more", "no", "packet"}
BY DEF createPacket

\* A packet lies within the bytes, and is not empty.
LEMMA PacketFits ==
  ASSUME NEW b \in Seq(Bytes), NEW i \in 1 .. Len(b), createPacket(b, i) = "packet"
  PROVE  /\ PacketEnd(b, i) \in i + 3 .. Len(b)
         /\ Payload(b, i).first \in 1 .. Len(b)
         /\ b[Payload(b, i).first] \in Bytes
<1>1. Len(b) - i + 1 >= MinFrame
  BY DEF createPacket, MinFrame
<1>2. /\ Payload(b, i).first \in {i + 2, i + 3} /\ Payload(b, i).size \in Nat
      /\ Payload(b, i).first \in 1 .. Len(b)
  BY <1>1, PayloadIs
<1>3. PacketEnd(b, i) <= Len(b) /\ Payload(b, i).size > 0
  BY <1>2 DEF createPacket, PacketEnd
<1>. QED
  BY <1>2, <1>3, ElementOfSeq DEF PacketEnd

\* The bytes from i in b are those from j in c, which may go on: what is decided
\* in b is decided in the same way in c.
LEMMA SamePacket ==
  ASSUME NEW b \in Seq(Bytes), NEW c \in Seq(Bytes),
         NEW i \in 1 .. Len(b), NEW j \in 1 .. Len(c), Len(b) - i <= Len(c) - j,
         \A m \in 0 .. Len(b) - i : c[j + m] = b[i + m]
  PROVE  /\ createPacket(b, i) # "more" \/ Len(b) - i = Len(c) - j =>
              createPacket(c, j) = createPacket(b, i)
         /\ createPacket(b, i) = "packet" =>
              /\ PacketEnd(c, j) - j = PacketEnd(b, i) - i
              /\ c[Payload(c, j).first] = b[Payload(b, i).first]
<1>0. Len(b) \in Nat /\ Len(c) \in Nat
  OBVIOUS
<1>1. CASE Len(b) - i + 1 < MinFrame
  BY <1>0, <1>1 DEF createPacket, MinFrame
<1>2. CASE Len(b) - i + 1 >= MinFrame
  <2>1. 0 \in 0 .. Len(b) - i /\ 1 \in 0 .. Len(b) - i /\ 2 \in 0 .. Len(b) - i
    BY <1>0, <1>2 DEF MinFrame
  <2>2. c[j] = b[i] /\ c[j + 1] = b[i + 1] /\ c[j + 2] = b[i + 2]
    <3>1. j + 0 = j /\ i + 0 = i
      OBVIOUS
    <3>2. c[j + 0] = b[i + 0] /\ c[j + 1] = b[i + 1] /\ c[j + 2] = b[i + 2]
      BY <2>1, Zenon
    <3>. QED
      BY <3>1, <3>2, Zenon
  <2>3. Len(c) - j + 1 >= MinFrame
    BY <1>0, <1>2 DEF MinFrame
  <2>0. Payload(b, i).first \in {i + 2, i + 3} /\ Payload(b, i).size \in Nat
    BY <1>2, PayloadIs, Zenon
  <2>4. PICK f \in Nat : Payload(b, i).first = f /\ (f = i + 2 \/ f = i + 3)
    <3>1. i + 2 \in Nat /\ i + 3 \in Nat
      OBVIOUS
    <3>. QED
      BY <2>0, <3>1
  <2>5. PICK n \in Nat : Payload(b, i).size = n
    BY <2>0
  <2>6. PICK g \in Nat : g = f - i + j
    BY <2>4
  <2>7. Payload(c, j).first = g /\ Payload(c, j).size = n
    BY <2>2, <2>4, <2>5, <2>6 DEF Payload
  <2>8. /\ PacketEnd(b, i) = f + n + 1 /\ PacketEnd(c, j) = g + n + 1
    BY <2>4, <2>6, <2>5, <2>7 DEF PacketEnd
  <2>9. CASE n > MaxPayload
    BY <1>0, <1>2, <2>3, <2>4, <2>6, <2>5, <2>7, <2>9 DEF createPacket, MinFrame
  <2>10. CASE ~ (n > MaxPayload) /\ Len(b) < f + n + 1
    <3>1. createPacket(b, i) = "more"
      BY <1>0, <1>2, <2>4, <2>6, <2>5, <2>10 DEF createPacket, MinFrame
    <3>2. Len(b) - i = Len(c) - j => createPacket(c, j) = "more"
      BY <1>0, <2>3, <2>4, <2>6, <2>7, <2>10 DEF createPacket, MinFrame
    <3>. QED
      BY <3>1, <3>2
  <2>11. CASE ~ (n > MaxPayload) /\ ~ (Len(b) < f + n + 1)
    <3>1. ~ (Len(c) < g + n + 1)
      BY <1>0, <2>4, <2>6, <2>5, <2>11
    <3>2. \A m \in f .. f + n + 1 : c[m - i + j] = b[m]
      <4> SUFFICES ASSUME NEW m \in f .. f + n + 1 PROVE c[m - i + j] = b[m]
        OBVIOUS
      <4>1. m - i \in 0 .. Len(b) - i /\ j + (m - i) = m - i + j /\ i + (m - i) = m
        BY <1>0, <2>4, <2>6, <2>11
      <4>. QED
        BY <4>1
    <3>3. /\ c[g + n + 1] = b[f + n + 1]
          /\ c[g + n + 1 - 1] = b[f + n + 1 - 1]
          /\ c[g] = b[f]
      <4>1. f + n + 1 \in f .. f + n + 1 /\ f + n \in f .. f + n + 1 /\ f \in f .. f + n + 1
        BY <2>4, <2>6
      <4>2. /\ (f + n + 1) - i + j = g + n + 1
            /\ (f + n) - i + j = g + n + 1 - 1 /\ f + n = f + n + 1 - 1
            /\ f - i + j = g
        BY <2>4, <2>6
      <4>. QED
        BY <3>2, <4>1, <4>2
    <3>4. SubSeq(c, g, g + n - 1) = SubSeq(b, f, f + n - 1)
      <4>1. f \in Int /\ f + n - 1 \in Int /\ g \in Int /\ g + n - 1 \in Int
        BY <2>4, <2>6
      <4>2. \A m \in f .. f + n - 1 : b[m] \in Bytes
        <5> SUFFICES ASSUME NEW m \in f .. f + n - 1 PROVE b[m] \in Bytes
          OBVIOUS
        <5>1. m \in 1 .. Len(b)
          BY <1>0, <2>4, <2>6, <2>11
        <5>. QED
          BY <5>1, ElementOfSeq
      <4>3. \A m \in g .. g + n - 1 : c[m] \in Bytes
        <5> SUFFICES ASSUME NEW m \in g .. g + n - 1 PROVE c[m] \in Bytes
          OBVIOUS
        <5>1. m \in 1 .. Len(c)
          BY <1>0, <2>4, <2>6, <3>1
        <5>. QED
          BY <5>1, ElementOfSeq
      <4> DEFINE s == SubSeq(b, f, f + n - 1)
                 t == SubSeq(c, g, g + n - 1)
      <4>4. s \in Seq(Bytes) /\ Len(s) = n /\ \A m \in 1 .. n : s[m] = b[f + m - 1]
        <5>1. /\ s \in Seq(Bytes)
              /\ Len(s) = IF f <= f + n - 1 THEN f + n - 1 - f + 1 ELSE 0
              /\ \A m \in 1 .. f + n - 1 - f + 1 : s[m] = b[f + m - 1]
          BY <4>1, <4>2, SubSeqProperties
        <5>2. f + n - 1 - f + 1 = n
          BY <2>4, <2>6
        <5>3. (IF f <= f + n - 1 THEN f + n - 1 - f + 1 ELSE 0) = n
          BY <2>4, <2>6
        <5>. QED
          BY <5>1, <5>2, <5>3
      <4>5. t \in Seq(Bytes) /\ Len(t) = n /\ \A m \in 1 .. n : t[m] = c[g + m - 1]
        <5>1. /\ t \in Seq(Bytes)
              /\ Len(t) = IF g <= g + n - 1 THEN g + n - 1 - g + 1 ELSE 0
              /\ \A m \in 1 .. g + n - 1 - g + 1 : t[m] = c[g + m - 1]
          BY <4>1, <4>3, SubSeqProperties
        <5>2. g + n - 1 - g + 1 = n
          BY <2>4, <2>6
        <5>3. (IF g <= g + n - 1 THEN g + n - 1 - g + 1 ELSE 0) = n
          BY <2>4, <2>6
        <5>. QED
          BY <5>1, <5>2, <5>3
      <4> HIDE DEF s, t
      <4>6. \A m \in 1 .. n : t[m] = s[m]
        <5> SUFFICES ASSUME NEW m \in 1 .. n PROVE t[m] = s[m]
          OBVIOUS
        <5>1. f + m - 1 \in f .. f + n + 1 /\ (f + m - 1) - i + j = g + m - 1
          <6>1. PICK x \in Int, y \in Int : x = i /\ y = j
            OBVIOUS
          <6>2. PICK z \in Int : z = m /\ 1 <= z /\ z <= n
            BY <2>5
          <6>3. f + z - 1 \in f .. f + n + 1 /\ (f + z - 1) - x + y = f - x + y + z - 1
            BY <2>4, <2>5, <6>2
          <6>. QED
            BY <2>6, <6>1, <6>2, <6>3
        <5>. QED
          BY <3>2, <4>4, <4>5, <5>1
      <4>7. t = s
        BY <4>4, <4>5, <4>6, SeqEqual
      <4>. QED
        BY <4>7 DEF s, t
    <3>5. PICK p : p = SubSeq(b, f, f + n - 1)
      OBVIOUS
    <3> DEFINE good(z, e) == /\ z[e] = End /\ z[e - 1] = Checksum(p) /\ n > 0
                             /\ Head(p) \in {FWVersion, Values}
    <3>6. createPacket(b, i) = IF good(b, f + n + 1) THEN "packet" ELSE "no"
      BY <1>0, <1>2, <2>4, <2>5, <2>11, <3>5 DEF createPacket, MinFrame
    <3>7. createPacket(c, j) = IF good(c, g + n + 1) THEN "packet" ELSE "no"
      <4>1. p = SubSeq(c, g, g + n - 1)
        BY <3>4, <3>5
      <4>. QED
        BY <1>0, <2>3, <2>5, <2>6, <2>7, <2>11, <3>1, <4>1 DEF createPacket, MinFrame
    <3>9. createPacket(c, j) = createPacket(b, i)
      <4>1. good(b, f + n + 1) <=> good(c, g + n + 1)
        BY <3>3
      <4> HIDE DEF good
      <4>. QED
        BY <3>6, <3>7, <4>1
    <3>8. PacketEnd(c, j) - j = PacketEnd(b, i) - i
      BY <2>4, <2>6, <2>8
    <3>. QED
      BY <2>4, <2>6, <2>7, <3>3, <3>8, <3>9
  <2>. QED
    BY <2>5, <2>9, <2>10, <2>11
<1>. QED
  BY <1>0, <1>1, <1>2 DEF MinFrame

LEMMA AtIs ==
  ASSUME NEW b, NEW f, NEW i
  PROVE  At(b, f, i) =
           IF i > Len(b) THEN Nothing
           ELSE IF IsPacket(b, i) THEN Added(b[Payload(b, i).first], f[PacketEnd(b, i) + 1])
           ELSE IF Waits(b, i) THEN [packets |-> << >>, rest |-> SubSeq(b, i, Len(b))]
           ELSE f[i + 1]
BY OnePacket DEF At, IsPacket, Waits

\* The search is defined: there is a function that says what is found from each
\* position.
LEMMA FoundExists ==
  ASSUME NEW b \in Seq(Bytes)
  PROVE  \E f : f = [i \in 1 .. Len(b) + 1 |-> At(b, f, i)]
<1> DEFINE last == Len(b) + 1
           S == {k \in 1 .. last : \E f : \A i \in k .. last : f[i] = At(b, f, i)}
<1>1. last \in Nat \ {0} /\ Len(b) \in Nat
  OBVIOUS
<1>2. ASSUME NEW k \in 1 .. last, \A j \in k + 1 .. last : j \in S
      PROVE  k \in S
  <2>1. PICK f : \A i \in k + 1 .. last : f[i] = At(b, f, i)
    <3>1. CASE k = last
      BY <1>1, <3>1
    <3>2. CASE k # last
      <4>1. k + 1 \in k + 1 .. last
        BY <1>1, <3>2
      <4>2. k + 1 \in S
        BY <1>2, <4>1
      <4>. QED
        BY <4>2
    <3>. QED
      BY <3>1, <3>2
  <2> DEFINE g == [i \in k .. last |-> IF i = k THEN At(b, f, k) ELSE f[i]]
  <2>2. ASSUME NEW i \in k .. last PROVE At(b, g, i) = At(b, f, i)
    <3>1. CASE i > Len(b)
      BY <3>1, AtIs
    <3>2. CASE ~ (i > Len(b))
      <4>1. i \in 1 .. Len(b)
        BY <1>1, <3>2
      <4>2. i + 1 \in k .. last /\ i + 1 # k
        BY <1>1, <4>1
      <4>3. IsPacket(b, i) => PacketEnd(b, i) + 1 \in k .. last /\ PacketEnd(b, i) + 1 # k
        BY <1>1, <4>1, PacketFits DEF IsPacket
      <4>4. g[i + 1] = f[i + 1]
        BY <4>2
      <4>5. IsPacket(b, i) => g[PacketEnd(b, i) + 1] = f[PacketEnd(b, i) + 1]
        BY <4>3
      <4> HIDE DEF g
      <4>. QED
        BY <4>4, <4>5, AtIs
    <3>. QED
      BY <3>1, <3>2
  <2>3. ASSUME NEW i \in k .. last PROVE g[i] = At(b, g, i)
    <3>1. i = k \/ i \in k + 1 .. last
      BY <1>1
    <3>2. g[i] = At(b, f, i)
      BY <2>1, <3>1
    <3>. QED
      BY <2>2, <3>2
  <2>. QED
    BY <2>3
<1>3. 1 .. last \subseteq S
  <2> HIDE DEF S, last
  <2>. QED
    BY <1>1, <1>2, Downward
<1>4. 1 \in S
  BY <1>1, <1>3
<1>5. PICK f : \A i \in 1 .. last : f[i] = At(b, f, i)
  BY <1>4
<1> DEFINE g == [i \in 1 .. last |-> f[i]]
<1>6. ASSUME NEW i \in 1 .. last PROVE At(b, g, i) = At(b, f, i)
  <2>1. CASE i > Len(b)
    BY <2>1, AtIs
  <2>2. CASE ~ (i > Len(b))
    <3>1. i \in 1 .. Len(b) /\ i + 1 \in 1 .. last
      BY <1>1, <2>2
    <3>2. IsPacket(b, i) => PacketEnd(b, i) + 1 \in 1 .. last
      BY <1>1, <3>1, PacketFits DEF IsPacket
    <3>3. g[i + 1] = f[i + 1]
      BY <3>1
    <3>4. IsPacket(b, i) => g[PacketEnd(b, i) + 1] = f[PacketEnd(b, i) + 1]
      BY <3>2
    <3> HIDE DEF g
    <3>. QED
      BY <3>3, <3>4, AtIs
  <2>. QED
    BY <2>1, <2>2
<1>7. g = [i \in 1 .. last |-> At(b, g, i)]
  BY <1>5, <1>6
<1> HIDE DEF g
<1>. QED
  BY <1>7

LEMMA FoundIs ==
  ASSUME NEW b \in Seq(Bytes)
  PROVE  /\ Found(b) = [i \in 1 .. Len(b) + 1 |-> At(b, Found(b), i)]
         /\ \A i \in 1 .. Len(b) + 1 : Found(b)[i] = At(b, Found(b), i)
<1>1. Found(b) = CHOOSE f : f = [i \in 1 .. Len(b) + 1 |-> At(b, f, i)]
  BY Zenon DEF Found, At, Added, Nothing
<1>. QED
  BY <1>1, FoundExists

\* What is found is packets and bytes.
LEMMA FoundTyped ==
  ASSUME NEW b \in Seq(Bytes)
  PROVE  \A i \in 1 .. Len(b) + 1 : Found(b)[i] \in Results
<1> DEFINE last == Len(b) + 1
           S == {i \in 1 .. last : Found(b)[i] \in Results}
<1>1. last \in Nat \ {0} /\ Len(b) \in Nat
  OBVIOUS
<1>2. PICK none \in Seq(Bytes) : none = << >>
  BY EmptySeq
<1>3. ASSUME NEW i \in 1 .. last, \A j \in i + 1 .. last : j \in S
      PROVE  i \in S
  <2>1. Found(b)[i] = At(b, Found(b), i)
    BY FoundIs
  <2>2. CASE i > Len(b)
    <3>1. Found(b)[i] = Nothing
      BY <2>1, <2>2, AtIs
    <3>. QED
      BY <1>2, <3>1, ResultIs DEF Nothing
  <2>3. CASE ~ (i > Len(b)) /\ IsPacket(b, i)
    <3>1. i \in 1 .. Len(b)
      BY <1>1, <2>3
    <3>2. PacketEnd(b, i) + 1 \in i + 1 .. last /\ b[Payload(b, i).first] \in Bytes
      BY <1>1, <2>3, <3>1, PacketFits DEF IsPacket
    <3>3. PICK r \in Results : r = Found(b)[PacketEnd(b, i) + 1]
      BY <1>3, <3>2
    <3>4. PICK kind \in Bytes : kind = b[Payload(b, i).first]
      BY <3>2
    <3>5. Found(b)[i] = Added(kind, r)
      BY <2>1, <2>3, <3>3, <3>4, AtIs
    <3>6. << kind >> \o r.packets \in Seq(Bytes) /\ r.rest \in Seq(Bytes)
      BY DEF Results
    <3>. QED
      BY <3>5, <3>6 DEF Added, Results
  <2>4. CASE ~ (i > Len(b)) /\ ~ IsPacket(b, i) /\ Waits(b, i)
    <3>1. Found(b)[i] = [packets |-> << >>, rest |-> SubSeq(b, i, Len(b))]
      BY <2>1, <2>4, AtIs
    <3>2. SubSeq(b, i, Len(b)) \in Seq(Bytes)
      <4>1. \A m \in i .. Len(b) : b[m] \in Bytes
        BY <1>1, ElementOfSeq
      <4>. QED
        BY <1>1, <4>1, SubSeqProperties
    <3>. QED
      BY <1>2, <3>1, <3>2, ResultIs
  <2>5. CASE ~ (i > Len(b)) /\ ~ IsPacket(b, i) /\ ~ Waits(b, i)
    <3>1. Found(b)[i] = Found(b)[i + 1]
      BY <2>1, <2>5, AtIs
    <3>2. i + 1 \in i + 1 .. last
      BY <1>1, <2>5
    <3>. QED
      BY <1>3, <3>1, <3>2
  <2>. QED
    BY <2>2, <2>3, <2>4, <2>5
<1>4. 1 .. last \subseteq S
  <2> HIDE DEF S, last
  <2>. QED
    BY <1>1, <1>3, Downward
<1>. QED
  BY <1>4

\* A search in the bytes from k finds what a search in all of them finds from there.
LEMMA FoundInRest ==
  ASSUME NEW b \in Seq(Bytes), NEW k \in 1 .. Len(b), NEW c, c = SubSeq(b, k, Len(b))
  PROVE  Found(c)[1] = Found(b)[k]
<1> DEFINE last == Len(c) + 1
           S == {j \in 1 .. last : Found(c)[j] = Found(b)[k + j - 1]}
<1>0. Len(b) \in Nat /\ \A m \in k .. Len(b) : b[m] \in Bytes
  BY ElementOfSeq
<1>1. /\ c \in Seq(Bytes) /\ Len(c) = Len(b) - k + 1
      /\ \A m \in 1 .. Len(b) - k + 1 : c[m] = b[k + m - 1]
  <2>1. /\ c \in Seq(Bytes) /\ Len(c) = IF k <= Len(b) THEN Len(b) - k + 1 ELSE 0
        /\ \A m \in 1 .. Len(b) - k + 1 : c[m] = b[k + m - 1]
    BY <1>0, SubSeqProperties
  <2>. QED
    BY <2>1
<1>2. last \in Nat \ {0} /\ Len(c) \in Nat
  BY <1>1
<1>3. ASSUME NEW j \in 1 .. last, \A m \in j + 1 .. last : m \in S
      PROVE  j \in S
  <2> DEFINE i == k + j - 1
  <2>1. i \in 1 .. Len(b) + 1 /\ i \in Nat
    BY <1>0, <1>1
  <2>2. Found(c)[j] = At(c, Found(c), j) /\ Found(b)[i] = At(b, Found(b), i)
    BY <1>1, <2>1, FoundIs
  <2>3. CASE j > Len(c)
    <3>1. i > Len(b)
      BY <1>0, <1>1, <2>3
    <3>. QED
      BY <2>2, <2>3, <3>1, AtIs
  <2>4. CASE ~ (j > Len(c))
    <3>1. j \in 1 .. Len(c) /\ i \in 1 .. Len(b) /\ ~ (i > Len(b)) /\ Len(c) - j = Len(b) - i
      BY <1>0, <1>1, <2>4
    <3>2. c[j] = b[i]
      BY <1>1, <3>1
    <3>3. \A m \in 0 .. Len(c) - j : b[i + m] = c[j + m]
      <4> SUFFICES ASSUME NEW m \in 0 .. Len(c) - j PROVE b[i + m] = c[j + m]
        OBVIOUS
      <4>1. j + m \in 1 .. Len(b) - k + 1 /\ k + (j + m) - 1 = i + m
        BY <1>0, <1>1, <3>1
      <4>. QED
        BY <1>1, <4>1
    <3>4. /\ createPacket(b, i) = createPacket(c, j)
          /\ createPacket(c, j) = "packet" =>
               /\ PacketEnd(b, i) - i = PacketEnd(c, j) - j
               /\ b[Payload(b, i).first] = c[Payload(c, j).first]
      <4>1. i \in 1 .. Len(b) /\ j \in 1 .. Len(c) /\ Len(c) - j <= Len(b) - i
            /\ Len(c) - j = Len(b) - i /\ c \in Seq(Bytes)
        BY <1>0, <1>1, <3>1
      <4> HIDE DEF i, S, last
      <4>. QED
        BY <3>3, <4>1, SamePacket
    <3>5. /\ IsPacket(c, j) <=> IsPacket(b, i)
          /\ Waits(c, j) <=> Waits(b, i)
      BY <3>2, <3>4 DEF IsPacket, Waits
    <3>6. CASE IsPacket(c, j)
      <4>1. PacketEnd(c, j) \in j + 3 .. Len(c) /\ PacketEnd(b, i) \in i + 3 .. Len(b)
        <5> HIDE DEF i, S, last
        <5>1. createPacket(c, j) = "packet" /\ createPacket(b, i) = "packet"
          BY <3>5, <3>6 DEF IsPacket
        <5>. QED
          BY <1>1, <3>1, <5>1, PacketFits
      <4>2. PacketEnd(c, j) + 1 \in j + 1 .. last
        BY <1>2, <4>1
      <4>7. k + (PacketEnd(c, j) + 1) - 1 = PacketEnd(b, i) + 1
        <5>1. PICK e \in Int : e = PacketEnd(c, j)
          BY <4>1
        <5>2. PICK h \in Int : h = PacketEnd(b, i)
          BY <4>1
        <5>3. h - (k + j - 1) = e - j
          BY <3>4, <3>6, <5>1, <5>2 DEF IsPacket
        <5>4. k \in Int /\ j \in Int
          BY <1>0, <3>1
        <5>5. k + (e + 1) - 1 = h + 1
          BY <5>3, <5>4
        <5>. QED
          BY <5>1, <5>2, <5>5, Zenon
      <4>3. Found(c)[PacketEnd(c, j) + 1] = Found(b)[PacketEnd(b, i) + 1]
        BY <1>3, <4>2, <4>7
      <4>4. b[Payload(b, i).first] = c[Payload(c, j).first]
        BY <3>4, <3>6 DEF IsPacket
      <4>5. Found(c)[j] = Added(c[Payload(c, j).first], Found(c)[PacketEnd(c, j) + 1])
        BY <2>2, <2>4, <3>6, AtIs
      <4>6. Found(b)[i] = Added(b[Payload(b, i).first], Found(b)[PacketEnd(b, i) + 1])
        <5> HIDE DEF i
        <5>. QED
          BY <2>2, <3>1, <3>5, <3>6, AtIs
      <4>. QED
        BY <4>3, <4>4, <4>5, <4>6
    <3>7. CASE ~ IsPacket(c, j) /\ Waits(c, j)
      <4>1. SubSeq(c, j, Len(c)) = SubSeq(b, i, Len(b))
        <5>1. /\ Len(b) \in 1 .. Len(b) /\ j \in 1 .. Len(b) - k + 1
              /\ Len(c) \in 1 .. Len(b) - k + 1 /\ k + Len(c) - 1 = Len(b)
          BY <1>0, <1>1, <3>1
        <5>2. SubSeq(SubSeq(b, k, Len(b)), j, Len(c)) = SubSeq(b, k + j - 1, k + Len(c) - 1)
          BY <5>1, SubSeqOfSubSeq
        <5>. QED
          BY <5>1, <5>2
      <4>2. Found(c)[j] = [packets |-> << >>, rest |-> SubSeq(c, j, Len(c))]
        BY <2>2, <2>4, <3>7, AtIs
      <4>3. Found(b)[i] = [packets |-> << >>, rest |-> SubSeq(b, i, Len(b))]
        <5> HIDE DEF i
        <5>. QED
          BY <2>2, <3>1, <3>5, <3>7, AtIs
      <4>. QED
        BY <4>1, <4>2, <4>3
    <3>8. CASE ~ IsPacket(c, j) /\ ~ Waits(c, j)
      <4>1. Found(c)[j] = Found(c)[j + 1]
        BY <2>2, <2>4, <3>8, AtIs
      <4>2. Found(b)[i] = Found(b)[i + 1]
        <5> HIDE DEF i
        <5>. QED
          BY <2>2, <3>1, <3>5, <3>8, AtIs
      <4>3. j + 1 \in j + 1 .. last /\ k + (j + 1) - 1 = i + 1
        BY <1>2, <2>4
      <4>4. Found(c)[j + 1] = Found(b)[i + 1]
        BY <1>3, <4>3
      <4>. QED
        BY <4>1, <4>2, <4>4
    <3>. QED
      BY <3>6, <3>7, <3>8
  <2>. QED
    BY <2>3, <2>4
<1>4. 1 .. last \subseteq S
  <2> HIDE DEF S, last
  <2>. QED
    BY <1>2, <1>3, Downward
<1>5. 1 \in 1 .. last /\ k + 1 - 1 = k
  BY <1>2
<1>. QED
  BY <1>4, <1>5

\* From each position of u, what is found in b is what is found in u and then from
\* where the search in u stops.
GoesOn(u, b) ==
  \A i \in 1 .. Len(u) + 1 :
    \E k \in 1 .. Len(u) + 1 :
      /\ Found(u)[i].rest = SubSeq(u, k, Len(u))
      /\ Found(b)[i] = [packets |-> Found(u)[i].packets \o Found(b)[k].packets,
                        rest |-> Found(b)[k].rest]

\* What is found in u holds with whatever follows: the search in both goes on from
\* where that in u had to wait.
LEMMA FoundInFront ==
  ASSUME NEW u \in Seq(Bytes), NEW v \in Seq(Bytes), NEW b, b = u \o v
  PROVE  GoesOn(u, b)
<1> DEFINE last == Len(u) + 1
           Whole(i, k) == [packets |-> Found(u)[i].packets \o Found(b)[k].packets,
                             rest |-> Found(b)[k].rest]
           S == {i \in 1 .. last : \E k \in 1 .. last :
                   Found(u)[i].rest = SubSeq(u, k, Len(u)) /\ Found(b)[i] = Whole(i, k)}
<1>0. last \in Nat \ {0} /\ Len(u) \in Nat /\ Len(v) \in Nat
  OBVIOUS
<1>1. /\ b \in Seq(Bytes) /\ Len(b) = Len(u) + Len(v)
      /\ \A i \in 1 .. Len(u) : b[i] = u[i]
  BY ConcatProperties
<1>2. \A i \in 1 .. last : i \in 1 .. Len(b) + 1
  BY <1>0, <1>1
<1>3. \A i \in 1 .. last : Found(b)[i] \in Results /\ Found(u)[i] \in Results
  BY <1>1, <1>2, FoundTyped
<1>4. ASSUME NEW r \in Results
      PROVE  [packets |-> << >> \o r.packets, rest |-> r.rest] = r
  BY DEF Results
<1>5. ASSUME NEW i \in 1 .. last, \A j \in i + 1 .. last : j \in S
      PROVE  i \in S
  <2>1. Found(u)[i] = At(u, Found(u), i) /\ Found(b)[i] = At(b, Found(b), i)
    BY <1>1, <1>2, FoundIs
  <2>2. CASE i > Len(u)
    <3>1. Found(u)[i] = Nothing
      BY <2>1, <2>2, AtIs
    <3>2. SubSeq(u, i, Len(u)) = << >>
      BY <1>0, <2>2, SubSeqEmpty
    <3>3. Found(u)[i].rest = SubSeq(u, i, Len(u)) /\ Found(u)[i].packets = << >>
      BY <3>1, <3>2 DEF Nothing
    <3>4. Found(b)[i] = Whole(i, i)
      BY <1>3, <1>4, <3>3
    <3>. QED
      BY <3>3, <3>4
  <2>3. CASE ~ (i > Len(u))
    <3>1. i \in 1 .. Len(u) /\ i \in 1 .. Len(b) /\ ~ (i > Len(b)) /\ b[i] = u[i]
      BY <1>0, <1>1, <2>3
    <3>2. Len(u) - i <= Len(b) - i /\ \A m \in 0 .. Len(u) - i : b[i + m] = u[i + m]
      BY <1>0, <1>1, <3>1
    <3>3. /\ createPacket(u, i) # "more" => createPacket(b, i) = createPacket(u, i)
          /\ createPacket(u, i) = "packet" =>
               /\ PacketEnd(b, i) - i = PacketEnd(u, i) - i
               /\ b[Payload(b, i).first] = u[Payload(u, i).first]
      BY <1>1, <3>1, <3>2, SamePacket
    <3>4. /\ IsPacket(u, i) => IsPacket(b, i)
          /\ ~ IsPacket(u, i) /\ ~ Waits(u, i) => ~ IsPacket(b, i) /\ ~ Waits(b, i)
      BY <3>1, <3>3, OnePacket DEF IsPacket, Waits
    <3>5. CASE IsPacket(u, i)
      <4>1. PacketEnd(u, i) \in i + 3 .. Len(u) /\ PacketEnd(b, i) \in i + 3 .. Len(b)
            /\ u[Payload(u, i).first] \in Bytes
        BY <1>1, <3>1, <3>4, <3>5, PacketFits DEF IsPacket
      <4>2. PacketEnd(b, i) = PacketEnd(u, i) /\ b[Payload(b, i).first] = u[Payload(u, i).first]
        <5>1. createPacket(u, i) = "packet"
          BY <3>5 DEF IsPacket
        <5>2. PICK e \in Int : e = PacketEnd(u, i)
          BY <4>1
        <5>3. PICK h \in Int : h = PacketEnd(b, i)
          BY <4>1
        <5>4. h - i = e - i /\ b[Payload(b, i).first] = u[Payload(u, i).first]
          BY <3>3, <5>1, <5>2, <5>3
        <5>5. h = e
          BY <3>1, <5>4
        <5>. QED
          BY <5>2, <5>3, <5>4, <5>5
      <4>3. PICK j \in i + 1 .. last : j = PacketEnd(u, i) + 1
        BY <1>0, <4>1
      <4>4. PICK kind \in Bytes : kind = u[Payload(u, i).first]
        BY <4>1
      <4>5. Found(u)[i] = Added(kind, Found(u)[j])
        BY <2>1, <2>3, <3>5, <4>3, <4>4, AtIs
      <4>6. Found(b)[i] = Added(kind, Found(b)[j])
        BY <2>1, <3>1, <3>4, <3>5, <4>2, <4>3, <4>4, AtIs
      <4>7. PICK k \in 1 .. last :
              Found(u)[j].rest = SubSeq(u, k, Len(u)) /\ Found(b)[j] = Whole(j, k)
        BY <1>5
      <4>8. PICK r \in Results : r = Found(u)[j]
        BY <1>3
      <4>9. PICK t \in Results : t = Found(b)[k]
        BY <1>3
      <4>10. Found(u)[i].packets = << kind >> \o r.packets /\ Found(u)[i].rest = r.rest
        BY <4>5, <4>8 DEF Added, Results
      <4>11. Found(b)[j] = [packets |-> r.packets \o t.packets, rest |-> t.rest]
        BY <4>7, <4>8, <4>9
      <4>12. Found(b)[i] = [packets |-> << kind >> \o (r.packets \o t.packets), rest |-> t.rest]
        <5>1. PICK q \in Results : q = Found(b)[j]
          BY <1>3, <4>3
        <5>2. q.packets = r.packets \o t.packets /\ q.rest = t.rest
          <6>1. q = [packets |-> r.packets \o t.packets, rest |-> t.rest]
            BY <4>11, <5>1
          <6>. QED
            BY <6>1, FieldsAre
        <5>3. Found(b)[i] = [packets |-> << kind >> \o q.packets, rest |-> q.rest]
          BY <4>6, <5>1, AddedIs
        <5>. QED
          BY <5>2, <5>3
      <4>13. << kind >> \o (r.packets \o t.packets) = (<< kind >> \o r.packets) \o t.packets
        <5>1. << kind >> \in Seq(Bytes) /\ r.packets \in Seq(Bytes) /\ t.packets \in Seq(Bytes)
          BY AddedIs
        <5>2. PICK x \in Seq(Bytes) : x = << kind >>
          BY <5>1
        <5>3. PICK y \in Seq(Bytes) : y = r.packets
          BY <5>1
        <5>4. PICK z \in Seq(Bytes) : z = t.packets
          BY <5>1
        <5>5. (x \o y) \o z = x \o (y \o z)
          BY InAnyOrder
        <5>. QED
          BY <5>2, <5>3, <5>4, <5>5, Zenon
      <4>14. Found(b)[i] = Whole(i, k)
        BY <4>9, <4>10, <4>12, <4>13
      <4>. QED
        BY <4>7, <4>8, <4>10, <4>14
    <3>6. CASE ~ IsPacket(u, i) /\ Waits(u, i)
      <4>1. Found(u)[i] = [packets |-> << >>, rest |-> SubSeq(u, i, Len(u))]
        BY <2>1, <2>3, <3>6, AtIs
      <4>2. Found(b)[i] = Whole(i, i)
        BY <1>3, <1>4, <4>1
      <4>3. Found(u)[i].rest = SubSeq(u, i, Len(u))
        BY <4>1
      <4>. QED
        BY <4>2, <4>3
    <3>7. CASE ~ IsPacket(u, i) /\ ~ Waits(u, i)
      <4>1. Found(u)[i] = Found(u)[i + 1]
        BY <2>1, <2>3, <3>7, AtIs
      <4>2. Found(b)[i] = Found(b)[i + 1]
        BY <2>1, <3>1, <3>4, <3>7, AtIs
      <4>3. i + 1 \in i + 1 .. last
        BY <1>0, <3>1
      <4>. QED
        BY <1>5, <4>1, <4>2, <4>3
    <3>. QED
      BY <3>5, <3>6, <3>7
  <2>. QED
    BY <2>2, <2>3
<1>6. 1 .. last \subseteq S
  <2> HIDE DEF S, last
  <2>. QED
    BY <1>0, <1>5, Downward
<1>. QED
  BY <1>6 DEF GoesOn

\* What a search finds in all bytes is what one finds in the first of them and
\* another one in what the first left over and the others.
THEOREM SearchInTwo ==
  ASSUME NEW u \in Seq(Bytes), NEW v \in Seq(Bytes)
  PROVE  Search(u \o v) =
           [packets |-> Search(u).packets \o Search(Search(u).rest \o v).packets,
            rest |-> Search(Search(u).rest \o v).rest]
<1>1. PICK b \in Seq(Bytes) : b = u \o v
  BY ConcatProperties
<1>2. Len(b) = Len(u) + Len(v) /\ Len(u) \in Nat /\ Len(v) \in Nat
  BY <1>1, ConcatProperties
<1>3. PICK k \in 1 .. Len(u) + 1 :
        /\ Found(u)[1].rest = SubSeq(u, k, Len(u))
        /\ Found(b)[1] = [packets |-> Found(u)[1].packets \o Found(b)[k].packets,
                          rest |-> Found(b)[k].rest]
  <2>1. 1 \in 1 .. Len(u) + 1
    BY <1>2
  <2>2. GoesOn(u, b)
    BY <1>1, FoundInFront
  <2>. QED
    BY <2>1, <2>2 DEF GoesOn
<1>4. SubSeq(u, k, Len(u)) \o v = SubSeq(b, k, Len(b))
  <2>1. CASE k = Len(u) + 1
    <3>1. SubSeq(u, k, Len(u)) = << >>
      BY <1>2, <2>1, SubSeqEmpty
    <3>2. SubSeq(b, k, Len(b)) = v
      <4>1. CASE v = << >>
        <5>1. Len(b) < k /\ k \in Int /\ Len(b) \in Int
          BY <1>2, <2>1, <4>1
        <5>. QED
          BY <4>1, <5>1, SubSeqEmpty
      <4>2. CASE v # << >>
        <5>1. Len(v) > 0
          BY <4>2, EmptySeq
        <5>2. SubSeq(u \o v, k, Len(b)) = SubSeq(v, k - Len(u), Len(b) - Len(u))
          <6>1. k \in Len(u) + 1 .. Len(u) + Len(v) /\ Len(b) \in Len(u) + 1 .. Len(u) + Len(v)
            BY <1>2, <2>1, <5>1
          <6>. QED
            BY <6>1, SubSeqOfConcat2
        <5>3. k - Len(u) = 1 /\ Len(b) - Len(u) = Len(v)
          BY <1>2, <2>1
        <5>4. SubSeq(v, 1, Len(v)) = v
          BY SubSeqFull
        <5>. QED
          BY <1>1, <5>2, <5>3, <5>4
      <4>. QED
        BY <4>1, <4>2
    <3>3. << >> \o v = v
      BY ConcatEmptySeq
    <3>. QED
      BY <3>1, <3>2, <3>3
  <2>2. CASE k \in 1 .. Len(u)
    <3> DEFINE s == SubSeq(u, k, Len(u))
               t == SubSeq(b, k, Len(b))
    <3>1. /\ s \in Seq(Bytes) /\ Len(s) = Len(u) - k + 1
          /\ \A i \in 1 .. Len(u) - k + 1 : s[i] = u[k + i - 1]
      <4>1. \A m \in k .. Len(u) : u[m] \in Bytes
        BY <1>2, <2>2, ElementOfSeq
      <4>2. /\ s \in Seq(Bytes) /\ Len(s) = IF k <= Len(u) THEN Len(u) - k + 1 ELSE 0
            /\ \A i \in 1 .. Len(u) - k + 1 : s[i] = u[k + i - 1]
        BY <1>2, <4>1, SubSeqProperties
      <4>. QED
        BY <1>2, <2>2, <4>2
    <3>2. /\ t \in Seq(Bytes) /\ Len(t) = Len(b) - k + 1
          /\ \A i \in 1 .. Len(b) - k + 1 : t[i] = b[k + i - 1]
      <4>1. \A m \in k .. Len(b) : b[m] \in Bytes
        BY <1>2, <2>2, ElementOfSeq
      <4>2. /\ t \in Seq(Bytes) /\ Len(t) = IF k <= Len(b) THEN Len(b) - k + 1 ELSE 0
            /\ \A i \in 1 .. Len(b) - k + 1 : t[i] = b[k + i - 1]
        BY <1>2, <4>1, SubSeqProperties
      <4>. QED
        BY <1>2, <2>2, <4>2
    <3> HIDE DEF s, t
    <3>3. /\ s \o v \in Seq(Bytes) /\ Len(s \o v) = Len(s) + Len(v)
          /\ \A i \in 1 .. Len(s) + Len(v) :
               (s \o v)[i] = IF i <= Len(s) THEN s[i] ELSE v[i - Len(s)]
      BY <3>1, ConcatProperties
    <3>4. \A i \in 1 .. Len(u) + Len(v) : b[i] = IF i <= Len(u) THEN u[i] ELSE v[i - Len(u)]
      BY <1>1, ConcatProperties
    <3>5. Len(s \o v) = Len(t)
      BY <1>2, <2>2, <3>1, <3>2, <3>3
    <3>6. \A i \in 1 .. Len(s \o v) : (s \o v)[i] = t[i]
      <4> SUFFICES ASSUME NEW i \in 1 .. Len(s \o v) PROVE (s \o v)[i] = t[i]
        OBVIOUS
      <4>1. i \in 1 .. Len(s) + Len(v) /\ i \in 1 .. Len(b) - k + 1
            /\ k + i - 1 \in 1 .. Len(u) + Len(v)
        BY <1>2, <2>2, <3>1, <3>3
      <4>2. t[i] = b[k + i - 1] /\ (s \o v)[i] = IF i <= Len(s) THEN s[i] ELSE v[i - Len(s)]
        BY <3>2, <3>3, <4>1
      <4>3. CASE i <= Len(s)
        <5>1. i \in 1 .. Len(u) - k + 1 /\ k + i - 1 <= Len(u)
          BY <1>2, <2>2, <3>1, <4>1, <4>3
        <5>. QED
          BY <3>1, <3>4, <4>1, <4>2, <4>3, <5>1
      <4>4. CASE ~ (i <= Len(s))
        <5>1. ~ (k + i - 1 <= Len(u)) /\ (k + i - 1) - Len(u) = i - Len(s)
          BY <1>2, <2>2, <3>1, <4>1, <4>4
        <5>. QED
          BY <3>4, <4>1, <4>2, <4>4, <5>1
      <4>. QED
        BY <4>3, <4>4
    <3>7. s \o v = t
      BY <3>2, <3>3, <3>5, <3>6, SeqEqual
    <3>. QED
      BY <3>7 DEF s, t
  <2>3. k = Len(u) + 1 \/ k \in 1 .. Len(u)
    BY <1>2
  <2>. QED
    BY <2>1, <2>2, <2>3
<1>5. Found(Found(u)[1].rest \o v)[1] = Found(b)[k]
  <2>1. Found(u)[1].rest \o v = SubSeq(b, k, Len(b))
    BY <1>3, <1>4
  <2>2. CASE k \in 1 .. Len(b)
    <3>1. Found(SubSeq(b, k, Len(b)))[1] = Found(b)[k]
      BY <2>2, FoundInRest
    <3>. QED
      BY <2>1, <3>1
  <2>3. CASE k \notin 1 .. Len(b)
    <3>1. k = Len(b) + 1
      BY <1>2, <2>3
    <3>2. SubSeq(b, k, Len(b)) = << >>
      BY <1>2, <3>1, SubSeqEmpty
    <3>3. Found(b)[k] = Nothing
      <4>1. Found(b)[k] = At(b, Found(b), k) /\ k > Len(b)
        BY <1>2, <3>1, FoundIs
      <4>. QED
        BY <4>1, AtIs
    <3>4. PICK none \in Seq(Bytes) : none = << >> /\ Len(none) = 0
      BY EmptySeq
    <3>5. Found(none)[1] = At(none, Found(none), 1) /\ 1 > Len(none)
      <4>1. 1 \in 1 .. Len(none) + 1 /\ 1 > Len(none)
        BY <3>4
      <4>. QED
        BY <4>1, FoundIs
    <3>6. Found(none)[1] = Nothing
      BY <3>5, AtIs
    <3>. QED
      BY <2>1, <3>2, <3>3, <3>4, <3>6
  <2>. QED
    BY <2>2, <2>3
<1>. QED
  BY <1>1, <1>3, <1>5 DEF Search

-----------------------------------------------------------------------------
(* What the line and the buffer hold is bytes.                             *)

\* The checksum of the two payloads of the model: the sum of their bytes is there.
LEMMA ChecksumIs ==
  ASSUME NEW p \in Seq(Bytes), Len(p) \in {1, 2}
  PROVE  Checksum(p) \in Bytes
<1> DEFINE Partial(f) == [i \in 0 .. Len(p) |-> IF i = 0 THEN 0 ELSE f[i - 1] + p[i]]
           g == [i \in 0 .. Len(p) |->
                   IF i = 0 THEN 0 ELSE IF i = 1 THEN p[1] ELSE p[1] + p[2]]
           sum == CHOOSE f : f = Partial(f)
<1>1. p[1] \in Nat /\ (Len(p) = 2 => p[2] \in Nat)
  <2>1. p[1] \in Bytes /\ (Len(p) = 2 => p[2] \in Bytes)
    BY ElementOfSeq
  <2>. QED
    BY <2>1, ByteIs
<1>2. g = Partial(g)
  <2>1. ASSUME NEW i \in 0 .. Len(p)
        PROVE  g[i] = IF i = 0 THEN 0 ELSE g[i - 1] + p[i]
    <3>1. CASE i = 0
      BY <3>1
    <3>2. CASE i = 1
      BY <1>1, <3>2
    <3>3. CASE i = 2
      BY <1>1, <3>3
    <3>. QED
      BY <3>1, <3>2, <3>3
  <2>. QED
    BY <2>1
<1>3. sum = Partial(sum)
  BY <1>2
<1> HIDE DEF g, sum
<1>4. sum[0] = 0 /\ sum[1] = sum[0] + p[1] /\ (Len(p) = 2 => sum[2] = sum[1] + p[2])
  <2>1. \A i \in 0 .. Len(p) : sum[i] = IF i = 0 THEN 0 ELSE sum[i - 1] + p[i]
    BY <1>3
  <2>2. 0 \in 0 .. Len(p) /\ 1 \in 0 .. Len(p) /\ (Len(p) = 2 => 2 \in 0 .. Len(p))
    OBVIOUS
  <2>. QED
    BY <2>1, <2>2
<1>5. sum[Len(p)] \in Nat
  <2>1. sum[1] \in Nat /\ (Len(p) = 2 => sum[2] \in Nat)
    BY <1>1, <1>4
  <2>2. Len(p) = 1 \/ Len(p) = 2
    OBVIOUS
  <2>. QED
    BY <2>1, <2>2
<1>6. Checksum(p) = sum[Len(p)] % Base
  BY Zenon DEF Checksum, sum
<1>. QED
  BY <1>5, <1>6, ReceiverAssumption DEF Bytes

LEMMA PairIs ==
  ASSUME NEW x \in Bytes, NEW y \in Bytes
  PROVE  << x, y >> \in Seq(Bytes)
OBVIOUS

LEMMA FrameIs ==
  ASSUME NEW p \in Seq(Bytes), Len(p) \in {1, 2}
  PROVE  Frame(p) \in Seq(Bytes)
<1>1. {2, 3} \subseteq Bytes /\ Len(p) \in Bytes /\ Checksum(p) \in Bytes
  <2>1. 1 \in Bytes /\ 2 \in Bytes /\ 3 \in Bytes
    BY ReceiverAssumption DEF Bytes
  <2>2. Len(p) = 1 \/ Len(p) = 2
    OBVIOUS
  <2>. QED
    BY <2>1, <2>2, ChecksumIs
<1>2. PICK x \in Seq(Bytes) : x = << SmallStart, Len(p) >>
  <2>1. << SmallStart, Len(p) >> \in Seq(Bytes)
    BY <1>1, PairIs DEF SmallStart
  <2>. QED
    BY <2>1
<1>3. PICK y \in Seq(Bytes) : y = << Checksum(p), End >>
  <2>1. << Checksum(p), End >> \in Seq(Bytes)
    BY <1>1, PairIs DEF End
  <2>. QED
    BY <2>1
<1>4. x \o p \o y \in Seq(Bytes)
  BY ConcatProperties
<1>. QED
  BY <1>2, <1>3, <1>4 DEF Frame

LEMMA DisturbedIs ==
  ASSUME NEW f \in Seq(Bytes), NEW g \in Disturbed(f)
  PROVE  g \in Seq(Bytes)
<1>1. PICK k \in 1 .. Len(f) :
        \/ g = SubSeq(f, 1, k - 1) \o SubSeq(f, k + 1, Len(f))
        \/ \E e \in Bytes : g = [f EXCEPT ![k] = e]
  BY DEF Disturbed
<1>2. ASSUME NEW m \in 1 .. Len(f) + 1, NEW n \in 0 .. Len(f)
      PROVE  SubSeq(f, m, n) \in Seq(Bytes)
  <2>1. \A i \in m .. n : f[i] \in Bytes
    BY ElementOfSeq
  <2>. QED
    BY <2>1, SubSeqProperties
<1>3. SubSeq(f, 1, k - 1) \in Seq(Bytes) /\ SubSeq(f, k + 1, Len(f)) \in Seq(Bytes)
  BY <1>2
<1>4. SubSeq(f, 1, k - 1) \o SubSeq(f, k + 1, Len(f)) \in Seq(Bytes)
  BY <1>3, ConcatProperties
<1>5. \A e \in Bytes : [f EXCEPT ![k] = e] \in Seq(Bytes)
  BY ExceptSeq
<1>. QED
  BY <1>1, <1>4, <1>5

LEMMA AnswerIs ==
  ASSUME ReceiverTypeOK, NEW p \in Seq(Bytes), Len(p) \in {1, 2}, Answer(p)
  PROVE  line' \in Seq(Bytes) /\ noise' \in 0 .. MaxNoise
<1>1. \A f \in Seq(Bytes) : line \o f \in Seq(Bytes)
  BY ConcatProperties DEF ReceiverTypeOK
<1>2. CASE line' = line \o Frame(p) /\ UNCHANGED noise
  BY <1>1, <1>2, FrameIs DEF ReceiverTypeOK
<1>3. CASE /\ noise < MaxNoise /\ noise' = noise + 1
           /\ \E f \in Disturbed(Frame(p)) : line' = line \o f
  <2>1. line' \in Seq(Bytes)
    BY <1>1, <1>3, FrameIs, DisturbedIs
  <2>2. noise' \in 0 .. MaxNoise
    BY <1>3, ReceiverAssumption DEF ReceiverTypeOK
  <2>. QED
    BY <2>1, <2>2
<1>. QED
  BY <1>2, <1>3 DEF Answer

\* The two answers of the VESC.
LEMMA AnswersAre ==
  /\ << FWVersion >> \in Seq(Bytes) /\ Len(<< FWVersion >>) \in {1, 2}
  /\ \A x \in Data : << Values, x >> \in Seq(Bytes) /\ Len(<< Values, x >>) \in {1, 2}
<1>1. 0 \in Bytes /\ 1 \in Bytes /\ Data \subseteq Bytes
  BY ReceiverAssumption DEF Bytes
<1>. QED
  BY <1>1 DEF FWVersion, Values

\* What a search leaves over is the end of what it looked at.
LEMMA SearchIs ==
  ASSUME NEW b \in Seq(Bytes)
  PROVE  Search(b).packets \in Seq(Bytes) /\ Search(b).rest \in Seq(Bytes)
<1>1. Search(b) \in Results
  BY FoundTyped DEF Search
<1>. QED
  BY <1>1 DEF Results

\* A read takes the first bytes of the line, and leaves the others.
LEMMA LineInTwo ==
  ASSUME ReceiverTypeOK, NEW n \in 0 .. Len(line)
  PROVE  /\ SubSeq(line, 1, n) \in Seq(Bytes)
         /\ SubSeq(line, n + 1, Len(line)) \in Seq(Bytes)
         /\ buffer \o SubSeq(line, 1, n) \in Seq(Bytes)
         /\ buffer \o line =
              (buffer \o SubSeq(line, 1, n)) \o SubSeq(line, n + 1, Len(line))
<1>0. line \in Seq(Bytes) /\ buffer \in Seq(Bytes) /\ Len(line) \in Nat /\ n \in Nat
  BY DEF ReceiverTypeOK
<1>1. ASSUME NEW m \in 1 .. Len(line) + 1, NEW k \in 0 .. Len(line)
      PROVE  SubSeq(line, m, k) \in Seq(Bytes)
  <2>1. \A i \in m .. k : line[i] \in Bytes
    BY <1>0, ElementOfSeq
  <2>. QED
    BY <1>0, <2>1, SubSeqProperties
<1>2. PICK x \in Seq(Bytes) : x = SubSeq(line, 1, n)
  <2>1. 1 \in 1 .. Len(line) + 1 /\ n \in 0 .. Len(line)
    BY <1>0
  <2>2. SubSeq(line, 1, n) \in Seq(Bytes)
    BY <1>1, <2>1
  <2>. QED
    BY <2>2
<1>3. PICK y \in Seq(Bytes) : y = SubSeq(line, n + 1, Len(line))
  <2>1. n + 1 \in 1 .. Len(line) + 1 /\ Len(line) \in 0 .. Len(line)
    BY <1>0
  <2>2. SubSeq(line, n + 1, Len(line)) \in Seq(Bytes)
    BY <1>1, <2>1
  <2>. QED
    BY <2>2
<1>4. x \o y = line
  <2>1. 1 \in 1 .. Len(line) + 1 /\ n \in 1 - 1 .. Len(line) /\ Len(line) \in n .. Len(line)
    BY <1>0
  <2>2. SubSeq(line, 1, n) \o SubSeq(line, n + 1, Len(line)) = SubSeq(line, 1, Len(line))
    BY <1>0, <2>1, ConcatAdjacentSubSeq
  <2>3. SubSeq(line, 1, Len(line)) = line
    BY <1>0, SubSeqFull
  <2>. QED
    BY <1>2, <1>3, <2>2, <2>3
<1>5. PICK z \in Seq(Bytes) : z = buffer
  BY <1>0
<1>6. (z \o x) \o y = z \o (x \o y) /\ z \o x \in Seq(Bytes)
  BY InAnyOrder, ConcatProperties
<1>. QED
  BY <1>2, <1>3, <1>4, <1>5, <1>6

\* The bytes of the line and the buffer are bytes, and the flags are what they can be.
THEOREM ReceiverTypeCorrect == ReceiverSpec => []ReceiverTypeOK
<1>1. ReceiverInit => ReceiverTypeOK
  <2> SUFFICES ASSUME ReceiverInit PROVE ReceiverTypeOK
    OBVIOUS
  <2>1. line \in Seq(Bytes) /\ buffer \in Seq(Bytes)
    BY EmptySeq DEF ReceiverInit
  <2>2. noise \in 0 .. MaxNoise
    BY ReceiverAssumption DEF ReceiverInit
  <2>. QED
    BY <2>1, <2>2 DEF ReceiverInit, ReceiverTypeOK
<1>2. ReceiverTypeOK /\ [ReceiverNext]_receiverVars => ReceiverTypeOK'
  <2> SUFFICES ASSUME ReceiverTypeOK, [ReceiverNext]_receiverVars PROVE ReceiverTypeOK'
    OBVIOUS
  <2>1. CASE TimerCallback
    <3>1. line' \in Seq(Bytes) /\ noise' \in 0 .. MaxNoise
      <4>1. PICK p \in Seq(Bytes) : Len(p) \in {1, 2} /\ Answer(p)
        <5>1. Answer(<< FWVersion >>) \/ \E x \in Data : Answer(<< Values, x >>)
          BY <2>1 DEF TimerCallback
        <5>. QED
          BY <5>1, AnswersAre, Zenon
      <4>. QED
        BY <4>1, AnswerIs
    <3>. QED
      BY <2>1, <3>1 DEF TimerCallback, ReceiverTypeOK
  <2>2. CASE Disconnect
    <3>1. line' \in Seq(Bytes) /\ noise' \in 0 .. MaxNoise
      <4>1. PICK p \in Seq(Bytes) : Len(p) \in {1, 2} /\ Answer(p)
        <5>1. Answer(<< FWVersion >>)
          BY <2>2 DEF Disconnect
        <5>. QED
          BY <5>1, AnswersAre, Zenon
      <4>. QED
        BY <4>1, AnswerIs
    <3>. QED
      BY <2>2, <3>1 DEF Disconnect, ReceiverTypeOK
  <2>3. CASE Joined
    BY <2>3 DEF Joined, ReceiverTypeOK
  <2>4. CASE TestRun
    BY <2>4 DEF TestRun, ReceiverTypeOK
  <2>5. ASSUME NEW n \in 1 .. Len(line), Receive(n) PROVE ReceiverTypeOK'
    <3>1. n \in 0 .. Len(line)
      OBVIOUS
    <3>2. buffer' = Read(n).rest /\ line' = SubSeq(line, n + 1, Len(line))
          /\ version' \in BOOLEAN
      BY <2>5 DEF Receive, ReceiverTypeOK
    <3>3. line' \in Seq(Bytes) /\ buffer' \in Seq(Bytes)
      BY <3>1, <3>2, LineInTwo, SearchIs DEF Read
    <3>. QED
      BY <2>5, <3>2, <3>3 DEF Receive, ReceiverTypeOK
  <2>6. CASE UNCHANGED receiverVars
    BY <2>6 DEF receiverVars, ReceiverTypeOK
  <2>. QED
    BY <2>1, <2>2, <2>3, <2>4, <2>5, <2>6 DEF ReceiverNext, Thread
<1>. QED
  BY <1>1, <1>2, PTL DEF ReceiverSpec

\* How the port cuts the bytes into reads makes no difference to what is found in them,
\* and what is left over for the next read, whatever the bytes are.
THEOREM CutsNeverMatter == ReceiverSpec => []CutsDoNotMatter
<1>1. ReceiverTypeOK => CutsDoNotMatter
  <2> SUFFICES ASSUME ReceiverTypeOK, NEW n \in 0 .. Len(line)
               PROVE  Search(buffer \o line) =
                        [packets |-> Read(n).packets \o
                           Search(Read(n).rest \o SubSeq(line, n + 1, Len(line))).packets,
                         rest |-> Search(Read(n).rest \o SubSeq(line, n + 1, Len(line))).rest]
    BY Zenon DEF CutsDoNotMatter
  <2>1. PICK u \in Seq(Bytes) : u = buffer \o SubSeq(line, 1, n)
    BY LineInTwo
  <2>2. PICK v \in Seq(Bytes) : v = SubSeq(line, n + 1, Len(line))
    BY LineInTwo
  <2>3. buffer \o line = u \o v
    BY <2>1, <2>2, LineInTwo
  <2>4. Read(n) = Search(u)
    BY <2>1 DEF Read
  <2>5. Search(u \o v) =
          [packets |-> Search(u).packets \o Search(Search(u).rest \o v).packets,
           rest |-> Search(Search(u).rest \o v).rest]
    BY SearchInTwo, Zenon
  <2>. QED
    BY <2>2, <2>3, <2>4, <2>5, Zenon
<1>. QED
  BY <1>1, ReceiverTypeCorrect, PTL

=============================================================================
