------------------------------- MODULE DrivePath -------------------------------
(***************************************************************************)
(* From the key or the controller to the motor: keyboard_joy_node.py with  *)
(* its two threads, simple_mux_node.py, ackermann_to_vesc and vesc_driver. *)
(*                                                                         *)
(* Time passes in ticks of 20 ms, the period of both loops.  No clock is   *)
(* kept: a message has ages, which grow with every tick and end where no   *)
(* property tells them apart.  A speed is 0 or not, and one command of     *)
(* speed 0 is like another, and like none at all: the multiplexer drives   *)
(* all of them as zero.  Steering takes the same way and is left out.      *)
(* Topics keep their order and deliver within the delay of their hop, so   *)
(* their queues of depth 10 do not overflow.                               *)
(***************************************************************************)
EXTENDS Integers, Sequences

CONSTANTS
  Fresh,      \* joy_freshness_threshold, in ticks
  JoyDelay,   \* longest way of /joy
  DriveDelay, \* longest way of high_level/ackermann_cmd
  CmdDelay,   \* longest way from the multiplexer through ackermann_to_vesc
  Ahead       \* how far the controller's clock is ahead of the multiplexer's

ASSUME DrivePathAssumption ==
  /\ Fresh \in Nat \ {0} /\ JoyDelay \in Nat /\ DriveDelay \in Nat
  /\ CmdDelay \in Nat /\ Ahead \in Nat

VARIABLES
  held,       \* the Up key is in _held
  speed,      \* self.speed of the keyboard node, while _publish will read it
  mode,       \* self.mode
  loop,       \* its timer in this tick: "due", "computed", "done"
  listening,  \* its listener thread runs
  keyboard,   \* the node runs
  joy,        \* /joy: [speed, mode, age]
  host,       \* current_host of the multiplexer
  human,      \* human_drive: [stamp, age]; stamp is now minus its stamp
  auto,       \* autodrive: the same
  muxLoop,    \* its timer in this tick: "due", "done"
  mux,        \* the multiplexer runs
  cmd,        \* out_topic: [from, age, wait]; from "none" is speed 0
  driver,     \* driver_mode_
  motor,      \* the last speed sent to the motor: [from, age]
  released,   \* ticks since Up was released, 0 while it is held
  overridden  \* ticks since H, 0 while the mode is auto

keyboardVars == << held, speed, mode, loop, listening, keyboard >>
muxVars == << host, human, auto, muxLoop, mux >>
vescVars == << driver, motor >>
userVars == << released, overridden >>
vars == << keyboardVars, joy, muxVars, cmd, vescVars, userVars >>

-----------------------------------------------------------------------------
(***************************************************************************)
(* Time.                                                                   *)
(***************************************************************************)

\* A command is at most this old, from its source, when it drives the motor.
StopTime ==
  Fresh + (IF JoyDelay > Ahead THEN JoyDelay ELSE Ahead) + CmdDelay

\* What the user does reaches the motor within these ticks.
ReactionTime == JoyDelay + CmdDelay + 3

Older(age, limit) == IF age < limit THEN age + 1 ELSE age

Since(age) == IF age = 0 THEN 0 ELSE Older(age, ReactionTime + 1)

\* No command, one too old to be fresh again, or one of speed 0.
NoCommand == [stamp |-> Fresh, age |-> 0]

Command(stamp, age) ==
  IF stamp < Fresh THEN [stamp |-> stamp, age |-> age] ELSE NoCommand

Aged(c) == Command(c.stamp + 1, c.age + 1)

\* A command on its way to the motor, and its speed 0.
Stop == [from |-> "none", age |-> 0]

OlderDrive(d) ==
  IF d.from = "none" THEN d ELSE [d EXCEPT !.age = Older(@, StopTime + 1)]

-----------------------------------------------------------------------------
(***************************************************************************)
(* The user and the listener thread of the keyboard node, which handles    *)
(* key events one at a time.                                               *)
(***************************************************************************)

PressUp ==
  /\ listening /\ ~held
  /\ held' = TRUE
  /\ released' = 0
  /\ UNCHANGED << speed, mode, loop, listening, keyboard, joy, muxVars, cmd,
                  vescVars, overridden >>

\* Mutant: the key stays in _held.
ReleaseUp_Held ==
  /\ held /\ released = 0
  /\ released' = 1
  /\ UNCHANGED << keyboardVars, joy, muxVars, cmd, vescVars, overridden >>

\* After Q nobody listens, and the key stays in _held.
ReleaseUp ==
  /\ held /\ released = 0
  /\ held' = ~listening
  /\ released' = 1
  /\ UNCHANGED << speed, mode, loop, listening, keyboard, joy, muxVars, cmd,
                  vescVars, overridden >>

\* Only the timer between its two lines still sees this speed.
PressSpace ==
  /\ listening
  /\ speed' = 0
  /\ UNCHANGED << held, mode, loop, listening, keyboard, joy, muxVars, cmd,
                  vescVars, userVars >>

PressH ==
  /\ listening /\ mode = "auto"
  /\ mode' = "human"
  /\ overridden' = 1
  /\ UNCHANGED << held, speed, loop, listening, keyboard, joy, muxVars, cmd,
                  vescVars, released >>

PressA ==
  /\ listening /\ mode = "human"
  /\ mode' = "auto"
  /\ overridden' = 0
  /\ UNCHANGED << held, speed, loop, listening, keyboard, joy, muxVars, cmd,
                  vescVars, released >>

\* KeyboardInterrupt in the listener ends that thread, and only that thread.
PressQ ==
  /\ listening
  /\ listening' = FALSE
  /\ UNCHANGED << held, speed, mode, loop, keyboard, joy, muxVars, cmd,
                  vescVars, userVars >>

(***************************************************************************)
(* The keyboard node's timer: _loop and _publish; its death and start.     *)
(***************************************************************************)

KeyboardCompute ==
  /\ keyboard /\ loop = "due"
  /\ speed' = IF held THEN 1 ELSE 0
  /\ loop' = "computed"
  /\ UNCHANGED << held, mode, listening, keyboard, joy, muxVars, cmd, vescVars,
                  userVars >>

KeyboardPublish ==
  /\ keyboard /\ loop = "computed"
  /\ joy' = IF mux THEN Append(joy, [speed |-> speed, mode |-> mode, age |-> 0])
                   ELSE joy
  /\ loop' = "done" /\ speed' = 0
  /\ UNCHANGED << held, mode, listening, keyboard, muxVars, cmd, vescVars,
                  userVars >>

\* The process ends, with its listener and its state.
KeyboardDies ==
  /\ keyboard
  /\ keyboard' = FALSE /\ listening' = FALSE
  /\ held' = FALSE /\ speed' = 0 /\ mode' = "human" /\ loop' = "done"
  /\ released' = 0 /\ overridden' = 0
  /\ UNCHANGED << joy, muxVars, cmd, vescVars >>

\* It is started again, in the human mode; its timer is due a period later.
KeyboardStarts ==
  /\ ~keyboard
  /\ keyboard' = TRUE /\ listening' = TRUE
  /\ released' = 1 /\ overridden' = 1
  /\ UNCHANGED << held, speed, mode, loop, joy, muxVars, cmd, vescVars >>

(***************************************************************************)
(* The multiplexer.                                                        *)
(***************************************************************************)

\* Mutant: only a human who drives takes over.
JoyCb_Moving ==
  /\ mux /\ joy # << >>
  /\ LET m == Head(joy)
     IN /\ human' = IF m.speed = 0 THEN NoCommand ELSE Command(0, m.age)
        /\ host' = IF m.mode = "auto" THEN "autodrive"
                   ELSE IF m.speed # 0 THEN "humandrive" ELSE host
  /\ joy' = Tail(joy)
  /\ UNCHANGED << keyboardVars, auto, muxLoop, mux, cmd, vescVars, userVars >>

\* _joy_cb: the mode human brings its command along, stamped here.
JoyCb ==
  /\ mux /\ joy # << >>
  /\ LET m == Head(joy)
     IN IF m.mode = "human"
        THEN /\ human' = IF m.speed = 0 THEN NoCommand ELSE Command(0, m.age)
             /\ host' = "humandrive"
        ELSE /\ host' = "autodrive"
             /\ UNCHANGED human
  /\ joy' = Tail(joy)
  /\ UNCHANGED << keyboardVars, auto, muxLoop, mux, cmd, vescVars, userVars >>

\* _drive_cb: a command of the controller that was on its way for age ticks.
DriveCb ==
  /\ mux
  /\ \/ \E age \in 0 .. DriveDelay : auto' = Command(age - Ahead, age)
     \/ auto' = NoCommand
  /\ UNCHANGED << keyboardVars, joy, host, human, muxLoop, mux, cmd, vescVars,
                  userVars >>

\* Mutant: only what came since the last loop is fresh.
IsFresh_Now(c) == c.stamp = 0

IsFresh(c) == -Fresh < c.stamp /\ c.stamp < Fresh

\* What _loop publishes.
Selected ==
  IF host = "autodrive" /\ IsFresh(auto)
  THEN [from |-> "auto", age |-> auto.age]
  ELSE IF host = "humandrive" /\ IsFresh(human)
  THEN [from |-> "human", age |-> human.age]
  ELSE Stop

\* Mutant: when nothing is fresh, nothing is published.
MuxLoop_Silent ==
  /\ mux /\ muxLoop = "due"
  /\ cmd' = IF Selected = Stop THEN cmd
            ELSE Append(cmd, [from |-> Selected.from, age |-> Selected.age, wait |-> 0])
  /\ muxLoop' = "done"
  /\ UNCHANGED << keyboardVars, joy, host, human, auto, mux, vescVars, userVars >>

MuxLoop ==
  /\ mux /\ muxLoop = "due"
  /\ cmd' = Append(cmd, [from |-> Selected.from, age |-> Selected.age, wait |-> 0])
  /\ muxLoop' = "done"
  /\ UNCHANGED << keyboardVars, joy, host, human, auto, mux, vescVars, userVars >>

MuxDies ==
  /\ mux
  /\ mux' = FALSE /\ muxLoop' = "done"
  /\ host' = "none" /\ human' = NoCommand /\ auto' = NoCommand
  /\ joy' = << >>
  /\ UNCHANGED << keyboardVars, cmd, vescVars, userVars >>

(***************************************************************************)
(* The VESC driver.                                                        *)
(***************************************************************************)

\* timerCallback while initializing, once the receiving thread has the answer
\* to requestFWVersion.
DriverTimer ==
  /\ driver = "initializing"
  /\ driver' = "operating"
  /\ UNCHANGED << keyboardVars, joy, muxVars, cmd, motor, userVars >>

\* ackermannCmdCallback, then speedCallback.
SpeedCallback ==
  /\ cmd # << >>
  /\ cmd' = Tail(cmd)
  /\ motor' = IF driver = "operating"
              THEN [from |-> Head(cmd).from, age |-> Head(cmd).age]
              ELSE motor
  /\ UNCHANGED << keyboardVars, joy, muxVars, driver, userVars >>

-----------------------------------------------------------------------------
\* The next tick: timers are due, and nothing is later than its hop allows.
Tick ==
  /\ keyboard => loop = "done"
  /\ mux => muxLoop = "done"
  /\ \A i \in DOMAIN joy : joy[i].age < JoyDelay
  /\ \A i \in DOMAIN cmd : cmd[i].wait < CmdDelay
  /\ loop' = IF keyboard THEN "due" ELSE "done"
  /\ muxLoop' = IF mux THEN "due" ELSE "done"
  /\ joy' = [i \in DOMAIN joy |-> [joy[i] EXCEPT !.age = @ + 1]]
  /\ human' = Aged(human) /\ auto' = Aged(auto)
  /\ cmd' = [i \in DOMAIN cmd |-> [OlderDrive(cmd[i]) EXCEPT !.wait = @ + 1]]
  /\ motor' = OlderDrive(motor)
  /\ released' = Since(released) /\ overridden' = Since(overridden)
  /\ UNCHANGED << held, speed, mode, listening, keyboard, host, mux, driver >>

\* The parameter sim makes autodrive the first host.
Init ==
  /\ held = FALSE /\ speed = 0 /\ mode = "human" /\ loop = "due"
  /\ listening = TRUE /\ keyboard = TRUE
  /\ joy = << >>
  /\ host \in {"none", "autodrive"}
  /\ human = NoCommand /\ auto = NoCommand
  /\ muxLoop = "due" /\ mux = TRUE
  /\ cmd = << >>
  /\ driver = "initializing"
  /\ motor = Stop
  /\ released = 1 /\ overridden = 1

User == PressUp \/ ReleaseUp \/ PressSpace \/ PressH \/ PressA \/ PressQ

Keyboard == KeyboardCompute \/ KeyboardPublish \/ KeyboardDies \/ KeyboardStarts

Mux == JoyCb \/ DriveCb \/ MuxLoop \/ MuxDies

Vesc == DriverTimer \/ SpeedCallback

Next == User \/ Keyboard \/ Mux \/ Vesc \/ Tick

Spec == Init /\ [][Next]_vars

\* The nodes run, the serial port answers, time passes.
Fairness ==
  /\ WF_vars(KeyboardCompute) /\ WF_vars(KeyboardPublish)
  /\ WF_vars(JoyCb) /\ WF_vars(MuxLoop)
  /\ WF_vars(DriverTimer) /\ WF_vars(SpeedCallback)
  /\ WF_vars(Tick)

LiveSpec == Spec /\ Fairness

-----------------------------------------------------------------------------
(***************************************************************************)
(* Properties.                                                             *)
(***************************************************************************)

\* Every variable has its type, in particular every age its bound.
TypeOK ==
  /\ held \in BOOLEAN /\ speed \in {0, 1} /\ mode \in {"human", "auto"}
  /\ loop \in {"due", "computed", "done"}
  /\ listening \in BOOLEAN /\ keyboard \in BOOLEAN
  /\ joy \in Seq([speed : {0, 1}, mode : {"human", "auto"}, age : 0 .. JoyDelay])
  /\ host \in {"none", "humandrive", "autodrive"}
  /\ {human, auto} \subseteq [stamp : -Ahead .. Fresh, age : 0 .. StopTime]
  /\ muxLoop \in {"due", "done"} /\ mux \in BOOLEAN
  /\ cmd \in Seq([from : {"human", "auto", "none"}, age : 0 .. StopTime + 1,
                  wait : 0 .. CmdDelay])
  /\ driver \in {"initializing", "operating"}
  /\ motor \in [from : {"human", "auto", "none"}, age : 0 .. StopTime + 1]
  /\ released \in 0 .. ReactionTime + 1 /\ overridden \in 0 .. ReactionTime + 1

\* While the multiplexer runs, the motor turns only on a command that its
\* source gave within StopTime: whoever dies or falls silent, the keyboard
\* node or the controller, the car stops (_is_fresh and the zero command of
\* _loop, on which the driver, without a watchdog, relies).
SilenceStops == mux /\ motor.from # "none" => motor.age <= StopTime

\* A driver who pressed H has the car: soon the motor runs on no command of
\* the controller, whatever the controller sends and however the messages of
\* the two were under way.
HumanOverrides ==
  keyboard /\ mux /\ overridden > ReactionTime => motor.from # "auto"

\* "Up / Down : Forward / Reverse (resets on release)"
\* (keyboard_joy_node.py:44): soon after Up was released the motor does not
\* turn on the human's command.
ResetsOnRelease ==
  keyboard /\ mux /\ released > ReactionTime => motor.from # "human"

\* So it is while the listener runs, that is before Q, also if the mode went
\* to autodrive and back in between.
ReleaseStops == listening => ResetsOnRelease

\* While Up is held in the human mode and everything runs, the car drives
\* and does not stutter: no command gets too old between two of /joy.
CarFollowsKey ==
  (/\ <>[](held /\ mode = "human" /\ keyboard /\ mux)
   /\ <>[][~PressSpace]_vars)
    => <>[](motor.from = "human")
=============================================================================
