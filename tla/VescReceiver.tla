----------------------------- MODULE VescReceiver -----------------------------
(***************************************************************************)
(* Telemetry of the motor: the VESC answers requests of vesc_driver.cpp    *)
(* with frames, which the thread of vesc_interface.cpp finds in the bytes  *)
(* that it reads from the serial port (vesc_packet_factory.cpp).           *)
(*                                                                         *)
(* A frame is a start, the length of the payload in one byte (start 2) or  *)
(* two (start 3), the payload, a checksum and the end 3.  The model has    *)
(* small bytes, and a checksum of one byte instead of two.  A payload is   *)
(* the kind of the answer and, of telemetry, a datum: any byte, which may  *)
(* look like a start.  The answer to requestImuData is like that to        *)
(* requestState and left out.                                              *)
(***************************************************************************)
EXTENDS Integers, Sequences

CONSTANTS
  Base,       \* a byte is less than this
  MaxPayload, \* VESC_MAX_PAYLOAD_SIZE
  Data,       \* what telemetry may say
  MaxLine,    \* bound of the bytes that are not yet read, when an answer comes
  MaxNoise    \* bound of the bytes that are disturbed on the line

ASSUME ReceiverAssumption ==
  /\ Base \in Nat /\ Base > 3
  /\ MaxPayload \in Nat \ {0, 1}
  /\ Data \subseteq 0 .. Base - 1
  /\ MaxLine \in Nat /\ MaxNoise \in Nat

VARIABLES
  line,    \* bytes that the port has received and the thread has not read
  buffer,  \* buffer_
  thread,  \* packet_creation_thread: "test", "receive", "ended"
  run,     \* packet_thread_run_
  version, \* fw_version_major_ is known
  driverMode, \* driver_mode_
  node,    \* "up", "joining" in disconnect, "down"
  noise    \* how often a byte was disturbed

receiverVars == << line, buffer, thread, run, version, driverMode, node, noise >>

Bytes == 0 .. Base - 1
FWVersion == 0
Values == 1

-----------------------------------------------------------------------------
(***************************************************************************)
(* Frames.                                                                 *)
(***************************************************************************)

SmallStart == 2
LargeStart == 3
End == 3
MinFrame == 4

Checksum(payload) ==
  LET sum[i \in 0 .. Len(payload)] == IF i = 0 THEN 0 ELSE sum[i - 1] + payload[i]
  IN  sum[Len(payload)] % Base

Frame(payload) ==
  << SmallStart, Len(payload) >> \o payload \o << Checksum(payload), End >>

IsStart(b) == b \in { SmallStart, LargeStart }

\* What createPacket makes of the bytes of b from i, which is a start: it needs
\* "more" bytes, there is "no" packet, or there is one of this size.
Payload(b, i) ==
  IF b[i] = SmallStart THEN [first |-> i + 2, size |-> b[i + 1]]
                       ELSE [first |-> i + 3, size |-> b[i + 1] * Base + b[i + 2]]

createPacket(b, i) ==
  IF Len(b) - i + 1 < MinFrame THEN "more"
  ELSE LET p == Payload(b, i)
           last == p.first + p.size + 1
           payload == SubSeq(b, p.first, p.first + p.size - 1)
       IN  IF p.size > MaxPayload THEN "no"
           ELSE IF Len(b) < last THEN "more"
           ELSE IF /\ b[last] = End
                   /\ b[last - 1] = Checksum(payload)
                   /\ p.size > 0
                   /\ Head(payload) \in { FWVersion, Values }
           THEN "packet" ELSE "no"

PacketEnd(b, i) == Payload(b, i).first + Payload(b, i).size + 1

\* Mutant: bytes that are not yet a frame are thrown away.
Found_Discard(b) ==
  LET from[i \in 1 .. Len(b) + 1] ==
        IF i > Len(b) THEN [packets |-> << >>, rest |-> << >>]
        ELSE IF ~ IsStart(b[i]) THEN from[i + 1]
        ELSE CASE createPacket(b, i) = "packet" ->
                    [from[PacketEnd(b, i) + 1] EXCEPT !.packets =
                       << b[Payload(b, i).first] >> \o @]
               [] createPacket(b, i) = "more" -> [packets |-> << >>, rest |-> << >>]
               [] createPacket(b, i) = "no" -> from[i + 1]
  IN  from

\* The packets in b from i, by their kind, and the bytes that stay in the buffer:
\* those from the first start that needs more.
Found(b) ==
  LET from[i \in 1 .. Len(b) + 1] ==
        IF i > Len(b) THEN [packets |-> << >>, rest |-> << >>]
        ELSE IF ~ IsStart(b[i]) THEN from[i + 1]
        ELSE CASE createPacket(b, i) = "packet" ->
                    [from[PacketEnd(b, i) + 1] EXCEPT !.packets =
                       << b[Payload(b, i).first] >> \o @]
               [] createPacket(b, i) = "more" ->
                    [packets |-> << >>, rest |-> SubSeq(b, i, Len(b))]
               [] createPacket(b, i) = "no" -> from[i + 1]
  IN  from

Search(b) == Found(b)[1]

-----------------------------------------------------------------------------
(***************************************************************************)
(* The VESC and the line.                                                  *)
(***************************************************************************)

Disturbed(f) ==
  UNION { { SubSeq(f, 1, k - 1) \o SubSeq(f, k + 1, Len(f)) } \union
          { [f EXCEPT ![k] = b] : b \in Bytes } : k \in 1 .. Len(f) }

Answer(payload) ==
  \/ line' = line \o Frame(payload) /\ UNCHANGED noise
  \/ /\ noise < MaxNoise /\ noise' = noise + 1
     /\ \E f \in Disturbed(Frame(payload)) : line' = line \o f

(***************************************************************************)
(* The driver: timerCallback, and disconnect in the destructor.            *)
(***************************************************************************)

TimerCallback ==
  /\ node = "up"
  /\ Len(line) <= MaxLine
  /\ IF driverMode = "initializing"
     THEN Answer(<< FWVersion >>)
     ELSE \E x \in Data : Answer(<< Values, x >>)
  /\ driverMode' = IF version THEN "operating" ELSE driverMode
  /\ UNCHANGED << buffer, thread, run, version, node >>

\* The answer lets the thread return from receive.
Disconnect ==
  /\ node = "up"
  /\ node' = "joining"
  /\ run' = FALSE
  /\ Answer(<< FWVersion >>)
  /\ UNCHANGED << buffer, thread, version, driverMode >>

Joined ==
  /\ node = "joining" /\ thread = "ended"
  /\ node' = "down"
  /\ UNCHANGED << line, buffer, thread, run, version, driverMode, noise >>

(***************************************************************************)
(* packet_creation_thread.                                                 *)
(***************************************************************************)

TestRun ==
  /\ thread = "test"
  /\ thread' = IF run THEN "receive" ELSE "ended"
  /\ UNCHANGED << line, buffer, run, version, driverMode, node, noise >>

\* Mutant: what stayed in the buffer is replaced by what was read.
Read_Replaces(n) == Search(SubSeq(line, 1, n))

Read(n) == Search(buffer \o SubSeq(line, 1, n))

\* receive returns what there is, at least one byte; vescPacketCallback keeps
\* the version and publishes telemetry.
Receive(n) ==
  /\ thread = "receive"
  /\ LET found == Read(n)
     IN  /\ buffer' = found.rest
         /\ version' = (version \/ \E i \in DOMAIN found.packets :
                                     found.packets[i] = FWVersion)
  /\ line' = SubSeq(line, n + 1, Len(line))
  /\ thread' = "test"
  /\ UNCHANGED << run, driverMode, node, noise >>

Thread == TestRun \/ \E n \in 1 .. Len(line) : Receive(n)

-----------------------------------------------------------------------------
ReceiverInit ==
  /\ line = << >> /\ buffer = << >> /\ thread = "test" /\ run = TRUE
  /\ version = FALSE /\ driverMode = "initializing" /\ node = "up" /\ noise = 0

ReceiverNext == TimerCallback \/ Disconnect \/ Joined \/ Thread

ReceiverSpec == ReceiverInit /\ [][ReceiverNext]_receiverVars

\* The timer and the thread run, the VESC answers.
LiveReceiverSpec ==
  /\ ReceiverSpec
  /\ WF_receiverVars(TimerCallback) /\ WF_receiverVars(Thread) /\ WF_receiverVars(Joined)

-----------------------------------------------------------------------------
ReceiverTypeOK ==
  /\ line \in Seq(Bytes) /\ buffer \in Seq(Bytes)
  /\ thread \in { "test", "receive", "ended" } /\ run \in BOOLEAN
  /\ version \in BOOLEAN /\ driverMode \in { "initializing", "operating" }
  /\ node \in { "up", "joining", "down" } /\ noise \in 0 .. MaxNoise

(***************************************************************************)
(* How the port cuts the bytes into reads makes no difference to what is   *)
(* found in them, and what is left over for the next read.                 *)
(***************************************************************************)
CutsDoNotMatter ==
  \A n \in 0 .. Len(line) :
    LET whole == Search(buffer \o line)
        first == Read(n)
        second == Search(first.rest \o SubSeq(line, n + 1, Len(line)))
    IN  whole = [packets |-> first.packets \o second.packets, rest |-> second.rest]

PublishesValues ==
  \E n \in 1 .. Len(line) :
    Receive(n) /\ \E i \in DOMAIN Read(n).packets : Read(n).packets[i] = Values

(***************************************************************************)
(* Bytes that were lost or changed do no lasting harm: the firmware        *)
(* answers, the driver operates and telemetry is published time and again, *)
(* though a false start may claim as many bytes as a frame can have.  And  *)
(* disconnect returns, though the thread may sleep in receive, which no    *)
(* flag wakes.                                                             *)
(***************************************************************************)
TelemetryFlows ==
  /\ <>[](node = "up") => []<><<PublishesValues>>_receiverVars
  /\ (node = "joining") ~> (node = "down")
=============================================================================
