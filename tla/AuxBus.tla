--------------------------------- MODULE AuxBus ---------------------------------
(***************************************************************************)
(* What is outside the transmitter: the UART's two queues, the half-duplex *)
(* bus, and the mount, which sends frames of its own.  A step of the bus   *)
(* is the time a byte takes on it, and every clock counts these steps, so  *)
(* the timeouts are scaled, not translated.                                *)
(***************************************************************************)
EXTENDS AuxTransmitter

CONSTANTS NoiseBytes,    \* the bytes a glitch on the bus is heard as
          MaxRound,      \* the longest time between two ticks
          MountRaces,    \* may the mount begin between our look and our claim
          ShortWrites,   \* may the UART take a part of a packet only
          MaxNoise       \* bound: how many glitches there are

ASSUME BusAssumption ==
  /\ NoiseBytes \subseteq Byte
  /\ MaxRound \in Nat \ {0}
  /\ {MountRaces, ShortWrites} \subseteq BOOLEAN
  /\ MaxNoise \in Nat

VARIABLES tx_fifo, rx_fifo, \* the UART's bytes to send and received
          mount,            \* the rest of the frame the mount sends
          noise,            \* how many stray bytes the bus has carried
          round_us,         \* the time since the last tick
          driven            \* history: the bytes driven since TX was enabled

fifos == <<tx_fifo, rx_fifo>>
bus   == <<fifos, mount, noise, round_us, driven>>

BusInit ==
  /\ Init
  /\ tx_fifo = <<>> /\ rx_fifo = <<>> /\ mount = <<>> /\ noise = 0
  /\ round_us = 0 /\ driven = <<>>

\* The bytes a tick writes, of which the UART takes all, or also less: then the
\* transmitter fails, but what it took will go out.
Writing == state = "kWrite" /\ ~Overdue

Taken == IF Writing /\ ShortWrites THEN 0..Size(packet) ELSE {Size(packet)}

\* tick() with the pins and the UART as they are; CTS tells of the mount.
TickOnBus ==
  /\ \E taken \in Taken :
       /\ Tick(mount # <<>>, taken = Size(packet), tx_fifo = <<>>)
       /\ tx_fifo' = IF Writing THEN tx_fifo \o SubSeq(packet.bytes, 1, taken) ELSE tx_fifo
  /\ driven' = IF tx_enabled' THEN driven ELSE <<>>
  /\ round_us' = 0
  /\ UNCHANGED <<rx_fifo, mount, noise>>

Driving == tx_enabled /\ tx_fifo # <<>>

\* What the bus carries during a step: our byte and the mount's may collide into
\* anything, and a quiet bus may glitch.
Heard ==
  CASE Driving /\ mount # <<>> -> {<<b>> : b \in Byte}
    [] Driving /\ mount = <<>> -> {<<Head(tx_fifo)>>}
    [] ~Driving /\ mount # <<>> -> {<<Head(mount)>>}
    [] OTHER -> {<<>>} \cup (IF noise < MaxNoise THEN {<<b>> : b \in NoiseBytes} ELSE {})

Shift(fifo) == IF fifo = <<>> THEN <<>> ELSE Tail(fifo)

\* The UART shifts a byte out whether or not the TX buffer lets it through.  At
\* rest no age is measured, so the clock may stand still.
BusMoves(at_rest) ==
  /\ round_us < MaxRound
  /\ \E heard \in Heard :
       /\ rx_fifo' = rx_fifo \o heard
       /\ noise' = IF tx_fifo = <<>> /\ mount = <<>> THEN noise + Len(heard) ELSE noise
  /\ driven' = IF Driving THEN Append(driven, Head(tx_fifo)) ELSE driven
  /\ tx_fifo' = Shift(tx_fifo) /\ mount' = Shift(mount)
  /\ round_us' = round_us + 1
  /\ IF at_rest /\ tx_fifo = <<>> /\ rx_fifo = <<>> /\ mount = <<>>
       THEN UNCHANGED vars ELSE Elapse(1)

\* The mount obeys BUSY and does not begin while it hears us.
MountSends(f) ==
  /\ mount = <<>> /\ ~busy_asserted
  /\ MountRaces \/ state # "kBusyClaim"
  /\ mount' = f.bytes
  /\ UNCHANGED <<vars, fifos, noise, round_us, driven>>
================================================================================
