------------------------------ MODULE MCUsbBridge ------------------------------
(* UsbBridge over frames of four bytes; the long one has six, the longer 15. *)
EXTENDS UsbBridge

First  == Frame(<<2>>, "kHost")
Long   == Frame(<<1, 2, 1>>, "kHost")

Longer == Frame([i \in 1..12 |-> 1], "kHost")

OneHostPacket  == {First}
LongAndShort   == {Long, First}
LongerAndShort == {Longer, First}

OneMountFrame  == {Frame(<<0>>, "kAuxBus")}
TwoMountFrames == OneMountFrame \cup {Frame(<<1>>, "kAuxBus")}
================================================================================
