---------------------------- MODULE MCHostTransport ----------------------------
(* HostTransport over frames of four and five bytes, two of them back to back, *)
(* a frame broken off, and one with a damaged checksum.                        *)
EXTENDS HostTransport

Short == Frame(<<2>>, "kHost").bytes
Long  == Frame(<<3, 1>>, "kHost").bytes

MCBursts == {Short, Long \o Short, SubSeq(Long, 1, 3), <<3, 1, 2, 3>>}
MCFrames == {Frame(<<2>>, "kAuxBus"), Frame(<<1, 0>>, "kAuxBus")}

\* Bound: two bursts in, or one burst in and one frame out, or four frames out.
Traffic == (bursts + 1) * (aux_frames + 1) <= 5

MCHostSpec == HostInit /\ [][HostNext /\ Traffic']_hostVars /\ HostFairness
================================================================================
