----------------------------- MODULE MCChannels -----------------------------
(***************************************************************************)
(* Channels with two ports, which the channel code treats alike.           *)
(***************************************************************************)
EXTENDS Channels, TLC

PortSymmetry == Permutations(Ports)
=============================================================================
