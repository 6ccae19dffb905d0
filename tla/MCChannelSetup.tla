---------------------------- MODULE MCChannelSetup ----------------------------
(* Through a proxy and directly, with the same and with different          *)
(* versions, up to three data units each way.                              *)
EXTENDS ChannelSetup
===============================================================================
