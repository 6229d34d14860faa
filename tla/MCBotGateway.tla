---------------------------- MODULE MCBotGateway ----------------------------
(* A bot with two connections at a time, a queue of two events, and two streams *)
EXTENDS BotGateway
=============================================================================
