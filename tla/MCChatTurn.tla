------------------------------ MODULE MCChatTurn ------------------------------
(* A small instance of ChatTurn for TLC: names and ids are model values.    *)
EXTENDS ChatTurn
===============================================================================
