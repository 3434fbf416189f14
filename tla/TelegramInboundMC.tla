-------------------------- MODULE TelegramInboundMC --------------------------
(***************************************************************************)
(* Small instances of TelegramInbound for TLC: updates of every kind, in an*)
(* order that puts commands before, between and after the others.          *)
(***************************************************************************)
EXTENDS TelegramInbound

EveryKind == <<"command", "unauthorized", "no text", "unknown", "command">>

ThreeKinds == <<"command", "unauthorized", "command">>
=============================================================================
