----------------------------- MODULE MCTelegram -----------------------------
(* Two paths, three tasks and two presses: a note that holds the guard, a  *)
(* press and another note behind it; two errors next to a note; and so on. *)
EXTENDS Telegram

CONSTANTS p1, p2

MCPaths == {p1, p2}
MCToldBefore == {{}, {p1}}
=============================================================================
