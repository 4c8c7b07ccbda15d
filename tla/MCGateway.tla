------------------------------ MODULE MCGateway ------------------------------
(* A user who is allowed to give commands, in one of two chats, and one    *)
(* who is not.                                                             *)
EXTENDS Gateway

CONSTANTS owner, other, home, elsewhere, v1, v2

Says(who, where, what, master, mode) ==
  [user |-> who, chat |-> where, what |-> what, master |-> master, mode |-> mode]

Run(mode) == Says(owner, home, "run", Absent, mode)
Photo == Says(owner, home, "photo", Absent, Absent)
SetMode(value) == Says(owner, home, "mode", Absent, value)

(* Two settings, of which the second may be refused or about something     *)
(* else, and a run with or without an option of its own; or a run before   *)
(* another, and a photo before or between.                                 *)
MCMessages ==
  <<{Photo, Run(Absent), SetMode(v2)},
    {Photo, SetMode(v1), SetMode(Unknown), Says(owner, home, "master", v2, Absent),
     Says(other, home, "mode", Absent, v2), Says(owner, elsewhere, "mode", Absent, v2)},
    {Run(Absent), Run(v1)}>>
=============================================================================
