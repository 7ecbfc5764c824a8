----------------------------- MODULE MCSession -----------------------------
(* TLC instances of Session: channels of one to three frames, and a pool that *)
(* asks for up to three cleanups.                                             *)
EXTENDS Session
=============================================================================
