----------------------------- MODULE MCSession -----------------------------
(* Two users, one password, one share and two directories for Session. *)
EXTENDS Session, TLC

CONSTANTS alice, bob, secret, share, top, sub     \* model values

MCUsers  == {alice, bob}
MCPasses == {secret}
MCPlaces == {share}
MCDirs   == {top, sub}
=============================================================================
