----------------------------- MODULE MCSysdeps ------------------------------
(* Instances of Sysdeps for TLC: three modules and a linker whose output is   *)
(* executable at once; two, and tools that fail; three, and a build that is   *)
(* killed twice.                                                              *)
EXTENDS Sysdeps

CONSTANTS m1, m2, m3

World(early, fail, kills, asked) ==
  [early |-> early, fail |-> fail, kills |-> kills, asked |-> asked]
MCWorlds == {World(TRUE, FALSE, 0, Module),
             World(FALSE, TRUE, 0, {m1, m2}),
             World(FALSE, FALSE, 2, Module)}
OneBuild == {World(FALSE, FALSE, 0, {m1, m2})}
=============================================================================
