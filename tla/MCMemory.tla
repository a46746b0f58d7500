------------------------------- MODULE MCMemory -------------------------------
(* Two sessions that share one memory adapter.                                 *)
EXTENDS MemoryStore

TwoSessions == [kind : {"session"}, id : 1..2]
================================================================================
