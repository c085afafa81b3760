----------------------------- MODULE MCAccessBot -----------------------------
(* A small configuration: one channel with a mask of its own and a role for *)
(* a nick that also has a global role, one channel with neither.            *)
EXTENDS AccessBot

CONSTANTS c1, c2, boss, user, o, t

MCChannelList == <<c2, c1>>
MCAccess == [masters |-> {o, t}, operators |-> {t}]
MCGlobalRoles == [n \in Nicks |-> IF n = boss THEN {"masters"} ELSE {}]
MCRoles == [c \in Channels |-> [n \in Nicks |-> IF c = c1 /\ n = boss THEN {"operators"} ELSE {}]]
MCMasks == [c \in Channels |-> IF c = c1 THEN {{o}} ELSE {}]

=============================================================================
