------------------------------- MODULE MC_Tables -------------------------------
(* An instance for TLC of the two tables of who is who: the handle storage of *)
(* the node, and the sessions and coroutines of a Lua service.  A behaviour is *)
(* about one of them.                                                         *)
EXTENDS MC_SkynetHandle, SkynetLua

CONSTANTS co1, co2, co3, s1

VARIABLE table   \* the one this behaviour is about

both == <<vars, luaVars, table>>

HandleTable  == table = "handles"  /\ Next    /\ UNCHANGED <<luaVars, table>>
SessionTable == table = "sessions" /\ LuaNext /\ UNCHANGED <<vars, table>>

TablesInit == Init /\ LuaInit /\ table \in {"handles", "sessions"}

Tables == TablesInit /\ [][HandleTable \/ SessionTable]_both

=============================================================================
