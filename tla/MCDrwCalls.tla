---------------------------- MODULE MCDrwCalls ----------------------------
(* Instances of DrwCalls for TLC. *)
EXTENDS DrwCalls

(* Two kinds of request, as get_inode_by_name makes: a lookup, a creation. *)
MCCommands == {"judge", "creat"}
=============================================================================
