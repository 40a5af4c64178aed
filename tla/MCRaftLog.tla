----------------------------- MODULE MCRaftLog -----------------------------
(***************************************************************************)
(* A cluster of one initial member, which may add a second host: its first *)
(* id, 2, is that of the newcomer's process; later ids exist only in the   *)
(* log.                                                                    *)
(***************************************************************************)
EXTENDS RaftLog

MCHome == <<"h1">>
MCBootstrap == {1}
MCNodes == {1, 2}
=============================================================================
