------------------------------- MODULE MCChat -------------------------------
(***************************************************************************)
(* An instance of Chat for TLC.  The writer decrypts what it read from its *)
(* cache at once; only in the reader something may come between the two.   *)
(***************************************************************************)
EXTENDS Chat, TLC

CONSTANTS a, b

\* The clock of b is two ahead: what it sends sorts after the next message of a,
\* and level with the one after that.
MCSkew == a :> 0 @@ b :> 2

\* One message is there already, of b.
MCEarlier == <<b>>

MCNext == Next /\ (cached[a] # <<>> => cached'[a] = <<>>)
MCSpec == Init /\ [][MCNext]_vars
=============================================================================
