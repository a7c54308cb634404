----------------------- MODULE MCPersistentConnection -----------------------
(* Instances of PersistentConnection: the observer of the profile, which   *)
(* stays, and a query that is read once.                                   *)
EXTENDS PersistentConnection

CONSTANTS profile, once

ThePermanent == {profile}
TheSingle == {once}
NoSingle == {}

==============================================================================
