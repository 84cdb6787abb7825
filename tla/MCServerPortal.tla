--------------------------- MODULE MCServerPortal ---------------------------
(* ServerPortal for TLC: what the far end sends. *)
EXTENDS ServerPortal

Request(kind, to) == [type |-> "Request", kind |-> kind, to |-> to]

\* Every branch of the portal task: requests of each kind, with as many
\* recipients as make a difference, and one frame of each other sort.  The far
\* end never learns the id of a Portal::exchange, so it responds to others.
EveryFrame ==
  {Request("None", <<"a">>), Request("Notification", <<"a", "b">>),
   Request("RequestResponse", <<"a">>), Request("RequestResponse", <<>>),
   [type |-> "Response", id |-> "other"], [type |-> "Status"], [type |-> "Inert"]}
=============================================================================
