------------------------------ MODULE MCProxy ------------------------------
(* Values for the constants of Proxy. *)
EXTENDS Proxy, TLC

CONSTANTS x1, ch1, ch2, address, hash

SameScript == x1 :> <<{address, hash}, {address, hash}>>
AddressOnly == {{address}}
Symmetric   == Permutations(Client)

Push(ch, asked, parses, route) ==
  [event |-> "push", row |-> <<x1, ch>>, parses |-> parses, asked |-> asked, route |-> route]
AllRequests ==
  {Push(ch1, TRUE, TRUE, "mapi"), Push(ch2, TRUE, TRUE, "merchantapi"), Push(ch1, TRUE, FALSE, "mapi"),
   [Push(ch2, FALSE, FALSE, "mapi") EXCEPT !.event = "status"]}
CheckedPush == {Push(ch1, TRUE, TRUE, "mapi")}
=============================================================================
