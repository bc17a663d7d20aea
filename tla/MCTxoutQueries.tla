--------------------------- MODULE MCTxoutQueries ---------------------------
(* A small family for SaveTxs and TxoutQueries: x spends both outputs of p, c    *)
(* spends x, and y is a double spend of an output that x spends.                 *)
EXTENDS TxoutQueries, TLC

CONSTANTS p, x, y, c, alice, bob, hashA, hashB

Family    == {p, x, y, c}
FamilyIn  == (p :> <<>>) @@ (x :> <<<<p, 1>>, <<p, 2>>>>) @@ (y :> <<<<p, 2>>>>)
               @@ (c :> <<<<x, 1>>>>)
FamilyOut == (p :> 2) @@ (x :> 1) @@ (y :> 1) @@ (c :> 1)

(* One transaction with its bytes, a child and its parent in one request, and an *)
(* id that is followed by its child.                                             *)
RawPost(t)     == [tx |-> t, raw |-> TRUE]
TxidPost(t)    == [tx |-> t, raw |-> FALSE]
FamilyRequests == {<<RawPost(t)>> : t \in Family}
                    \cup {<<RawPost(c), RawPost(x)>>, <<TxidPost(p), RawPost(x)>>}

(* Two outputs pay alice the same, one pays bob, the others have no address.     *)
FamilyAddress  == [o \in Outpoint |-> CASE o \in {<<y, 1>>, <<c, 1>>} -> alice
                                        [] o = <<p, 2>>              -> bob
                                        [] OTHER                      -> Nothing]
FamilyHash     == [o \in Outpoint |-> IF AddressOf[o] = alice THEN hashA ELSE hashB]
FamilySatoshis == [o \in Outpoint |-> IF o = <<p, 2>> THEN 1 ELSE 2]
FamilyAsked    == {<<<<p, 2>>, <<x, 1>>>>, <<<<p, 1>>, <<p, 1>>, <<y, 1>>>>}
=============================================================================
