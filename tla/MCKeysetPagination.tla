------------------------- MODULE MCKeysetPagination -------------------------
(* An instance of KeysetPagination for TLC: users identified by two fields, *)
(* paged through in every order that leaves a tie for the identity to break. *)
EXTENDS KeysetPagination

CONSTANTS b1, t1, t2

Schema(identity) == [ref |-> "s@1", identity |-> identity]

MCRegistry ==
  [resources |-> [users |-> [schema |-> Schema(<<"org", "id">>), binding |-> b1],
                  teams |-> [schema |-> Schema(<<"id">>), binding |-> b1]]]

Sort(name, direction) ==
  [field |-> [name |-> name, on |-> Unqualified], direction |-> direction]

Orders ==
  {<<>>, <<Sort("age", "asc")>>, <<Sort("age", "desc")>>, <<Sort("id", "desc")>>,
   <<Sort("age", "desc"), Sort("org", "asc")>>}

Scan(order, joins, size) ==
  [kind |-> "scan", primary |-> [resource |-> "users", schema |-> NoSchema], joins |-> joins,
   traversal |-> NoTraversal, order |-> order, page |-> [size |-> size]]

ToTeams == [target |-> [resource |-> "teams", schema |-> NoSchema], on |-> {}]

MCOperations ==
  {Scan(order, {}, size) : order \in Orders, size \in {1, 2}} \cup {Scan(<<>>, {ToTeams}, 2)}

MCJoined == {Scan(<<>>, {ToTeams}, 1)}

MCIdentities == {<<1, 1>>, <<1, 2>>, <<2, 1>>}
=============================================================================
