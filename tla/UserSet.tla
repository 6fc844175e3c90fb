------------------------------- MODULE UserSet -------------------------------
(***************************************************************************)
(* class UserSet of the distributed server: a vector of users and two      *)
(* indexes into it.  A server has one for its logged in users, and one for *)
(* every channel.                                                          *)
(*                                                                         *)
(* A user is its name and address.  The C++ objects have an identity too,  *)
(* but every comparison is by name and address and none is ever deleted    *)
(* while the server runs.  Duplicates and order of the vector are kept:    *)
(* an erase takes the first entry that compares equal, and only that one.  *)
(***************************************************************************)
EXTENDS Sequences, SequencesExt

CONSTANTS Username, Addr, NULL

ASSUME NullIsNoUser == NULL \notin [name : Username, addr : Addr]

User == [name : Username, addr : Addr]

NewUser(n, a) == [name |-> n, addr |-> a]

EmptyUserSet == [user_list     |-> <<>>,
                 user_name_map |-> [n \in Username |-> NULL],
                 user_ip_map   |-> [a \in Addr |-> NULL]]

\* Fault: the user stays in the index by address.
FaultEraseKeepsAddress(us, u) ==
    [us EXCEPT !.user_list = RemoveFirst(@, u), !.user_name_map[u.name] = NULL]

\* remove_user(User*): both keys go, whoever they lead to, and then the first
\* entry of the vector that equals u, if there is one.
EraseUser(us, u) ==
    [user_list     |-> RemoveFirst(us.user_list, u),
     user_name_map |-> [us.user_name_map EXCEPT ![u.name] = NULL],
     user_ip_map   |-> [us.user_ip_map EXCEPT ![u.addr] = NULL]]

RemoveFound(us, u) == IF u = NULL THEN us ELSE EraseUser(us, u)

RemoveByName(us, n) == RemoveFound(us, us.user_name_map[n])
RemoveByAddr(us, a) == RemoveFound(us, us.user_ip_map[a])

\* Fault: the key is stored in the place of the user.
FaultInsertsKey(map, k, u) == IF map[k] = NULL THEN [map EXCEPT ![k] = k] ELSE map

\* insert of std::unordered_map: a key that is there keeps its value.
InsertKey(map, k, u) == IF map[k] = NULL THEN [map EXCEPT ![k] = u] ELSE map

\* Fault: the earlier user of that address is not removed.
FaultAddKeepsAddress(us, u) ==
    LET cleared == RemoveByName(us, u.name)
    IN  [user_list     |-> Append(cleared.user_list, u),
         user_name_map |-> InsertKey(cleared.user_name_map, u.name, u),
         user_ip_map   |-> InsertKey(cleared.user_ip_map, u.addr, u)]

AddUser(us, u) ==
    LET cleared == RemoveByAddr(RemoveByName(us, u.name), u.addr)
    IN  [user_list     |-> Append(cleared.user_list, u),
         user_name_map |-> InsertKey(cleared.user_name_map, u.name, u),
         user_ip_map   |-> InsertKey(cleared.user_ip_map, u.addr, u)]

Users(us) == {us.user_list[i] : i \in 1..Len(us.user_list)}

UserSets == [user_list     : Seq(User),
             user_name_map : [Username -> User \cup {NULL}],
             user_ip_map   : [Addr -> User \cup {NULL}]]

\* An index leads to users of the vector only, under their own key.
IndexesSound(us) ==
    /\ \A n \in Username : us.user_name_map[n] # NULL =>
          us.user_name_map[n] \in Users(us) /\ us.user_name_map[n].name = n
    /\ \A a \in Addr : us.user_ip_map[a] # NULL =>
          us.user_ip_map[a] \in Users(us) /\ us.user_ip_map[a].addr = a

\* And every entry of the vector is found under both its keys, so that no two
\* entries share a name or an address.
IndexesComplete(us) ==
    /\ \A u \in Users(us) : us.user_name_map[u.name] = u /\ us.user_ip_map[u.addr] = u
    /\ IsInjective(us.user_list)
==============================================================================
