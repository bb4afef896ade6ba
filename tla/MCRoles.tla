-------------------------------- MODULE MCRoles --------------------------------
EXTENDS Roles, TLC
CONSTANTS root, clerk, mate, r1, r2

RolesOfFounders == root :> {"admin"} @@ clerk :> {"staff"} @@ mate :> {}
\* The staff assign roles, edit them and update accounts; "manager" holds more.
StartingGrants ==
    {<<"staff", p, "all">> : p \in {"role.assign", "role.manage", "user.update", "post.write"}}
    \cup {<<"manager", "user.delete", "all">>}
EnteredRoles  == {<<mate, "admin">>, <<mate, "staff">>, <<mate, "manager">>, <<clerk, "manager">>,
                  <<mate, "member">>}
EnteredGrants == {<<"member", "post.write", "board">>, <<"staff", "user.delete", "all">>}
Symmetry == Permutations({r1, r2})
================================================================================
