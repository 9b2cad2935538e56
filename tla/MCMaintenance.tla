---------------------------- MODULE MCMaintenance ----------------------------
EXTENDS Maintenance, TLC
CONSTANTS a, b, p1, p2, c1, c2, t1, t2
Pair == {{a, b}}
Hashes == 1 :> c1 @@ 2 :> c1 @@ 3 :> c1
Ruled == p1 :> {t1} @@ p2 :> {}
User == {"Create", "Move", "Restore", "TagFile", "UntagFile"}
Removing == {"DeleteDuplicates", "PurgeDeleted"}
\* Users and commands race.
Careless == [acts |-> 4, commands |-> 3, path |-> {p1},
             may |-> {"Create", "Restore"} \cup Removing,
             resting |-> {"PurgeBroken"}]
\* Users wait for each other and for commands, commands for users.
Calm == [acts |-> 3, commands |-> 3, path |-> {p1, p2},
         may |-> User \cup Removing \cup {"Retag", "PurgeBroken", "Delete", "Lose"},
         resting |-> User \cup Removing \cup {"Retag", "PurgeBroken"}]
\* Users tag what a command is about to delete.
Hasty == [acts |-> 3, commands |-> 1, path |-> {p1},
          may |-> {"Create", "TagFile", "DeleteDuplicates"}, resting |-> {}]
Settings == {Careless, Calm}
HastyOnly == {Hasty}
Symmetry == Permutations({a, b})
=============================================================================
