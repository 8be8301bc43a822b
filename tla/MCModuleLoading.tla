-------------------------- MODULE MCModuleLoading --------------------------
(* Small instances of ModuleLoading for TLC: y and z, in one group, depend   *)
(* on b, in the other group, z on its first version; c depends on nothing.   *)
EXTENDS ModuleLoading

CONSTANTS top, base

Def(id, version) == [id |-> id, version |-> version]
B1 == Def("b", 1)
B2 == Def("b", 2)
C1 == Def("c", 1)
Y1 == Def("y", 1)
Z1 == Def("z", 1)

MCDefinitions == {B1, B2, C1, Y1, Z1}
MCGroupOf == [id \in {"b", "c", "y", "z"} |-> IF id \in {"y", "z"} THEN top ELSE base]
MCDependencies == [d \in MCDefinitions |->
                     IF d = Y1 THEN <<Def("b", 0)>> ELSE IF d = Z1 THEN <<Def("b", 1)>> ELSE <<>>]
MCRegistered == <<B1, C1, Y1, Z1>>
=============================================================================
