---------------------------- MODULE MCDeviceAuth ----------------------------
EXTENDS DeviceAuth, TLC

\* One user for all installations.
OneOwner == [d \in Device |-> CHOOSE u \in User : TRUE]

\* One installation of another user, and the rest of one, which are alike.
Stranger  == CHOOSE d \in Device : TRUE
TwoOwners == LET other == CHOOSE u \in User : TRUE
             IN  [d \in Device |-> IF d = Stranger THEN other ELSE CHOOSE u \in User \ {other} : TRUE]
Symmetric == Permutations(Device \ {Stranger}) \cup Permutations(Request)
=============================================================================
