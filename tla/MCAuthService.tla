---------------------------- MODULE MCAuthService ----------------------------
(* Instances of AuthService for TLC.                                         *)
EXTENDS AuthService, TLC

CONSTANTS r1, r2

(* The client's own device and another one.                                 *)
Home == [ip |-> "home", agent |-> "app", device |-> "phone"]
Other == [ip |-> "home", agent |-> "app", device |-> NoHeader]

TwoDevices == {Home, Other}
OneContext == {Home}

AnyThread == Permutations(Threads)
===============================================================================
