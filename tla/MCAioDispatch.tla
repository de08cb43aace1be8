----------------------------- MODULE MCAioDispatch -----------------------------
(* Instances of AioDispatch for TLC. *)
EXTENDS AioDispatch

CONSTANTS f1, f2, f3

\* Three refused descriptors are one more than a turn reports.
MCKinds == {(f1 :> "regular" @@ f2 :> "regular" @@ f3 :> "pollable")}

\* FilePlugin watches files, SocketPlugin sockets.
MCMasks == f1 :> {{"R"}} @@ f2 :> {{"R"}} @@ f3 :> {{"R", "X"}, {"R", "W", "X"}}
================================================================================
