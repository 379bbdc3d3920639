------------------------- MODULE MCDeviceSessionsV2 -------------------------
(* TLC instances of DeviceSessionsV2. *)
EXTENDS DeviceSessionsV2, TLC

\* Requests, users and session ids are interchangeable.
Symmetry == Permutations(Requests) \cup Permutations(Users) \cup Permutations(Sessions)
=============================================================================
