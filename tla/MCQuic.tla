------------------------------ MODULE MCQuic ------------------------------
(* The instance of QuicLink that TLC checks: two pushes and a watcher on   *)
(* one connection, each for an id of its own.                              *)
EXTENDS QuicLink, TLC

CONSTANTS p1, p2, w, s1, s2, s3

MCRole == p1 :> "push" @@ p2 :> "push" @@ w :> "watch"
MCSid == p1 :> s1 @@ p2 :> s2 @@ w :> s3
===========================================================================
