---------------------------- MODULE MCThreadPool ----------------------------
(* Two workers, two appenders, three requests and nullptr, room for one     *)
(* request by the name of max_requests (two by the test).                   *)
EXTENDS ThreadPool

=============================================================================
