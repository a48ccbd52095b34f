---------------------------- MODULE MCThreadPool -----------------------------
(***************************************************************************)
(* Two CPU workers and one IO worker.  As in the supertensor writer and    *)
(* reader, CPU jobs schedule IO jobs and the other way round: compress     *)
(* schedules write, read schedules decompress.                             *)
(***************************************************************************)
EXTENDS ThreadPool, TLC

CONSTANTS c1, c2, i1

MCWorker == ("CPU" :> {c1, c2}) @@ ("IO" :> {i1})
MCJob == {"compress", "write", "read", "decompress", "compute"}
MCPoolOf == [compress |-> "CPU", write |-> "IO", read |-> "IO", decompress |-> "CPU",
             compute |-> "CPU"]
MCChildren == [compress |-> <<"write">>, write |-> <<>>, read |-> <<"decompress">>,
               decompress |-> <<>>, compute |-> <<>>]
MCRoots == <<"compress", "read", "compute">>
=============================================================================
