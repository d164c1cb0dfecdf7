------------------------------ MODULE MCExecutor ------------------------------
(* Executor with package actions alone. *)
EXTENDS Executor

Present == [kind : {"package"}, state : {"PRESENT"}, version : {None, <<1>>, <<1, 1>>}]
Absent == [kind : {"package"}, state : {"ABSENT"}, version : {None}]

PackageActions == Present \cup Absent

===============================================================================
