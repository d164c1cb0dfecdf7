-------------------------------- MODULE MCHost --------------------------------
(* Host with every shape of action. *)
EXTENDS Host

NoVersion == <<>>   \* None of PackageManager

Shells == [kind : {"shell"}, compliance : BOOLEAN, has : SUBSET {"script", "detection"}]
Packages == [kind : {"package"}, state : {"PRESENT", "ABSENT"}, version : {NoVersion, <<1>>, <<1, 1>>}]

Actions == Shells \cup Packages \cup {[kind |-> "update"]}

===============================================================================
