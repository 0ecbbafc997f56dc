------------------------------- MODULE MCStartup -------------------------------
(* Small instances of Startup and Parser. *)
EXTENDS Startup

Words == ("0" :> 0) @@ ("1" :> 1) @@ ("2" :> 2) @@ ("3" :> 3) @@ ("4" :> 4)

(* Up to three lines, with ids around the legal ones. *)
Lines == {Blank} \cup [id : 0 .. 4, addr : {0}]
UpToThreeLines == UNION {[1 .. k -> Lines] : k \in 0 .. 3}

=============================================================================
