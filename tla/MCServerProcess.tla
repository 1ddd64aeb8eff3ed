--------------------------- MODULE MCServerProcess ---------------------------
(***************************************************************************)
(* Up to three arguments, and files that are whole, out of order, too      *)
(* long, with blank lines at each place, empty or missing.                 *)
(***************************************************************************)
EXTENDS ServerProcess, TLC

CONSTANTS c1, c2, MaxArgs

Line(f) == [field |-> f, long |-> FALSE]
Whole == [i \in DOMAIN Fields |-> Line(Fields[i])]

ServerFiles ==
  {Whole, <<Whole[2], Whole[1], Whole[3], Whole[4]>>, <<Whole[1], Whole[3], Whole[4]>>,
   [Whole EXCEPT ![1].long = TRUE], [Whole EXCEPT ![4].long = TRUE]}
ControllerFiles ==
  {<<>>, <<c1, c2>>, <<c1, Blank, c2>>, <<Blank, c1, c2>>, <<c1, c2, Blank>>, <<Blank>>}

MCText == {"-c", "-u", "-d", "other", CONFIG_FILE_DEFAULT, CONTROLLERS_FILE_DEFAULT}
MCArgv == UNION {[1 .. n -> {"-c", "-u", "-d", "other"}] : n \in 0 .. MaxArgs}
MCDisk ==
  {[server |-> "server.cfg" :> s @@ "other" :> Whole,
    controllers |-> "controllers.dat" :> c @@ "other" :> <<c1>>] :
     s \in ServerFiles, c \in ControllerFiles}
    \cup {[server |-> "-d" :> Whole, controllers |-> "controllers.dat" :> <<c1>>],
          [server |-> "server.cfg" :> Whole, controllers |-> "-d" :> <<c1>>]}
=============================================================================
