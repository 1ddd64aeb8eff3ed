---------------------------- MODULE ServerProcess ----------------------------
(***************************************************************************)
(* The server as a process: its arguments and files, the command thread,   *)
(* the handler of SIGINT, its two sockets, and how it ends.  Once main is  *)
(* in its loop, Server models what it does there.                          *)
(*                                                                         *)
(* A line of server.cfg is the field it sets, and whether its value is     *)
(* longer than fscanf takes; a line of controllers.dat is an entry or      *)
(* blank.  The Makefile builds with -ansi -std=c99, where signal() is that *)
(* of System V: a handler is called once.                                  *)
(***************************************************************************)
EXTENDS Integers, Sequences

CONSTANTS
  Text,    \* what an argument may be, the default file names among it
  Argv,    \* argument lists
  Disk,    \* [server, controllers]: functions from file names to lines
  Entry,   \* a line of controllers.dat
  Blank,   \* a blank line
  Spoiled, \* a name that begins with the newline before it
  Junk,    \* a row nobody has written
  Word     \* what may be typed, "quit" and "list" among it

CONFIG_FILE_DEFAULT == "server.cfg"
CONTROLLERS_FILE_DEFAULT == "controllers.dat"

ASSUME LineAssumption ==
  /\ Blank # Spoiled /\ Spoiled # Junk /\ Junk # Blank
  /\ Entry \cap {Blank, Spoiled, Junk} = {}
ASSUME WordAssumption == {"quit", "list"} \subseteq Word
ASSUME ArgvAssumption ==
  Argv \subseteq Seq(Text) /\ {CONFIG_FILE_DEFAULT, CONTROLLERS_FILE_DEFAULT} \subseteq Text
ASSUME DiskAssumption ==
  \A d \in Disk :
    /\ \A f \in DOMAIN d.server : d.server[f] \in Seq([field : STRING, long : BOOLEAN])
    /\ \A f \in DOMAIN d.controllers : d.controllers[f] \in Seq(Entry \cup {Blank})

Fields == <<"Name", "MAC", "UDP-port", "TCP-port">>

VARIABLES
  point,        \* what main does next
  argv, disk,   \* what it was started with
  args,         \* ProgramArgs
  config,       \* the fields of server_config that were read; the rest are 0
  table,        \* the rows of controllers, as far as they were read
  next,         \* the argument, or the line of controllers.dat, to read next
  udp_socket, tcp_socket,
  cpoint, command, eof,  \* the command thread, its last word, the end of stdin
  disposition,  \* of SIGINT
  handling,     \* sigint_handler is running
  status        \* of the process

start == <<argv, disk, args, config, table, next>>
sockets == <<udp_socket, tcp_socket>>
commands == <<cpoint, command, eof>>
signals == <<disposition, handling>>
vars == <<point, start, sockets, commands, signals, status>>

Init ==
  /\ point = "args"
  /\ argv \in Argv /\ disk \in Disk
  /\ args = [server_file |-> CONFIG_FILE_DEFAULT, debug |-> FALSE,
             controllers_file |-> CONTROLLERS_FILE_DEFAULT]
  /\ config = {} /\ table = <<>> /\ next = 1
  /\ udp_socket = "none" /\ tcp_socket = "none"
  /\ cpoint = "none" /\ command = "" /\ eof = FALSE
  /\ disposition = "default" /\ handling = FALSE
  /\ status = "running"

Running == status = "running"

-----------------------------------------------------------------------------
(* main, up to its loop.                                                   *)

Goto(from, to) == Running /\ point = from /\ point' = to

\* exit() in main.
Exit(from) ==
  /\ Running /\ point = from
  /\ status' = "exited"
  /\ UNCHANGED <<point, start, sockets, commands, signals>>

\* As if the file name after -c or -u were looked at as well.
AfterNameTwice == next + 1

\* i++ in the loop over argv: the file name is no round of its own.
AfterName == next + 2

\* Whether the argument is this option, with a file name after it.
Names(option) == next < Len(argv) /\ argv[next] = option

\* One round of the loop over argv.
ParseArgument ==
  /\ Running /\ point = "args" /\ next <= Len(argv)
  /\ \/ /\ argv[next] = "-d"
        /\ args' = [args EXCEPT !.debug = TRUE]
        /\ next' = next + 1
     \/ /\ Names("-c")
        /\ args' = [args EXCEPT !.server_file = argv[next + 1]]
        /\ next' = AfterName
     \/ /\ Names("-u")
        /\ args' = [args EXCEPT !.controllers_file = argv[next + 1]]
        /\ next' = AfterName
     \/ /\ argv[next] # "-d" /\ ~Names("-c") /\ ~Names("-u")
        /\ next' = next + 1
        /\ UNCHANGED args
  /\ UNCHANGED <<point, argv, disk, config, table, sockets, commands, signals, status>>

ParsedArguments ==
  /\ Goto("args", "server_file")
  /\ next > Len(argv)
  /\ UNCHANGED <<start, sockets, commands, signals, status>>

\* fscanf of one field: a line that does not match is left for the next call,
\* and so is the rest of a value that is too long, which matches no field.
read_field(acc, field) ==
  IF acc.line <= Len(acc.file) /\ acc.file[acc.line].field = field
  THEN [file |-> acc.file, got |-> acc.got \cup {field},
        line |-> IF acc.file[acc.line].long THEN Len(acc.file) + 1 ELSE acc.line + 1]
  ELSE acc

\* The fields read.
read_server_file(file) ==
  LET name == read_field([file |-> file, got |-> {}, line |-> 1], "Name")
      mac == read_field(name, "MAC")
      udp_port == read_field(mac, "UDP-port")
  IN read_field(udp_port, "TCP-port").got

ReadServerFile ==
  /\ Goto("server_file", "controllers_file")
  /\ args.server_file \in DOMAIN disk.server
  /\ config' = read_server_file(disk.server[args.server_file])
  /\ UNCHANGED <<argv, disk, args, table, next, sockets, commands, signals, status>>

NoServerFile == Exit("server_file") /\ args.server_file \notin DOMAIN disk.server

ControllersFile == disk.controllers[args.controllers_file]

\* As if the last line were not counted.
num_controllers_short == Len(ControllersFile) - 1

\* Every line is counted, the blank ones too.
num_controllers == Len(ControllersFile)

OpenControllersFile ==
  /\ Goto("controllers_file", "rows")
  /\ args.controllers_file \in DOMAIN disk.controllers
  /\ next' = 1
  /\ UNCHANGED <<argv, disk, args, config, table, sockets, commands, signals, status>>

NoControllersFile ==
  Exit("controllers_file") /\ args.controllers_file \notin DOMAIN disk.controllers

\* fscanf of one row.  It skips the blank lines after an entry; one before the
\* first entry goes into its name.
ReadRow ==
  /\ Running /\ point = "rows" /\ Len(table) < num_controllers
  /\ \E line \in next .. Len(ControllersFile) :
       /\ ControllersFile[line] # Blank
       /\ \A i \in next .. line - 1 : ControllersFile[i] = Blank
       /\ table' = Append(table, IF ControllersFile[1] = Blank /\ next = 1 THEN Spoiled
                                 ELSE ControllersFile[line])
       /\ next' = line + 1
  /\ UNCHANGED <<point, argv, disk, args, config, sockets, commands, signals, status>>

\* No entry is left: there were blank lines, and the row gets nothing.
ReadNothing ==
  /\ Running /\ point = "rows" /\ Len(table) < num_controllers
  /\ \A i \in next .. Len(ControllersFile) : ControllersFile[i] = Blank
  /\ table' = Append(table, Junk)
  /\ next' = Len(ControllersFile) + 1
  /\ UNCHANGED <<point, argv, disk, args, config, sockets, commands, signals, status>>

ReadControllersFile ==
  /\ Goto("rows", "thread")
  /\ Len(table) >= num_controllers
  /\ UNCHANGED <<start, sockets, commands, signals, status>>

StartCommands ==
  /\ Goto("thread", "signal")
  /\ cpoint' = "scan"
  /\ UNCHANGED <<start, sockets, command, eof, signals, status>>

\* pthread_create fails.
NoCommands == Exit("thread")

InstallHandler ==
  /\ Goto("signal", "udp")
  /\ disposition' = "handler"
  /\ UNCHANGED <<start, sockets, commands, handling, status>>

\* The result of create_udp_socket is not looked at.
CreateUdp ==
  /\ Goto("udp", "tcp")
  /\ udp_socket' \in {"open", "-1"}
  /\ UNCHANGED <<start, tcp_socket, commands, signals, status>>

CreateTcp ==
  /\ Goto("tcp", "loop")
  /\ tcp_socket' = "open"
  /\ UNCHANGED <<start, udp_socket, commands, signals, status>>

NoTcp == Exit("tcp")

MainStep ==
  \/ ParseArgument \/ ParsedArguments \/ ReadServerFile \/ NoServerFile
  \/ OpenControllersFile \/ NoControllersFile \/ ReadRow \/ ReadNothing \/ ReadControllersFile
  \/ StartCommands \/ NoCommands \/ InstallHandler
  \/ CreateUdp \/ CreateTcp \/ NoTcp

-----------------------------------------------------------------------------
(* SIGINT.                                                                 *)

\* As if the handler stayed installed.
HandledFor == disposition

\* What SIGINT is set to once its handler is called.
HandledOnce == "default"

\* The process gets a SIGINT.
Interrupt ==
  IF disposition = "default"
  THEN status' = "killed" /\ UNCHANGED signals
  ELSE disposition' = HandledOnce /\ handling' = TRUE /\ UNCHANGED status

\* kill(0, SIGINT) reaches this process too, and disconnect_controllers runs
\* only if it has survived.
sigint_handler ==
  /\ Running /\ handling
  /\ status' = IF disposition = "default" THEN "killed" ELSE "disconnected"
  /\ UNCHANGED <<point, start, sockets, commands, signals>>

CtrlC ==
  /\ Running
  /\ Interrupt
  /\ UNCHANGED <<point, start, sockets, commands>>

-----------------------------------------------------------------------------
(* command_handler.                                                        *)

\* scanf reads a word; at the end of stdin it leaves the last one.
Scan ==
  /\ Running /\ cpoint = "scan"
  /\ cpoint' = "act"
  /\ \/ ~eof /\ command' \in Word /\ UNCHANGED eof
     \/ eof' = TRUE /\ UNCHANGED command
  /\ UNCHANGED <<point, start, sockets, signals, status>>

\* As if the thread ended before it sends the signal.
CommandQuitSilently ==
  /\ Running /\ cpoint = "act" /\ command = "quit"
  /\ cpoint' = "done"
  /\ UNCHANGED <<point, start, sockets, command, eof, signals, status>>

CommandQuit ==
  /\ Running /\ cpoint = "act" /\ command = "quit"
  /\ Interrupt
  /\ cpoint' = "done"
  /\ UNCHANGED <<point, start, sockets, command, eof>>

\* list prints the table; any other word does nothing.
CommandOther ==
  /\ Running /\ cpoint = "act" /\ command # "quit"
  /\ cpoint' = "scan"
  /\ UNCHANGED <<point, start, sockets, command, eof, signals, status>>

CommandStep == Scan \/ CommandQuit \/ CommandOther

-----------------------------------------------------------------------------
Next == MainStep \/ sigint_handler \/ CtrlC \/ CommandStep

\* The three threads of control run as long as they can.
Spec == Init /\ [][Next]_vars
             /\ WF_vars(MainStep) /\ WF_vars(sigint_handler) /\ WF_vars(CommandStep)

-----------------------------------------------------------------------------
\* Types; the handler is called once.
TypeOK ==
  /\ point \in {"args", "server_file", "controllers_file", "rows", "thread", "signal", "udp",
                "tcp", "loop"}
  /\ args \in [server_file : Text, controllers_file : Text, debug : BOOLEAN]
  /\ table \in Seq(Entry \cup {Spoiled, Junk})
  /\ config \subseteq {Fields[i] : i \in DOMAIN Fields}
  /\ udp_socket \in {"none", "open", "-1"} /\ tcp_socket \in {"none", "open"}
  /\ cpoint \in {"none", "scan", "act", "done"} /\ command \in Word \cup {""}
  /\ disposition \in {"default", "handler"}
  /\ status \in {"running", "exited", "killed", "disconnected"}
  /\ handling => disposition = "default"

\* Whether argument i is taken as an option: the -c and -u right before it are
\* options and file names in turn, and the last of them is a file name.
IsOption(i) ==
  \E j \in 0 .. i - 1 :
    /\ j = 0 \/ argv[j] \notin {"-c", "-u"}
    /\ \A k \in j + 1 .. i - 1 : argv[k] \in {"-c", "-u"}
    /\ \E m \in 0 .. i : i = j + 1 + 2 * m

\* What the last option of this name, with an argument after it, names.
LastNamed(option, default, file) ==
  LET Given(i) == i < Len(argv) /\ argv[i] = option /\ IsOption(i)
  IN \/ file = default /\ \A i \in DOMAIN argv : ~Given(i)
     \/ \E i \in DOMAIN argv :
          Given(i) /\ file = argv[i + 1] /\ \A j \in i + 1 .. Len(argv) : ~Given(j)

\* The files opened are those of the last -c and -u, whatever stands where: an
\* option without a file name is ignored, and what looks like an option after
\* -c or -u is a file name.
OpensNamedFiles ==
  point # "args" =>
    /\ LastNamed("-c", CONFIG_FILE_DEFAULT, args.server_file)
    /\ LastNamed("-u", CONTROLLERS_FILE_DEFAULT, args.controllers_file)
    /\ args.debug <=> \E i \in DOMAIN argv : argv[i] = "-d" /\ IsOption(i)

\* A process that serves has its TCP socket and its command thread, knows every
\* controller of a file that does not begin with a blank line, and has read
\* every field of a server.cfg that is in order; the other ends of main leave
\* no process behind.
LoopReady ==
  point = "loop" =>
    LET file == disk.server[args.server_file]
    IN /\ tcp_socket = "open" /\ cpoint # "none"
       /\ ControllersFile # <<>> /\ ControllersFile[1] # Blank =>
            \A i \in DOMAIN ControllersFile :
              ControllersFile[i] # Blank => \E j \in DOMAIN table : table[j] = ControllersFile[i]
       /\ (\A i \in DOMAIN Fields : i \in DOMAIN file /\ file[i].field = Fields[i]
                                    /\ (i < Len(Fields) => ~file[i].long))
            => config = {Fields[i] : i \in DOMAIN Fields}

\* The word quit ends the process, at whatever point main is, the handler
\* installed or not.
QuitEnds == cpoint = "act" /\ command = "quit" ~> ~Running

-----------------------------------------------------------------------------
(* What a comment of the repository says and the code does not do.          *)

\* server.c:267, "parent close sockets": sigint_handler ends the process by way
\* of disconnect_controllers.
EndsByDisconnect == [][sigint_handler => status' = "disconnected"]_vars
=============================================================================
