------------------------- MODULE ServerProcessProofs -------------------------
(***************************************************************************)
(* Proofs about the server as a process: what its arguments name is what   *)
(* it opens, and what it serves with is complete, for every argument list  *)
(* and all files.  The invariant says what each of the two loops before    *)
(* main's own has done so far.                                             *)
(***************************************************************************)
EXTENDS ServerProcess, TLAPS

\* The points of main once its own loops over arguments and rows are behind it.
Loaded == {"thread", "signal", "udp", "tcp", "loop"}

\* IsOption and the Given of LastNamed, for the argument list a.
OptionIn(a, i) ==
  \E j \in 0 .. i - 1 :
    /\ j = 0 \/ a[j] \notin {"-c", "-u"}
    /\ \A k \in j + 1 .. i - 1 : a[k] \in {"-c", "-u"}
    /\ \E m \in 0 .. i : i = j + 1 + 2 * m

GivenIn(a, option, i) == i < Len(a) /\ a[i] = option /\ OptionIn(a, i)

\* The file is what the last of these options before argument n names.
NamedBefore(a, option, default, file, n) ==
  \/ file = default /\ \A i \in 1 .. n - 1 : ~GivenIn(a, option, i)
  \/ \E i \in 1 .. n - 1 :
       GivenIn(a, option, i) /\ file = a[i + 1] /\ \A j \in i + 1 .. n - 1 : ~GivenIn(a, option, j)

\* -d was an option before argument n.
DebugBefore(a, n) == \E i \in 1 .. n - 1 : a[i] = "-d" /\ OptionIn(a, i)

\* What args holds is what the arguments before n say.
ParsedBefore(n) ==
  /\ NamedBefore(argv, "-c", CONFIG_FILE_DEFAULT, args.server_file, n)
  /\ NamedBefore(argv, "-u", CONTROLLERS_FILE_DEFAULT, args.controllers_file, n)
  /\ args.debug <=> DebugBefore(argv, n)

\* Every entry above line n is a row of the table.
KnownBefore(file, rows, n) ==
  file # <<>> /\ file[1] # Blank =>
    \A i \in 1 .. n - 1 : file[i] # Blank => \E j \in DOMAIN rows : rows[j] = file[i]

-----------------------------------------------------------------------------
(* The inductive invariant.                                                *)

\* What main was started with does not change type.
StartInv == argv \in Argv /\ disk \in Disk /\ next \in Nat

\* The loop over argv: the argument it looks at is an option, and args is up to
\* date with the ones before.
ParseInv ==
  IF point = "args"
  THEN /\ next \in 1 .. Len(argv) + 1
       /\ next <= Len(argv) => OptionIn(argv, next)
       /\ ParsedBefore(next)
  ELSE ParsedBefore(Len(argv) + 1)

\* What was read from server.cfg.
ConfigInv ==
  point \in {"controllers_file", "rows"} \cup Loaded =>
    /\ args.server_file \in DOMAIN disk.server
    /\ config = read_server_file(disk.server[args.server_file])

\* The loop over the rows: there are fewer of them than lines read.
RowsInv ==
  /\ point \in {"rows"} \cup Loaded => args.controllers_file \in DOMAIN disk.controllers
  /\ point = "rows" =>
       /\ next \in 1 .. Len(ControllersFile) + 1
       /\ next > Len(table)
       /\ KnownBefore(ControllersFile, table, next)
  /\ point \in Loaded => KnownBefore(ControllersFile, table, Len(ControllersFile) + 1)

\* No row is read before the file is open.
UnreadInv == point \in {"args", "server_file", "controllers_file"} => table = <<>>

\* What main has made by then: the thread, the handler, the socket.
MadeInv ==
  /\ point \in Loaded \ {"thread"} => cpoint # "none"
  /\ point \notin {"udp", "tcp", "loop"} => disposition = "default" /\ ~handling
  /\ point = "loop" => tcp_socket = "open"

ProcessInv ==
  StartInv /\ ParseInv /\ ConfigInv /\ RowsInv /\ UnreadInv /\ MadeInv /\ TypeOK

-----------------------------------------------------------------------------
(* The arguments.                                                          *)

\* The first argument is an option.
LEMMA FirstOption == ASSUME NEW a PROVE OptionIn(a, 1)
  BY SMT DEF OptionIn

\* So is the one after an option that takes no file name.
LEMMA NextOption ==
  ASSUME NEW a, NEW i \in Nat \ {0}, a[i] \notin {"-c", "-u"}
  PROVE OptionIn(a, i + 1)
<1>1. i \in 0 .. (i + 1) - 1 /\ 0 \in 0 .. i + 1 /\ i + 1 = i + 1 + 2 * 0
  OBVIOUS
<1>2. \A k \in i + 1 .. (i + 1) - 1 : a[k] \in {"-c", "-u"}
  OBVIOUS
<1> QED BY <1>1, <1>2 DEF OptionIn

\* What follows -c or -u is a file name, whatever it looks like.
LEMMA NameIsNoOption ==
  ASSUME NEW a, NEW i \in Nat \ {0}, OptionIn(a, i), a[i] \in {"-c", "-u"}
  PROVE ~OptionIn(a, i + 1)
<1>1. PICK j \in 0 .. i - 1 :
        /\ j = 0 \/ a[j] \notin {"-c", "-u"}
        /\ \A k \in j + 1 .. i - 1 : a[k] \in {"-c", "-u"}
        /\ \E m \in 0 .. i : i = j + 1 + 2 * m
  BY DEF OptionIn
<1>2. SUFFICES ASSUME NEW l \in 0 .. (i + 1) - 1,
                      l = 0 \/ a[l] \notin {"-c", "-u"},
                      \A k \in l + 1 .. (i + 1) - 1 : a[k] \in {"-c", "-u"},
                      \E m \in 0 .. i + 1 : i + 1 = l + 1 + 2 * m
               PROVE FALSE
  BY DEF OptionIn
<1>3. l # i
  BY <1>2
<1>4. ~(l < j)
  <2> SUFFICES ASSUME l < j PROVE FALSE
    OBVIOUS
  <2>1. j \in l + 1 .. (i + 1) - 1 /\ j # 0
    OBVIOUS
  <2> QED BY <1>1, <1>2, <2>1
<1>5. ~(j < l)
  <2> SUFFICES ASSUME j < l PROVE FALSE
    OBVIOUS
  <2>1. l \in j + 1 .. i - 1 /\ l # 0
    BY <1>3
  <2> QED BY <1>1, <1>2, <2>1
<1>6. l = j
  BY <1>4, <1>5
<1>7. PICK m \in 0 .. i : i = j + 1 + 2 * m
  BY <1>1
<1>8. PICK n \in 0 .. i + 1 : i + 1 = l + 1 + 2 * n
  BY <1>2
<1> QED BY <1>6, <1>7, <1>8

\* The argument after the file name is an option again.
LEMMA OptionAfterName ==
  ASSUME NEW a, NEW i \in Nat \ {0}, OptionIn(a, i), a[i] \in {"-c", "-u"}
  PROVE OptionIn(a, i + 2)
<1>1. CASE a[i + 1] \notin {"-c", "-u"}
  <2>1. OptionIn(a, (i + 1) + 1)
    BY <1>1, NextOption
  <2> QED BY <2>1
<1>2. CASE a[i + 1] \in {"-c", "-u"}
  <2>1. PICK j \in 0 .. i - 1 :
          /\ j = 0 \/ a[j] \notin {"-c", "-u"}
          /\ \A k \in j + 1 .. i - 1 : a[k] \in {"-c", "-u"}
          /\ \E m \in 0 .. i : i = j + 1 + 2 * m
    BY DEF OptionIn
  <2>2. \A k \in j + 1 .. (i + 2) - 1 : a[k] \in {"-c", "-u"}
    <3> TAKE k \in j + 1 .. (i + 2) - 1
    <3>1. k \in j + 1 .. i - 1 \/ k = i \/ k = i + 1
      OBVIOUS
    <3> QED BY <1>2, <2>1, <3>1
  <2>3. PICK m \in 0 .. i : i = j + 1 + 2 * m
    BY <2>1
  <2>4. m + 1 \in 0 .. i + 2 /\ i + 2 = j + 1 + 2 * (m + 1)
    BY <2>3
  <2>5. j \in 0 .. (i + 2) - 1
    OBVIOUS
  <2> QED BY <2>1, <2>2, <2>4, <2>5 DEF OptionIn
<1> QED BY <1>1, <1>2

\* An argument that is not this option with a file name changes nothing.
LEMMA NamedStep ==
  ASSUME NEW a, NEW option, NEW default, NEW file, NEW n \in Nat \ {0},
         NamedBefore(a, option, default, file, n), ~GivenIn(a, option, n)
  PROVE NamedBefore(a, option, default, file, n + 1)
<1>1. \A j \in 1 .. (n + 1) - 1 : j \in 1 .. n - 1 \/ j = n
  OBVIOUS
<1>2. CASE file = default /\ \A i \in 1 .. n - 1 : ~GivenIn(a, option, i)
  BY <1>1, <1>2 DEF NamedBefore
<1>3. CASE \E i \in 1 .. n - 1 :
             GivenIn(a, option, i) /\ file = a[i + 1]
               /\ \A j \in i + 1 .. n - 1 : ~GivenIn(a, option, j)
  <2>1. PICK i \in 1 .. n - 1 :
          GivenIn(a, option, i) /\ file = a[i + 1]
            /\ \A j \in i + 1 .. n - 1 : ~GivenIn(a, option, j)
    BY <1>3
  <2>2. \A j \in i + 1 .. (n + 1) - 1 : ~GivenIn(a, option, j)
    <3> TAKE j \in i + 1 .. (n + 1) - 1
    <3>1. j \in i + 1 .. n - 1 \/ j = n
      OBVIOUS
    <3> QED BY <2>1, <3>1
  <2>3. i \in 1 .. (n + 1) - 1
    OBVIOUS
  <2> QED BY <2>1, <2>2, <2>3 DEF NamedBefore
<1> QED BY <1>2, <1>3 DEF NamedBefore

\* The option itself, with the file name after it, which is none.
LEMMA NamedHere ==
  ASSUME NEW a, NEW option \in {"-c", "-u"}, NEW default, NEW n \in Nat \ {0},
         GivenIn(a, option, n)
  PROVE NamedBefore(a, option, default, a[n + 1], n + 2)
<1>1. ~OptionIn(a, n + 1)
  BY NameIsNoOption DEF GivenIn
<1>2. \A j \in n + 1 .. (n + 2) - 1 : ~GivenIn(a, option, j)
  <2> TAKE j \in n + 1 .. (n + 2) - 1
  <2>1. j = n + 1
    OBVIOUS
  <2> QED BY <1>1, <2>1 DEF GivenIn
<1>3. n \in 1 .. (n + 2) - 1
  OBVIOUS
<1> QED BY <1>2, <1>3 DEF NamedBefore

\* What args says of an option is not disturbed by another one and its name.
LEMMA NamedSkip ==
  ASSUME NEW a, NEW option, NEW default, NEW file, NEW n \in Nat \ {0},
         NamedBefore(a, option, default, file, n), ~GivenIn(a, option, n),
         ~OptionIn(a, n + 1)
  PROVE NamedBefore(a, option, default, file, n + 2)
<1>1. NamedBefore(a, option, default, file, n + 1)
  BY NamedStep
<1>2. ~GivenIn(a, option, n + 1)
  BY DEF GivenIn
<1>3. NamedBefore(a, option, default, file, (n + 1) + 1)
  BY <1>1, <1>2, NamedStep
<1> QED BY <1>3

\* -d is on once it was an option.
LEMMA DebugStep ==
  ASSUME NEW a, NEW n \in Nat \ {0}, OptionIn(a, n)
  PROVE DebugBefore(a, n + 1) <=> DebugBefore(a, n) \/ a[n] = "-d"
<1>1. \A i \in 1 .. (n + 1) - 1 : i \in 1 .. n - 1 \/ i = n
  OBVIOUS
<1>2. n \in 1 .. (n + 1) - 1 /\ \A i \in 1 .. n - 1 : i \in 1 .. (n + 1) - 1
  OBVIOUS
<1> QED BY <1>1, <1>2 DEF DebugBefore

\* Nor is -d as a file name.
LEMMA DebugSkip ==
  ASSUME NEW a, NEW n \in Nat \ {0}, OptionIn(a, n), a[n] \in {"-c", "-u"}
  PROVE DebugBefore(a, n + 2) <=> DebugBefore(a, n)
<1>1. ~OptionIn(a, n + 1)
  BY NameIsNoOption
<1>2. \A i \in 1 .. (n + 2) - 1 : i \in 1 .. n - 1 \/ i = n \/ i = n + 1
  OBVIOUS
<1>3. \A i \in 1 .. n - 1 : i \in 1 .. (n + 2) - 1
  OBVIOUS
<1>4. a[n] # "-d"
  OBVIOUS
<1> QED BY <1>1, <1>2, <1>3, <1>4 DEF DebugBefore

-----------------------------------------------------------------------------
(* The definitions of the invariant and those of the properties.           *)

\* IsOption says of argv what OptionIn says of any list.
LEMMA OptionSame == \A i : IsOption(i) <=> OptionIn(argv, i)
  BY DEF IsOption, OptionIn

\* All the arguments parsed, args holds what the last option of each name says.
LEMMA NamedLast ==
  ASSUME NEW option, NEW default, NEW file, argv \in Seq(Text),
         NamedBefore(argv, option, default, file, Len(argv) + 1)
  PROVE LastNamed(option, default, file)
<1>1. DOMAIN argv = 1 .. (Len(argv) + 1) - 1 /\ Len(argv) \in Nat
  OBVIOUS
<1>2. \A i : GivenIn(argv, option, i) <=> i < Len(argv) /\ argv[i] = option /\ IsOption(i)
  BY OptionSame DEF GivenIn
<1>3. CASE file = default /\ \A i \in 1 .. (Len(argv) + 1) - 1 : ~GivenIn(argv, option, i)
  BY <1>1, <1>2, <1>3, Zenon DEF LastNamed
<1>4. CASE \E i \in 1 .. (Len(argv) + 1) - 1 :
             GivenIn(argv, option, i) /\ file = argv[i + 1]
               /\ \A j \in i + 1 .. (Len(argv) + 1) - 1 : ~GivenIn(argv, option, j)
  <2>1. PICK i \in 1 .. (Len(argv) + 1) - 1 :
          GivenIn(argv, option, i) /\ file = argv[i + 1]
            /\ \A j \in i + 1 .. (Len(argv) + 1) - 1 : ~GivenIn(argv, option, j)
    BY <1>4
  <2>2. (Len(argv) + 1) - 1 = Len(argv)
    BY <1>1
  <2> QED BY <1>1, <1>2, <2>1, <2>2, Zenon DEF LastNamed
<1> QED BY <1>3, <1>4 DEF NamedBefore

\* So the files are those the arguments name.
LEMMA OpensNamed == StartInv /\ ParseInv => OpensNamedFiles
<1> SUFFICES ASSUME StartInv, ParseInv, point # "args" PROVE OpensNamedFiles
  BY DEF OpensNamedFiles
<1>1. argv \in Seq(Text)
  BY ArgvAssumption DEF StartInv
<1>2. ParsedBefore(Len(argv) + 1)
  BY DEF ParseInv
<1>3. /\ LastNamed("-c", CONFIG_FILE_DEFAULT, args.server_file)
      /\ LastNamed("-u", CONTROLLERS_FILE_DEFAULT, args.controllers_file)
  BY <1>1, <1>2, NamedLast DEF ParsedBefore
<1>4. DOMAIN argv = 1 .. (Len(argv) + 1) - 1
  BY <1>1
<1>5. args.debug <=> \E i \in DOMAIN argv : argv[i] = "-d" /\ IsOption(i)
  BY <1>2, <1>4, OptionSame, Zenon DEF ParsedBefore, DebugBefore
<1> QED BY <1>3, <1>5 DEF OpensNamedFiles

\* A server.cfg whose four fields are in order gives all four.
LEMMA ReadsAll ==
  ASSUME NEW file,
         \A i \in DOMAIN Fields :
           i \in DOMAIN file /\ file[i].field = Fields[i] /\ (i < Len(Fields) => ~file[i].long),
         file \in Seq([field : STRING, long : BOOLEAN])
  PROVE read_server_file(file) = {Fields[i] : i \in DOMAIN Fields}
<1>1. DOMAIN Fields = 1 .. 4 /\ Len(Fields) = 4
  BY DEF Fields
<1>2. /\ file[1].field = "Name" /\ file[2].field = "MAC"
      /\ file[3].field = "UDP-port" /\ file[4].field = "TCP-port"
      /\ ~file[1].long /\ ~file[2].long /\ ~file[3].long
      /\ 4 <= Len(file)
  BY <1>1 DEF Fields
<1> DEFINE at(got, n) == [file |-> file, got |-> got, line |-> n]
<1>3. \A got, n : at(got, n).file = file /\ at(got, n).got = got /\ at(got, n).line = n
  OBVIOUS
<1>4. ASSUME NEW got, NEW n \in 1 .. Len(file), NEW field, file[n].field = field, ~file[n].long
      PROVE  read_field(at(got, n), field) = at(got \cup {field}, n + 1)
  <2>1. read_field(at(got, n), field)
          = [file |-> at(got, n).file, got |-> at(got, n).got \cup {field},
             line |-> at(got, n).line + 1]
    <3>1. n <= Len(file)
      OBVIOUS
    <3>2. at(got, n).file = file /\ at(got, n).line = n
      BY <1>3
    <3> HIDE DEF at
    <3> QED BY <3>1, <3>2, <1>4, Zenon DEF read_field
  <2> QED BY <1>3, <2>1
<1>5. ASSUME NEW got, NEW n \in 1 .. Len(file), NEW field, file[n].field = field
      PROVE  read_field(at(got, n), field).got = got \cup {field}
  <2> HIDE DEF at
  <2> QED BY <1>3, <1>5 DEF read_field
<1>6. /\ read_field(at({}, 1), "Name") = at({} \cup {"Name"}, 2)
      /\ \A got : read_field(at(got, 2), "MAC") = at(got \cup {"MAC"}, 3)
      /\ \A got : read_field(at(got, 3), "UDP-port") = at(got \cup {"UDP-port"}, 4)
      /\ \A got : read_field(at(got, 4), "TCP-port").got = got \cup {"TCP-port"}
  <2>1. 1 + 1 = 2 /\ 2 + 1 = 3 /\ 3 + 1 = 4
    OBVIOUS
  <2>2. \A n \in {1, 2, 3, 4} : n \in 1 .. Len(file)
    BY <1>2
  <2> HIDE DEF at
  <2>3. read_field(at({}, 1), "Name") = at({} \cup {"Name"}, 1 + 1)
    BY <1>2, <1>4, <2>2
  <2>4. \A got : read_field(at(got, 2), "MAC") = at(got \cup {"MAC"}, 2 + 1)
    BY <1>2, <1>4, <2>2
  <2>5. \A got : read_field(at(got, 3), "UDP-port") = at(got \cup {"UDP-port"}, 3 + 1)
    BY <1>2, <1>4, <2>2
  <2>6. \A got : read_field(at(got, 4), "TCP-port").got = got \cup {"TCP-port"}
    BY <1>2, <1>5, <2>2
  <2> QED BY <2>1, <2>3, <2>4, <2>5, <2>6
<1>7. read_server_file(file) = {"Name", "MAC", "UDP-port", "TCP-port"}
  <2>1. read_server_file(file)
          = read_field(read_field(read_field(read_field(at({}, 1), "Name"), "MAC"), "UDP-port"),
                       "TCP-port").got
    BY DEF read_server_file
  <2> HIDE DEF at
  <2>2. read_field(at({}, 1), "Name") = at({"Name"}, 2)
    BY <1>6
  <2>3. read_field(at({"Name"}, 2), "MAC") = at({"Name", "MAC"}, 3)
    <3>1. {"Name"} \cup {"MAC"} = {"Name", "MAC"}
      OBVIOUS
    <3> QED BY <1>6, <3>1, Zenon
  <2>4. read_field(at({"Name", "MAC"}, 3), "UDP-port") = at({"Name", "MAC", "UDP-port"}, 4)
    <3>1. {"Name", "MAC"} \cup {"UDP-port"} = {"Name", "MAC", "UDP-port"}
      OBVIOUS
    <3> QED BY <1>6, <3>1, Zenon
  <2>5. read_field(at({"Name", "MAC", "UDP-port"}, 4), "TCP-port").got
          = {"Name", "MAC", "UDP-port", "TCP-port"}
    <3>1. {"Name", "MAC", "UDP-port"} \cup {"TCP-port"} = {"Name", "MAC", "UDP-port", "TCP-port"}
      OBVIOUS
    <3> QED BY <1>6, <3>1, Zenon
  <2> QED BY <2>1, <2>2, <2>3, <2>4, <2>5, Zenon
<1>8. {Fields[i] : i \in DOMAIN Fields} = {"Name", "MAC", "UDP-port", "TCP-port"}
  BY <1>1 DEF Fields
<1> QED BY <1>7, <1>8

\* Whatever the file, nothing but the four fields is read.
LEMMA ReadsFields ==
  ASSUME NEW file
  PROVE read_server_file(file) \subseteq {Fields[i] : i \in DOMAIN Fields}
<1>1. {Fields[i] : i \in DOMAIN Fields} = {"Name", "MAC", "UDP-port", "TCP-port"}
  BY DEF Fields
<1>2. \A acc, field : read_field(acc, field).got \subseteq acc.got \cup {field}
  BY DEF read_field
<1> DEFINE name == read_field([file |-> file, got |-> {}, line |-> 1], "Name")
           mac == read_field(name, "MAC")
           udp_port == read_field(mac, "UDP-port")
<1>3. [file |-> file, got |-> {}, line |-> 1].got = {}
  OBVIOUS
<1>4. name.got \subseteq {"Name"}
  BY <1>2, <1>3
<1> HIDE DEF name
<1>5. mac.got \subseteq {"Name", "MAC"}
  BY <1>2, <1>4
<1> HIDE DEF mac
<1>6. udp_port.got \subseteq {"Name", "MAC", "UDP-port"}
  BY <1>2, <1>5
<1> HIDE DEF udp_port
<1>7. read_field(udp_port, "TCP-port").got \subseteq {"Name", "MAC", "UDP-port", "TCP-port"}
  BY <1>2, <1>6
<1>8. read_server_file(file) = read_field(udp_port, "TCP-port").got
  BY DEF read_server_file, udp_port, mac, name
<1> QED BY <1>1, <1>7, <1>8

\* The type of the two files that are open.
LEMMA FileTypes ==
  ASSUME StartInv
  PROVE  /\ args.server_file \in DOMAIN disk.server =>
              disk.server[args.server_file] \in Seq([field : STRING, long : BOOLEAN])
         /\ args.controllers_file \in DOMAIN disk.controllers =>
              ControllersFile \in Seq(Entry \cup {Blank})
  BY DiskAssumption DEF StartInv, ControllersFile

\* What main has when it serves.
LEMMA ReadyInLoop == ProcessInv => LoopReady
<1> SUFFICES ASSUME ProcessInv, point = "loop" PROVE LoopReady
  BY DEF LoopReady
<1>1. tcp_socket = "open" /\ cpoint # "none"
  BY DEF ProcessInv, MadeInv, Loaded
<1>2. ControllersFile \in Seq(Entry \cup {Blank})
  BY FileTypes DEF ProcessInv, RowsInv, Loaded
<1>3. KnownBefore(ControllersFile, table, Len(ControllersFile) + 1)
  BY DEF ProcessInv, RowsInv, Loaded
<1>4. ControllersFile # <<>> /\ ControllersFile[1] # Blank =>
        \A i \in DOMAIN ControllersFile :
          ControllersFile[i] # Blank => \E j \in DOMAIN table : table[j] = ControllersFile[i]
  <2>1. DOMAIN ControllersFile = 1 .. (Len(ControllersFile) + 1) - 1
    BY <1>2
  <2> QED BY <1>3, <2>1, Zenon DEF KnownBefore
<1>5. /\ disk.server[args.server_file] \in Seq([field : STRING, long : BOOLEAN])
      /\ config = read_server_file(disk.server[args.server_file])
  BY FileTypes DEF ProcessInv, ConfigInv, Loaded
<1> DEFINE file == disk.server[args.server_file]
<1>6. (\A i \in DOMAIN Fields : i \in DOMAIN file /\ file[i].field = Fields[i]
                                /\ (i < Len(Fields) => ~file[i].long))
        => config = {Fields[i] : i \in DOMAIN Fields}
  BY <1>5, ReadsAll
<1> QED BY <1>1, <1>4, <1>6 DEF LoopReady

-----------------------------------------------------------------------------
(* The steps.                                                              *)

\* The steps of the handler and of the command thread.
OtherStep == sigint_handler \/ CtrlC \/ CommandStep

\* They, and a stutter, leave main and what it was started with alone.
LEMMA OthersLeaveMain ==
  OtherStep \/ UNCHANGED vars => UNCHANGED <<point, start, tcp_socket>>
  BY DEF OtherStep, sigint_handler, CtrlC, CommandStep, Scan, CommandQuit, CommandOther, vars, sockets

\* Only ReadRow, ReadNothing, ParseArgument and OpenControllersFile count.
LEMMA StartStep ==
  ASSUME ProcessInv, [Next]_vars
  PROVE  StartInv'
<1> USE DEF StartInv, start
<1>0. StartInv /\ argv \in Seq(Text)
  BY ArgvAssumption DEF ProcessInv
<1>1. CASE MainStep
  <2>1. argv' = argv /\ disk' = disk
    BY <1>1 DEF MainStep, ParseArgument, ParsedArguments, ReadServerFile, NoServerFile,
                OpenControllersFile, NoControllersFile, ReadRow, ReadNothing, ReadControllersFile,
                StartCommands, NoCommands, InstallHandler, CreateUdp, CreateTcp, NoTcp, Exit
  <2>2. CASE ParseArgument
    BY <1>0, <2>1, <2>2 DEF ParseArgument, AfterName
  <2>3. CASE ReadRow \/ ReadNothing
    <3>1. ControllersFile \in Seq(Entry \cup {Blank})
      <4>1. point = "rows"
        BY <2>3 DEF ReadRow, ReadNothing
      <4> QED BY <4>1, FileTypes DEF ProcessInv, RowsInv
    <3> QED BY <1>0, <2>1, <2>3, <3>1 DEF ReadRow, ReadNothing
  <2>4. CASE ~(ParseArgument \/ ReadRow \/ ReadNothing)
    <3>1. next' \in {1, next}
      BY <1>1, <2>4 DEF MainStep, ParsedArguments, ReadServerFile, NoServerFile,
                  OpenControllersFile, NoControllersFile, ReadControllersFile,
                  StartCommands, NoCommands, InstallHandler, CreateUdp, CreateTcp, NoTcp, Exit
    <3> QED BY <1>0, <2>1, <3>1
  <2> QED BY <2>2, <2>3, <2>4
<1>2. CASE OtherStep \/ UNCHANGED vars
  BY <1>0, <1>2, OthersLeaveMain
<1> QED BY <1>1, <1>2 DEF Next, OtherStep

\* After one more argument args is up to date again.
LEMMA ParseArgumentStep ==
  ASSUME ProcessInv, ParseArgument
  PROVE  ParseInv'
<1>1. argv \in Seq(Text) /\ next \in Nat \ {0} /\ next <= Len(argv) /\ OptionIn(argv, next)
  BY ArgvAssumption DEF ProcessInv, StartInv, ParseInv, ParseArgument
<1>2. ParsedBefore(next)
  BY DEF ProcessInv, ParseInv, ParseArgument
<1>3. args \in [server_file : Text, controllers_file : Text, debug : BOOLEAN]
  BY DEF ProcessInv, TypeOK
<1>4. point' = "args" /\ argv' = argv
  BY DEF ParseArgument
<1> DEFINE upto(n) ==
      /\ NamedBefore(argv, "-c", CONFIG_FILE_DEFAULT, args'.server_file, n)
      /\ NamedBefore(argv, "-u", CONTROLLERS_FILE_DEFAULT, args'.controllers_file, n)
      /\ args'.debug <=> DebugBefore(argv, n)
<1>5. SUFFICES next' \in 1 .. Len(argv) + 1 /\ (next' <= Len(argv) => OptionIn(argv, next'))
                 /\ upto(next')
  BY <1>4 DEF ParseInv, ParsedBefore
<1>6. \A option : GivenIn(argv, option, next) <=> Names(option)
  BY <1>1 DEF GivenIn, Names
<1>7. CASE argv[next] = "-d" /\ args' = [args EXCEPT !.debug = TRUE] /\ next' = next + 1
  <2>1. ~Names("-c") /\ ~Names("-u")
    BY <1>7 DEF Names
  <2>2. /\ args'.server_file = args.server_file /\ args'.controllers_file = args.controllers_file
        /\ args'.debug
    BY <1>3, <1>7
  <2>3. /\ NamedBefore(argv, "-c", CONFIG_FILE_DEFAULT, args.server_file, next + 1)
        /\ NamedBefore(argv, "-u", CONTROLLERS_FILE_DEFAULT, args.controllers_file, next + 1)
    BY <1>1, <1>2, <1>6, <2>1, NamedStep DEF ParsedBefore
  <2>4. DebugBefore(argv, next + 1)
    BY <1>1, <1>7, DebugStep
  <2>5. OptionIn(argv, next + 1)
    BY <1>1, <1>7, NextOption
  <2> QED BY <1>1, <1>7, <2>2, <2>3, <2>4, <2>5
<1>8. CASE Names("-c") /\ args' = [args EXCEPT !.server_file = argv[next + 1]] /\ next' = AfterName
  <2>1. ~Names("-u") /\ argv[next] \in {"-c", "-u"} /\ next < Len(argv)
    BY <1>8 DEF Names
  <2>2. /\ args'.server_file = argv[next + 1] /\ args'.controllers_file = args.controllers_file
        /\ args'.debug = args.debug
    BY <1>3, <1>8
  <2>3. ~OptionIn(argv, next + 1) /\ OptionIn(argv, next + 2)
    BY <1>1, <2>1, NameIsNoOption, OptionAfterName
  <2>4. NamedBefore(argv, "-c", CONFIG_FILE_DEFAULT, argv[next + 1], next + 2)
    BY <1>1, <1>6, <1>8, NamedHere
  <2>5. NamedBefore(argv, "-u", CONTROLLERS_FILE_DEFAULT, args.controllers_file, next + 2)
    BY <1>1, <1>2, <1>6, <2>1, <2>3, NamedSkip DEF ParsedBefore
  <2>6. args.debug <=> DebugBefore(argv, next + 2)
    BY <1>1, <1>2, <2>1, DebugSkip DEF ParsedBefore
  <2> QED BY <1>1, <1>8, <2>1, <2>2, <2>3, <2>4, <2>5, <2>6 DEF AfterName
<1>9. CASE Names("-u") /\ args' = [args EXCEPT !.controllers_file = argv[next + 1]]
             /\ next' = AfterName
  <2>1. ~Names("-c") /\ argv[next] \in {"-c", "-u"} /\ next < Len(argv)
    BY <1>9 DEF Names
  <2>2. /\ args'.controllers_file = argv[next + 1] /\ args'.server_file = args.server_file
        /\ args'.debug = args.debug
    BY <1>3, <1>9
  <2>3. ~OptionIn(argv, next + 1) /\ OptionIn(argv, next + 2)
    BY <1>1, <2>1, NameIsNoOption, OptionAfterName
  <2>4. NamedBefore(argv, "-u", CONTROLLERS_FILE_DEFAULT, argv[next + 1], next + 2)
    BY <1>1, <1>6, <1>9, NamedHere
  <2>5. NamedBefore(argv, "-c", CONFIG_FILE_DEFAULT, args.server_file, next + 2)
    BY <1>1, <1>2, <1>6, <2>1, <2>3, NamedSkip DEF ParsedBefore
  <2>6. args.debug <=> DebugBefore(argv, next + 2)
    BY <1>1, <1>2, <2>1, DebugSkip DEF ParsedBefore
  <2> QED BY <1>1, <1>9, <2>1, <2>2, <2>3, <2>4, <2>5, <2>6 DEF AfterName
<1>10. CASE argv[next] # "-d" /\ ~Names("-c") /\ ~Names("-u") /\ next' = next + 1 /\ args' = args
  <2>1. /\ NamedBefore(argv, "-c", CONFIG_FILE_DEFAULT, args.server_file, next + 1)
        /\ NamedBefore(argv, "-u", CONTROLLERS_FILE_DEFAULT, args.controllers_file, next + 1)
    BY <1>1, <1>2, <1>6, <1>10, NamedStep DEF ParsedBefore
  <2>2. args.debug <=> DebugBefore(argv, next + 1)
    BY <1>1, <1>2, <1>10, DebugStep DEF ParsedBefore
  <2>3. next + 1 <= Len(argv) => OptionIn(argv, next + 1)
    <3> SUFFICES ASSUME next + 1 <= Len(argv) PROVE OptionIn(argv, next + 1)
      OBVIOUS
    <3>1. argv[next] \notin {"-c", "-u"}
      BY <1>1, <1>10 DEF Names
    <3> QED BY <1>1, <3>1, NextOption
  <2> QED BY <1>1, <1>10, <2>1, <2>2, <2>3
<1> QED BY <1>7, <1>8, <1>9, <1>10 DEF ParseArgument

\* No other step touches args, and the loop ends after the last argument.
LEMMA ParseStep ==
  ASSUME ProcessInv, [Next]_vars
  PROVE  ParseInv'
<1>1. CASE ParseArgument
  BY <1>1, ParseArgumentStep
<1>2. CASE ParsedArguments
  <2>1. ParsedBefore(next) /\ next = Len(argv) + 1
    BY <1>2, ArgvAssumption DEF ProcessInv, StartInv, ParseInv, ParsedArguments, Goto
  <2> QED BY <1>2, <2>1 DEF ParsedArguments, Goto, ParseInv, ParsedBefore, start
<1>3. CASE MainStep /\ ~ParseArgument /\ ~ParsedArguments
  <2>1. UNCHANGED <<argv, args>> /\ point # "args" /\ point' # "args"
    BY <1>3 DEF MainStep, ReadServerFile, NoServerFile, OpenControllersFile, NoControllersFile,
                ReadRow, ReadNothing, ReadControllersFile, StartCommands, NoCommands,
                InstallHandler, CreateUdp, CreateTcp, NoTcp, Goto, Exit, start
  <2> QED BY <2>1 DEF ProcessInv, ParseInv, ParsedBefore
<1>4. CASE OtherStep \/ UNCHANGED vars
  BY <1>4, OthersLeaveMain DEF ProcessInv, ParseInv, ParsedBefore, start
<1> QED BY <1>1, <1>2, <1>3, <1>4 DEF Next, OtherStep

\* server.cfg is read once, and args and the files do not change after that.
LEMMA ConfigStep ==
  ASSUME ProcessInv, [Next]_vars
  PROVE  ConfigInv'
<1> USE DEF ConfigInv, Loaded, start
<1>1. CASE ReadServerFile
  BY <1>1 DEF ReadServerFile, Goto
<1>2. CASE ParseArgument \/ ParsedArguments \/ NoServerFile
  BY <1>2 DEF ParseArgument, ParsedArguments, NoServerFile, Goto, Exit
<1>3. CASE MainStep /\ ~ReadServerFile /\ ~(ParseArgument \/ ParsedArguments \/ NoServerFile)
  <2>1. UNCHANGED <<args, disk, config>> /\ point \in {"controllers_file", "rows"} \cup Loaded
    BY <1>3 DEF MainStep, OpenControllersFile, NoControllersFile,
                ReadRow, ReadNothing, ReadControllersFile, StartCommands, NoCommands,
                InstallHandler, CreateUdp, CreateTcp, NoTcp, Goto, Exit
  <2> QED BY <2>1 DEF ProcessInv
<1>4. CASE OtherStep \/ UNCHANGED vars
  BY <1>4, OthersLeaveMain DEF ProcessInv
<1> QED BY <1>1, <1>2, <1>3, <1>4 DEF Next, OtherStep

\* A row takes the first entry left, so that none is passed over.
LEMMA ReadRowStep ==
  ASSUME ProcessInv, ReadRow
  PROVE  /\ next' \in 1 .. Len(ControllersFile) + 1 /\ next' > Len(table')
         /\ KnownBefore(ControllersFile, table', next')
<1> DEFINE file == ControllersFile
<1>1. point = "rows" /\ file \in Seq(Entry \cup {Blank}) /\ table \in Seq(Entry \cup {Spoiled, Junk})
  BY FileTypes DEF ProcessInv, RowsInv, TypeOK, ReadRow
<1>2. next \in 1 .. Len(file) + 1 /\ next > Len(table) /\ KnownBefore(file, table, next)
  BY <1>1 DEF ProcessInv, RowsInv
<1>3. PICK line \in next .. Len(file) :
        /\ \A i \in next .. line - 1 : file[i] = Blank
        /\ table' = Append(table, IF file[1] = Blank /\ next = 1 THEN Spoiled ELSE file[line])
        /\ next' = line + 1
  BY DEF ReadRow
<1> HIDE DEF file
<1>4. next' \in 1 .. Len(file) + 1 /\ next' > Len(table')
  BY <1>1, <1>2, <1>3
<1>5. ASSUME file # <<>>, file[1] # Blank, NEW i \in 1 .. next' - 1, file[i] # Blank
      PROVE  \E j \in DOMAIN table' : table'[j] = file[i]
  <2>1. table' = Append(table, file[line])
    BY <1>3, <1>5
  <2>2. /\ DOMAIN table' = 1 .. Len(table) + 1 /\ table'[Len(table) + 1] = file[line]
        /\ DOMAIN table = 1 .. Len(table) /\ \A j \in 1 .. Len(table) : table'[j] = table[j]
    BY <1>1, <2>1
  <2>3. CASE i = line
    BY <1>1, <2>2, <2>3
  <2>4. CASE i # line
    <3>1. i \in 1 .. next - 1
      <4>1. i \notin next .. line - 1
        BY <1>3, <1>5
      <4> QED BY <1>2, <1>3, <1>5, <2>4, <4>1
    <3>2. PICK j \in DOMAIN table : table[j] = file[i]
      BY <1>2, <1>5, <3>1 DEF KnownBefore
    <3>3. j \in DOMAIN table' /\ table'[j] = file[i]
      BY <1>1, <2>2, <3>2
    <3> QED BY <3>3
  <2> QED BY <2>3, <2>4
<1> QED BY <1>4, <1>5 DEF KnownBefore, file

\* When there are blank lines only, a row of nothing passes over no entry.
LEMMA ReadNothingStep ==
  ASSUME ProcessInv, ReadNothing
  PROVE  /\ next' \in 1 .. Len(ControllersFile) + 1 /\ next' > Len(table')
         /\ KnownBefore(ControllersFile, table', next')
<1> DEFINE file == ControllersFile
<1>1. point = "rows" /\ file \in Seq(Entry \cup {Blank}) /\ table \in Seq(Entry \cup {Spoiled, Junk})
  BY FileTypes DEF ProcessInv, RowsInv, TypeOK, ReadNothing
<1>2. next \in 1 .. Len(file) + 1 /\ KnownBefore(file, table, next)
  BY <1>1 DEF ProcessInv, RowsInv
<1>3. /\ Len(table) < Len(file) /\ \A i \in next .. Len(file) : file[i] = Blank
      /\ table' = Append(table, Junk) /\ next' = Len(file) + 1
  BY DEF ReadNothing, num_controllers
<1> HIDE DEF file
<1>4. next' \in 1 .. Len(file) + 1 /\ next' > Len(table')
  BY <1>1, <1>3
<1>5. ASSUME file # <<>>, file[1] # Blank, NEW i \in 1 .. next' - 1, file[i] # Blank
      PROVE  \E j \in DOMAIN table' : table'[j] = file[i]
  <2>1. i \in 1 .. next - 1
    BY <1>1, <1>2, <1>3, <1>5
  <2>2. PICK j \in DOMAIN table : table[j] = file[i]
    BY <1>2, <1>5, <2>1 DEF KnownBefore
  <2>3. j \in DOMAIN table' /\ table'[j] = table[j]
    BY <1>1, <1>3
  <2> QED BY <2>2, <2>3
<1> QED BY <1>4, <1>5 DEF KnownBefore, file

\* When there are as many rows as lines, every line was read.
LEMMA RowsStep ==
  ASSUME ProcessInv, [Next]_vars
  PROVE  RowsInv'
<1> USE DEF RowsInv, Loaded, start
<1>1. CASE OpenControllersFile
  <2>1. point' = "rows" /\ next' = 1 /\ UNCHANGED <<args, disk, table>>
    BY <1>1 DEF OpenControllersFile, Goto
  <2>2. args.controllers_file \in DOMAIN disk.controllers /\ ControllersFile' = ControllersFile
    BY <1>1, <2>1 DEF OpenControllersFile, ControllersFile
  <2>3. ControllersFile \in Seq(Entry \cup {Blank})
    BY <2>2, FileTypes DEF ProcessInv
  <2>4. table = <<>>
    BY <1>1 DEF ProcessInv, UnreadInv, OpenControllersFile, Goto
  <2>5. 1 \in 1 .. Len(ControllersFile) + 1 /\ 1 > Len(table)
    BY <2>3, <2>4
  <2>6. KnownBefore(ControllersFile, table, 1)
    BY DEF KnownBefore
  <2> QED BY <2>1, <2>2, <2>5, <2>6
<1>2. CASE ReadRow \/ ReadNothing
  <2>1. UNCHANGED <<point, args, disk>> /\ point = "rows"
    BY <1>2 DEF ReadRow, ReadNothing
  <2>2. ControllersFile' = ControllersFile
    BY <2>1 DEF ControllersFile
  <2>3. /\ next' \in 1 .. Len(ControllersFile) + 1 /\ next' > Len(table')
        /\ KnownBefore(ControllersFile, table', next')
    BY <1>2, ReadRowStep, ReadNothingStep
  <2> QED BY <2>1, <2>2, <2>3 DEF ProcessInv
<1>3. CASE ReadControllersFile
  <2>1. point = "rows" /\ point' = "thread" /\ UNCHANGED <<args, disk, table>>
    BY <1>3 DEF ReadControllersFile, Goto
  <2>2. ControllersFile' = ControllersFile
    BY <2>1 DEF ControllersFile
  <2>3. ControllersFile \in Seq(Entry \cup {Blank}) /\ table \in Seq(Entry \cup {Spoiled, Junk})
    BY <2>1, FileTypes DEF ProcessInv, TypeOK
  <2>4. next = Len(ControllersFile) + 1
    BY <1>3, <2>1, <2>3 DEF ProcessInv, ReadControllersFile, num_controllers
  <2> QED BY <2>1, <2>2, <2>4 DEF ProcessInv
<1>4. CASE StartCommands \/ NoCommands \/ InstallHandler \/ CreateUdp \/ CreateTcp \/ NoTcp
  <2>1. UNCHANGED <<args, disk, table>> /\ point \in Loaded /\ point' \in Loaded
    BY <1>4 DEF StartCommands, NoCommands, InstallHandler, CreateUdp, CreateTcp, NoTcp, Goto, Exit
  <2>2. ControllersFile' = ControllersFile
    BY <2>1 DEF ControllersFile
  <2> QED BY <2>1, <2>2 DEF ProcessInv
<1>5. CASE ParseArgument \/ ParsedArguments \/ ReadServerFile \/ NoServerFile \/ NoControllersFile
  BY <1>5 DEF ParseArgument, ParsedArguments, ReadServerFile, NoServerFile, NoControllersFile,
              Goto, Exit
<1>6. CASE OtherStep \/ UNCHANGED vars
  <2>1. UNCHANGED <<point, args, disk, table, next>>
    BY <1>6, OthersLeaveMain
  <2>2. ControllersFile' = ControllersFile
    BY <2>1 DEF ControllersFile
  <2> QED BY <2>1, <2>2 DEF ProcessInv
<1> QED BY <1>1, <1>2, <1>3, <1>4, <1>5, <1>6 DEF Next, MainStep, OtherStep

\* No row is there before the loop that reads them.
LEMMA UnreadStep ==
  ASSUME ProcessInv, [Next]_vars
  PROVE  UnreadInv'
<1> USE DEF UnreadInv, start
<1>1. CASE MainStep
  BY <1>1 DEF ProcessInv, MainStep, ParseArgument, ParsedArguments, ReadServerFile, NoServerFile,
              OpenControllersFile, NoControllersFile, ReadRow, ReadNothing, ReadControllersFile,
              StartCommands, NoCommands, InstallHandler, CreateUdp, CreateTcp, NoTcp, Goto, Exit
<1>2. CASE OtherStep \/ UNCHANGED vars
  BY <1>2, OthersLeaveMain DEF ProcessInv
<1> QED BY <1>1, <1>2 DEF Next, OtherStep

\* The thread and the socket stay, and no SIGINT is handled before the handler
\* is installed.
LEMMA MadeStep ==
  ASSUME ProcessInv, [Next]_vars
  PROVE  MadeInv'
<1> USE DEF MadeInv, Loaded, start, sockets, commands, signals
<1>1. CASE MainStep
  <2>1. CASE StartCommands
    BY <2>1 DEF ProcessInv, StartCommands, Goto
  <2>2. CASE InstallHandler
    BY <2>2 DEF ProcessInv, InstallHandler, Goto
  <2>3. CASE CreateUdp \/ CreateTcp \/ NoTcp
    BY <2>3 DEF ProcessInv, CreateUdp, CreateTcp, NoTcp, Goto, Exit
  <2>4. CASE MainStep /\ ~(StartCommands \/ InstallHandler \/ CreateUdp \/ CreateTcp \/ NoTcp)
    <3>1. /\ UNCHANGED <<commands, signals, tcp_socket>>
          /\ point' \notin Loaded \ {"thread"} /\ point \notin Loaded \ {"thread"}
      BY <2>4 DEF MainStep, ParseArgument, ParsedArguments, ReadServerFile, NoServerFile,
                  OpenControllersFile, NoControllersFile, ReadRow, ReadNothing,
                  ReadControllersFile, NoCommands, Goto, Exit
    <3> QED BY <3>1 DEF ProcessInv
  <2> QED BY <1>1, <2>1, <2>2, <2>3, <2>4
<1>2. CASE sigint_handler \/ UNCHANGED vars
  BY <1>2 DEF ProcessInv, sigint_handler, vars
<1>3. CASE CtrlC
  BY <1>3 DEF ProcessInv, CtrlC, Interrupt
<1>4. CASE CommandStep
  BY <1>4 DEF ProcessInv, CommandStep, Scan, CommandQuit, CommandOther, Interrupt
<1> QED BY <1>1, <1>2, <1>3, <1>4 DEF Next

\* A row is an entry, a spoiled one or nothing.
LEMMA AppendRow ==
  ASSUME NEW rows \in Seq(Entry \cup {Spoiled, Junk}), NEW row \in Entry \cup {Spoiled, Junk}
  PROVE  Append(rows, row) \in Seq(Entry \cup {Spoiled, Junk})
  OBVIOUS

\* The parts of TypeOK: what main read, where it is, and the other two threads
\* of control.
StartTypes ==
  /\ args \in [server_file : Text, controllers_file : Text, debug : BOOLEAN]
  /\ table \in Seq(Entry \cup {Spoiled, Junk})
  /\ config \subseteq {Fields[i] : i \in DOMAIN Fields}

MainTypes ==
  /\ point \in {"args", "server_file", "controllers_file", "rows", "thread", "signal", "udp",
                "tcp", "loop"}
  /\ udp_socket \in {"none", "open", "-1"} /\ tcp_socket \in {"none", "open"}
  /\ status \in {"running", "exited", "killed", "disconnected"}

OtherTypes ==
  /\ cpoint \in {"none", "scan", "act", "done"} /\ command \in Word \cup {""}
  /\ disposition \in {"default", "handler"}
  /\ handling => disposition = "default"

LEMMA TypeParts ==
  /\ TypeOK => StartTypes /\ MainTypes /\ OtherTypes
  /\ StartTypes' /\ MainTypes' /\ OtherTypes' => TypeOK'
  BY DEF TypeOK, StartTypes, MainTypes, OtherTypes

\* A step keeps every variable in its type, and the handler is called once.
LEMMA TypesStep ==
  ASSUME ProcessInv, [Next]_vars
  PROVE  TypeOK'
<1> USE DEF start, sockets, commands, signals
<1>0. StartTypes /\ MainTypes /\ OtherTypes
  BY TypeParts DEF ProcessInv
<1>1. StartTypes'
  <2>1. CASE ParseArgument
    <3>1. argv \in Seq(Text) /\ next \in 1 .. Len(argv)
      BY <2>1, ArgvAssumption DEF ProcessInv, StartInv, ParseInv, ParseArgument
    <3>2. next < Len(argv) => argv[next + 1] \in Text
      BY <3>1
    <3> QED BY <1>0, <2>1, <3>2 DEF StartTypes, ParseArgument, Names
  <2>2. CASE ReadRow
    <3>1. ControllersFile \in Seq(Entry \cup {Blank}) /\ next \in 1 .. Len(ControllersFile) + 1
      BY <2>2, FileTypes DEF ProcessInv, RowsInv, ReadRow
    <3>2. PICK line \in next .. Len(ControllersFile) :
            /\ ControllersFile[line] # Blank
            /\ table' = Append(table, IF ControllersFile[1] = Blank /\ next = 1 THEN Spoiled
                                      ELSE ControllersFile[line])
      BY <2>2 DEF ReadRow
    <3>3. ControllersFile[line] \in Entry
      BY <3>1, <3>2
    <3>4. table' \in Seq(Entry \cup {Spoiled, Junk})
      BY <1>0, <3>2, <3>3, AppendRow DEF StartTypes
    <3> QED BY <1>0, <2>2, <3>4 DEF StartTypes, ReadRow
  <2>3. CASE ReadNothing
    <3>1. table' \in Seq(Entry \cup {Spoiled, Junk})
      BY <1>0, <2>3, AppendRow DEF StartTypes, ReadNothing
    <3> QED BY <1>0, <2>3, <3>1 DEF StartTypes, ReadNothing
  <2>4. CASE ReadServerFile
    BY <1>0, <2>4, ReadsFields DEF StartTypes, ReadServerFile
  <2>5. CASE MainStep /\ ~(ParseArgument \/ ReadRow \/ ReadNothing \/ ReadServerFile)
    <3>1. UNCHANGED <<args, config, table>>
      BY <2>5 DEF MainStep, ParsedArguments, NoServerFile, OpenControllersFile,
                  NoControllersFile, ReadControllersFile, StartCommands, NoCommands,
                  InstallHandler, CreateUdp, CreateTcp, NoTcp, Exit
    <3> QED BY <1>0, <3>1 DEF StartTypes
  <2>6. CASE OtherStep \/ UNCHANGED vars
    BY <1>0, <2>6, OthersLeaveMain DEF StartTypes
  <2> QED BY <2>1, <2>2, <2>3, <2>4, <2>5, <2>6 DEF Next, OtherStep
<1>2. MainTypes'
  <2> USE <1>0 DEF MainTypes
  <2>1. CASE ParseArgument \/ ReadRow \/ ReadNothing
    BY <2>1 DEF ParseArgument, ReadRow, ReadNothing
  <2>2. CASE ParsedArguments \/ ReadServerFile \/ OpenControllersFile
    BY <2>2 DEF ParsedArguments, ReadServerFile, OpenControllersFile, Goto
  <2>3. CASE ReadControllersFile \/ StartCommands \/ InstallHandler
    BY <2>3 DEF ReadControllersFile, StartCommands, InstallHandler, Goto
  <2>4. CASE NoServerFile \/ NoControllersFile \/ NoCommands \/ NoTcp
    BY <2>4 DEF NoServerFile, NoControllersFile, NoCommands, NoTcp, Exit
  <2>5. CASE CreateUdp
    BY <2>5 DEF CreateUdp, Goto
  <2>6. CASE CreateTcp
    BY <2>6 DEF CreateTcp, Goto
  <2>7. CASE sigint_handler
    BY <2>7 DEF sigint_handler
  <2>8. CASE CtrlC
    BY <2>8 DEF CtrlC, Interrupt
  <2>9. CASE CommandStep
    BY <2>9 DEF CommandStep, Scan, CommandQuit, CommandOther, Interrupt
  <2>10. CASE UNCHANGED vars
    BY <2>10 DEF vars
  <2> QED
    BY <2>1, <2>2, <2>3, <2>4, <2>5, <2>6, <2>7, <2>8, <2>9, <2>10 DEF Next, MainStep
<1>3. OtherTypes'
  <2> USE <1>0 DEF OtherTypes
  <2>1. CASE StartCommands
    BY <2>1 DEF StartCommands
  <2>2. CASE InstallHandler
    BY <2>2 DEF InstallHandler, Goto, ProcessInv, MadeInv
  <2>3. CASE MainStep /\ ~(StartCommands \/ InstallHandler)
    <3>1. UNCHANGED <<commands, signals>>
      BY <2>3 DEF MainStep, ParseArgument, ParsedArguments, ReadServerFile, NoServerFile,
                  OpenControllersFile, NoControllersFile, ReadRow, ReadNothing,
                  ReadControllersFile, NoCommands, CreateUdp, CreateTcp, NoTcp, Exit
    <3> QED BY <3>1
  <2>4. CASE sigint_handler
    BY <2>4 DEF sigint_handler
  <2>5. CASE CtrlC
    BY <2>5 DEF CtrlC, Interrupt, HandledOnce
  <2>6. CASE Scan
    <3>1. cpoint' = "act" /\ command' \in Word \cup {command} /\ UNCHANGED signals
      BY <2>6 DEF Scan
    <3> QED BY <3>1
  <2>7. CASE CommandOther
    BY <2>7 DEF CommandOther
  <2>8. CASE CommandQuit
    BY <2>8 DEF CommandQuit, Interrupt, HandledOnce
  <2>9. CASE UNCHANGED vars
    BY <2>9 DEF vars
  <2> QED BY <2>1, <2>2, <2>3, <2>4, <2>5, <2>6, <2>7, <2>8, <2>9 DEF Next, CommandStep
<1> QED BY <1>1, <1>2, <1>3, TypeParts

\* The invariant when the server starts.
LEMMA InitInv == Init => ProcessInv
<1> SUFFICES ASSUME Init PROVE ProcessInv
  OBVIOUS
<1>1. argv \in Seq(Text) /\ next = 1 /\ point = "args"
  BY ArgvAssumption DEF Init
<1>2. StartInv /\ ConfigInv /\ RowsInv /\ MadeInv /\ UnreadInv
  BY DEF Init, StartInv, ConfigInv, RowsInv, MadeInv, UnreadInv, Loaded
<1>3. ParsedBefore(1)
  <2>1. /\ args.server_file = CONFIG_FILE_DEFAULT /\ args.controllers_file = CONTROLLERS_FILE_DEFAULT
        /\ args.debug = FALSE
    BY DEF Init
  <2>2. 1 .. 1 - 1 = {}
    OBVIOUS
  <2> QED BY <2>1, <2>2 DEF ParsedBefore, NamedBefore, DebugBefore
<1>4. ParseInv
  BY <1>1, <1>3, FirstOption DEF ParseInv
<1>5. TypeOK
  <2>1. args \in [server_file : Text, controllers_file : Text, debug : BOOLEAN]
    BY ArgvAssumption DEF Init
  <2>2. table \in Seq(Entry \cup {Spoiled, Junk})
    <3>1. table = <<>>
      BY DEF Init
    <3> QED BY <3>1
  <2> QED BY <2>1, <2>2 DEF Init, TypeOK
<1> QED BY <1>2, <1>4, <1>5 DEF ProcessInv

\* The inductive invariant: at each point of main the loops before it have done
\* all that the arguments and the files ask for.
THEOREM Process == Spec => []ProcessInv
<1>1. Init => ProcessInv
  BY InitInv
<1>2. ProcessInv /\ [Next]_vars => ProcessInv'
  BY StartStep, ParseStep, ConfigStep, RowsStep, UnreadStep, MadeStep, TypesStep DEF ProcessInv
<1> QED BY <1>1, <1>2, PTL DEF Spec

\* TypeOK: the types, and that a running handler finds the default disposition,
\* which its own kill(0, SIGINT) then meets.
THEOREM HandlerOnce == Spec => []TypeOK
<1>1. ProcessInv => TypeOK
  BY DEF ProcessInv
<1> QED BY <1>1, Process, PTL

\* OpensNamedFiles: parse_arguments leaves the names that the last -c and -u
\* give, whatever the arguments are.
THEOREM OpensWhatIsNamed == Spec => []OpensNamedFiles
<1>1. ProcessInv => OpensNamedFiles
  BY OpensNamed DEF ProcessInv
<1> QED BY <1>1, Process, PTL

\* LoopReady: when main comes to its loop it has its socket, its command thread,
\* every controller and, of a server.cfg in order, every field.
THEOREM ServesReady == Spec => []LoopReady
<1>1. ProcessInv => LoopReady
  BY ReadyInLoop
<1> QED BY <1>1, Process, PTL

=============================================================================
