------------------------------ MODULE Startup ------------------------------
(***************************************************************************)
(* run_main, in every process an operator starts: key, configuration,      *)
(* listener, server info file, server, in that order.  Each step may fail  *)
(* and a process may be killed between any two.  Processes share the       *)
(* machine's ports and the info file; the operator edits the settings and  *)
(* instructions files whenever he likes.                                   *)
(***************************************************************************)
EXTENDS Configuration, Integers, Sequences, FiniteSets

CONSTANTS
  Process,     \* every process that is started, one run of run_main each
  Port,        \* loopback ports
  Dir,         \* config directories
  ArgsChosen,  \* the command lines and environments considered
  Disks,       \* what the settings files may hold at first
  Edits,       \* <<dir, contents>> the operator may write
  TextFiles,   \* what the instructions files may hold, at first or later
  MaxEdits,    \* bound: how often the operator edits
  InfoLength   \* bytes of each process's info line: Process -> Nat

\* Args, with the environment and the home directory of the process.
Args ==
  [port : Optional(Port), server_info : BOOLEAN, upstream_base : Optional(Url),
   config_dir : Optional(Dir), env_dir : Optional(Dir), home : Optional(Dir)]

ASSUME StartupAssumption ==
  /\ ArgsChosen \subseteq [Process -> Args]
  /\ Disks \subseteq [Dir -> {Absent, Unreadable, Malformed} \cup Settings]
  /\ Edits \subseteq Dir \X ({Absent, Unreadable, Malformed} \cup Settings)
  /\ TextFiles \subseteq [Path -> Text \cup {Unreadable}]
  /\ MaxEdits \in Nat
  /\ InfoLength \in [Process -> Nat \ {0}]
  /\ Absent \notin Port /\ Absent \notin Dir /\ Absent \notin Process
  /\ Absent \notin Seq(Process \X Nat) /\ Absent \notin ModelOverride
  /\ \A x \in {Absent, Unreadable, Malformed} : x \notin Settings

VARIABLES
  args,      \* how each process is started
  pc,        \* where it is in run_main
  config,    \* its configuration, as far as it is resolved
  todo,      \* models whose overrides it has yet to resolve
  base,      \* its upstream base URL
  port,      \* the port its listener is bound to
  owner,     \* the process that holds each port
  info,      \* the server info file: Absent, or <<process, place>> per byte
  disk,      \* the settings file in each directory
  texts,     \* the instructions files
  edits,     \* how often the operator has edited
  raw,       \* what its store returned
  shown      \* history: what it read from its instructions files

files == <<disk, texts, edits>>
local == <<config, todo, base, raw, shown>>
vars == <<args, pc, config, todo, base, port, owner, info, disk, texts, edits, raw, shown>>

-----------------------------------------------------------------------------
Nothing == [m \in Model |-> Absent]

Init ==
  /\ args \in ArgsChosen
  /\ pc = [p \in Process |-> "off"]
  /\ config = [p \in Process |-> ResolvedBase(NoSettings)]
  /\ todo = [p \in Process |-> {}]
  /\ base = [p \in Process |-> Absent]
  /\ port = [p \in Process |-> Absent]
  /\ owner = [q \in Port |-> Absent]
  /\ info = Absent
  /\ disk \in Disks /\ texts \in TextFiles /\ edits = 0
  /\ raw = [p \in Process |-> Absent]
  /\ shown = [p \in Process |-> Nothing]

\* p goes on to the next step.
Goto(p, next) == pc' = [pc EXCEPT ![p] = next]

\* p is gone, and its listener with it.
Die(p) ==
  /\ Goto(p, "dead")
  /\ owner' = [q \in Port |-> IF owner[q] = p THEN Absent ELSE owner[q]]
  /\ port' = [port EXCEPT ![p] = Absent]
  /\ config' = [config EXCEPT ![p] = ResolvedBase(NoSettings)]
  /\ todo' = [todo EXCEPT ![p] = {}]
  /\ base' = [base EXCEPT ![p] = Absent]
  /\ raw' = [raw EXCEPT ![p] = Absent]
  /\ shown' = [shown EXCEPT ![p] = Nothing]

\* What the key is made of is at hand, in the environment, or it has yet to come
\* from stdin, where read(2) waits for it.
Start(p) ==
  /\ pc[p] = "off"
  /\ Goto(p, "key") \/ Goto(p, "stdin")
  /\ UNCHANGED <<args, local, port, owner, info, files>>

\* Whoever holds the other end of stdin writes a line, or closes it, or the read
\* fails.  Nothing makes this happen.
StdinSettles(p) ==
  /\ pc[p] = "stdin"
  /\ Goto(p, "key")
  /\ UNCHANGED <<args, local, port, owner, info, files>>

\* read_auth_header: KeyReader says when it succeeds.
ReadKey(p) ==
  /\ pc[p] = "key"
  /\ \/ Goto(p, "config") /\ UNCHANGED <<local, port, owner>>
     \/ Die(p)
  /\ UNCHANGED <<args, info, files>>

\* resolve_config_dir: command line, then environment, then home.
ConfigDir(a) == OrElse(a.config_dir, OrElse(a.env_dir, a.home))

\* load_config up to the overrides: the file is read once, as it is now.
ReadConfig(p) ==
  /\ pc[p] = "config"
  /\ LET dir  == ConfigDir(args[p])
         file == IF dir = Absent THEN Malformed ELSE SettingsOf(disk[dir])
         usable == IF file = Malformed THEN FALSE ELSE GlobsCompile(file)
     IN \/ /\ usable
           /\ config' = [config EXCEPT ![p] = ResolvedBase(file)]
           /\ todo' = [todo EXCEPT ![p] = {m \in Model : file.model_overrides[m] # Absent}]
           /\ raw' = [raw EXCEPT ![p] = disk[dir]]
           /\ Goto(p, "overrides")
           /\ UNCHANGED <<base, shown, port, owner>>
        \/ /\ ~usable
           /\ Die(p)
  /\ UNCHANGED <<args, info, files>>

\* One turn of resolve's loop, the overrides in any order: an instructions
\* file is read now, and both kinds of instructions are refused.
ResolveOverride(p, m) ==
  /\ pc[p] = "overrides" /\ m \in todo[p]
  /\ LET ovr == SettingsOf(raw[p]).model_overrides[m]
         text == IF ovr.base_instructions_file # Absent
                   THEN texts[ovr.base_instructions_file] ELSE Absent
     IN \/ /\ ~BothInstructions(ovr) /\ text # Unreadable
           /\ config' = [config EXCEPT ![p].model_overrides[m] =
                           IF text = Absent THEN ovr ELSE WithText(ovr, text)]
           /\ shown' = [shown EXCEPT ![p][m] = text]
           /\ todo' = [todo EXCEPT ![p] = @ \ {m}]
           /\ UNCHANGED <<pc, base, raw, port, owner>>
        \/ /\ BothInstructions(ovr) \/ text = Unreadable
           /\ Die(p)
  /\ UNCHANGED <<args, info, files>>

\* resolve_upstream_base and MistralProxy::new.
NewProxy(p) ==
  /\ pc[p] = "overrides" /\ todo[p] = {}
  /\ LET url == UpstreamBase(args[p].upstream_base, config[p])
     IN \/ /\ Host[url] # Absent
           /\ base' = [base EXCEPT ![p] = url]
           /\ Goto(p, "bind")
           /\ UNCHANGED <<config, todo, raw, shown, port, owner>>
        \/ /\ Host[url] = Absent
           /\ Die(p)
  /\ UNCHANGED <<args, info, files>>

\* The ports bind_listener may get: the one it asks for, or any.
Wanted(p) == IF args[p].port = Absent THEN Port ELSE {args[p].port}

\* Faulty variant of Bind: it waits for a port in use.
BindWaits(p) ==
  /\ pc[p] = "bind"
  /\ \E q \in Wanted(p) :
       /\ owner[q] = Absent
       /\ port' = [port EXCEPT ![p] = q] /\ owner' = [owner EXCEPT ![q] = p]
       /\ Goto(p, IF args[p].server_info THEN "create" ELSE "server")
       /\ UNCHANGED local
  /\ UNCHANGED <<args, info, files>>

\* Faulty variant of Bind: a port in use is shared.
BindShared(p) ==
  /\ pc[p] = "bind"
  /\ \E q \in Wanted(p) :
       /\ port' = [port EXCEPT ![p] = q] /\ owner' = [owner EXCEPT ![q] = p]
       /\ Goto(p, IF args[p].server_info THEN "create" ELSE "server")
       /\ UNCHANGED local
  /\ UNCHANGED <<args, info, files>>

\* bind_listener: a port in use is an error.
Bind(p) ==
  /\ pc[p] = "bind"
  /\ \/ \E q \in Wanted(p) :
          /\ owner[q] = Absent
          /\ port' = [port EXCEPT ![p] = q] /\ owner' = [owner EXCEPT ![q] = p]
          /\ Goto(p, IF args[p].server_info THEN "create" ELSE "server")
          /\ UNCHANGED local
     \/ /\ \A q \in Wanted(p) : owner[q] # Absent
        /\ Die(p)
  /\ UNCHANGED <<args, info, files>>

\* The first n bytes of what p has to say.
Line(p, n) == [i \in 1..n |-> <<p, i>>]
InfoLine(p) == Line(p, InfoLength[p])

\* Faulty variant of CreateInfo: a file that exists is opened as it is.
CreateInfoKept(p) ==
  /\ pc[p] = "create"
  /\ \/ /\ info' = IF info = Absent THEN <<>> ELSE info
        /\ Goto(p, "write") /\ UNCHANGED <<local, port, owner>>
     \/ UNCHANGED info /\ Die(p)
  /\ UNCHANGED <<args, files>>

\* write_server_info's File::create: the file is empty, or cannot be made.
CreateInfo(p) ==
  /\ pc[p] = "create"
  /\ \/ info' = <<>> /\ Goto(p, "write") /\ UNCHANGED <<local, port, owner>>
     \/ UNCHANGED info /\ Die(p)
  /\ UNCHANGED <<args, files>>

\* The file with the bytes of s at its beginning, and the rest as it was.
Overwritten(s) == s \o SubSeq(info, Len(s) + 1, Len(info))

\* write_all, from the place File::create left p's handle at: all of the line,
\* or less of it and an error.
WriteInfo(p) ==
  /\ pc[p] = "write"
  /\ \/ /\ info' = Overwritten(InfoLine(p))
        /\ Goto(p, "server") /\ UNCHANGED <<local, port, owner>>
     \/ /\ \E n \in 0..(InfoLength[p] - 1) : info' = Overwritten(Line(p, n))
        /\ Die(p)
  /\ UNCHANGED <<args, files>>

\* Server::from_listener.
StartServer(p) ==
  /\ pc[p] = "server"
  /\ \/ Goto(p, "serving") /\ UNCHANGED <<local, port, owner>>
     \/ Die(p)
  /\ UNCHANGED <<args, info, files>>

\* Exit after /shutdown, a signal, a crash: at any point.
Killed(p) ==
  /\ pc[p] \notin {"off", "dead"}
  /\ Die(p)
  /\ UNCHANGED <<args, info, files>>

\* The operator rewrites a settings file, or the instructions files.
Edit ==
  /\ edits < MaxEdits
  /\ edits' = edits + 1
  /\ \/ /\ \E e \in Edits : disk' = [disk EXCEPT ![e[1]] = e[2]]
        /\ UNCHANGED texts
     \/ texts' \in TextFiles /\ UNCHANGED disk
  /\ UNCHANGED <<args, pc, local, port, owner, info>>

Step(p) ==
  \/ ReadKey(p) \/ ReadConfig(p) \/ NewProxy(p)
  \/ \E m \in Model : ResolveOverride(p, m)
  \/ Bind(p) \/ CreateInfo(p) \/ WriteInfo(p) \/ StartServer(p)

Next ==
  \/ \E p \in Process : Start(p) \/ StdinSettles(p) \/ Step(p) \/ Killed(p)
  \/ Edit

Spec == Init /\ [][Next]_vars

\* A process that is started runs; one that waits on stdin may wait forever.
FairSpec == Spec /\ \A p \in Process : WF_vars(Step(p))

-----------------------------------------------------------------------------
(* Correctness.                                                            *)

Bound == {"create", "write", "server", "serving"}
Where == {"off", "stdin", "key", "config", "overrides", "bind", "dead"} \cup Bound

\* Every variable has its type.
TypeOK ==
  /\ args \in [Process -> Args]
  /\ pc \in [Process -> Where]
  /\ \A p \in Process : config[p] \in ResolvedConfig
  /\ todo \in [Process -> SUBSET Model]
  /\ base \in [Process -> Optional(Url)]
  /\ port \in [Process -> Optional(Port)]
  /\ owner \in [Port -> Optional(Process)]
  /\ info = Absent \/ info \in Seq(Process \X Nat)
  /\ disk \in [Dir -> {Absent, Unreadable, Malformed} \cup Settings]
  /\ texts \in [Path -> Text \cup {Unreadable}]
  /\ edits \in 0..MaxEdits
  /\ \A p \in Process : raw[p] = Absent \/ raw[p] \in Settings
  /\ shown \in [Process -> [Model -> Optional(Text)]]
  /\ DOMAIN config = Process /\ DOMAIN raw = Process

\* Everyone who writes the info file asks for the same port.
OnePort ==
  \E q \in Port : \A p \in Process : args[p].server_info => args[p].port = q

\* With one port to ask for, the info file of a proxy that serves is whole and
\* its own, whoever else was started, failed, wrote a part of it or was killed
\* meanwhile: binding comes first and is the lock (run_main,
\* write_server_info).
InfoNamesServer ==
  OnePort =>
    \A p \in Process : pc[p] = "serving" /\ args[p].server_info => info = InfoLine(p)

\* Whenever the info file names a process that has not gone, connecting to the
\* port it gives reaches that process (bind_listener, run_main).
InfoReachesWriter ==
  \A p \in Process :
    info = InfoLine(p) /\ pc[p] # "dead" => port[p] \in Port /\ owner[port[p]] = p

\* What the operator's file says to p, and nothing when there is none.
File(p) == IF raw[p] = Absent THEN NoSettings ELSE raw[p]

\* What p makes of the file's override for m: inline instructions, or what the
\* instructions file said, never both, and everything else as it stands.
Resolved(p, m) ==
  LET o == File(p).model_overrides[m]
      c == config[p].model_overrides[m]
  IN /\ (c = Absent <=> o = Absent)
     /\ o # Absent =>
          /\ ~BothInstructions(o)
          /\ c.base_instructions =
               (IF o.base_instructions_file = Absent THEN o.base_instructions
                                                     ELSE shown[p][m])
          /\ o.base_instructions_file # Absent => shown[p][m] \in Text
          /\ c.base_instructions_file = Absent
          /\ c.enabled = o.enabled /\ c.context_window = o.context_window
          /\ c.upstream_model_id = o.upstream_model_id /\ c.detail = o.detail

\* A file that cannot be read or parsed, a pattern that does not compile, or
\* both kinds of instructions stop the start, and nothing the file sets is
\* lost: what a proxy binds with is the file it read, and the default for
\* each key that is not in it (load_config, resolve, resolve_upstream_base).
ConfigInForce ==
  \A p \in Process :
    pc[p] \in Bound \cup {"bind"} =>
      LET file == File(p)
          flag == args[p].upstream_base
      IN /\ file \in Settings /\ GlobsCompile(file)
         /\ config[p].enabled = (file.enabled # FALSE)
         /\ config[p].exclude = OrElse(file.model_exclude_globs, DefaultGlobs)
         /\ config[p].log_level = OrElse(file.log_level, "normal")
         /\ base[p] = Trimmed[CASE flag # Absent -> flag
                                [] flag = Absent /\ file.upstream_base_url # Absent ->
                                     file.upstream_base_url
                                [] OTHER -> DefaultUrl]
         /\ Host[base[p]] # Absent
         /\ \A m \in Model : Resolved(p, m)

\* Once what the key is made of is at hand every start comes to an end, with a
\* server or without: no later step waits for another proxy or for the operator
\* (run_main).  Before that a start without a key in the environment waits on
\* stdin for as long as its other end is open and silent.
StartEnds ==
  \A p \in Process : (pc[p] = "key") ~> (pc[p] \in {"serving", "dead"})

-----------------------------------------------------------------------------
(* Why they hold.                                                          *)

\* A listener holds its port from bind to the end, the port asked for if any.
PortsHeld ==
  \A p \in Process :
    /\ pc[p] \in Bound => port[p] \in Port /\ owner[port[p]] = p
    /\ pc[p] \in Bound /\ args[p].port # Absent => port[p] = args[p].port
    /\ pc[p] \in {"create", "write"} => args[p].server_info

\* Whoever wrote a byte of the info file is done writing, and whoever is about
\* to write has made the file.
WritersDone ==
  /\ info # Absent =>
       \A i \in 1..Len(info) : pc[info[i][1]] \in {"server", "serving", "dead"}
  /\ \A p \in Process : pc[p] = "write" => info \in Seq(Process \X Nat)

\* With one port, whoever holds it has the info file for itself.
InfoLocked ==
  OnePort =>
    \A p \in Process :
      args[p].server_info =>
        /\ pc[p] = "write" => info = <<>>
        /\ pc[p] \in {"server", "serving"} => info = InfoLine(p)

\* What resolve has done of the file so far, and what it has yet to do.
SoFar(p) ==
  LET file == File(p)
  IN /\ GlobsCompile(file)
     /\ config[p].enabled = (file.enabled # FALSE)
     /\ config[p].exclude = OrElse(file.model_exclude_globs, DefaultGlobs)
     /\ config[p].log_level = OrElse(file.log_level, "normal")
     /\ config[p].upstream_base_url = file.upstream_base_url
     /\ \A m \in todo[p] : /\ config[p].model_overrides[m] = Absent
                           /\ file.model_overrides[m] # Absent
     /\ \A m \in Model \ todo[p] : Resolved(p, m)

\* What NewProxy adds to it.
WithBase(p) ==
  /\ todo[p] = {} /\ Host[base[p]] # Absent
  /\ base[p] = UpstreamBase(args[p].upstream_base, config[p])

Resolving ==
  \A p \in Process :
    /\ pc[p] \in Bound \cup {"bind", "overrides"} => SoFar(p)
    /\ pc[p] \in Bound \cup {"bind"} => WithBase(p)

IInv == TypeOK /\ PortsHeld /\ WritersDone /\ InfoLocked /\ Resolving
=============================================================================
