--------------------------- MODULE StartupProofs ---------------------------
(***************************************************************************)
(* For any number of processes, ports, directories and settings files: the *)
(* info file a proxy serves with is its own, its configuration is what its *)
(* operator's file said when it was read, and so are its answers, for any  *)
(* listing and any headers.                                                *)
(***************************************************************************)
EXTENDS Setup, LoopProofs

\* A missing settings file is as good as one that sets nothing.
LEMMA NothingSet == NoSettings \in Settings /\ GlobsCompile(NoSettings)
<1>1. NoSettings \in Settings
  BY DEF NoSettings, Settings, Optional
<1>2. Patterns(NoSettings) = DefaultGlobs
  BY DEF NoSettings, Patterns, OrElse
<1>3. QED
  BY <1>1, <1>2, ConfigurationAssumption DEF GlobsCompile

\* A file whose patterns compile makes a configuration.
LEMMA BaseType ==
  ASSUME NEW file \in Settings, GlobsCompile(file)
  PROVE  ResolvedBase(file) \in ResolvedConfig
<1>1. Patterns(file) \in SUBSET Glob
  BY ConfigurationAssumption DEF Settings, Optional, Patterns, OrElse, GlobsCompile
<1>2. OrElse(file.enabled, TRUE) \in BOOLEAN
  BY DEF Settings, Optional, OrElse
<1>3. OrElse(file.log_level, "normal") \in {"normal", "verbose"}
  BY DEF Settings, Optional, OrElse
<1>4. file.upstream_base_url \in Optional(Url)
  BY DEF Settings
<1>5. [m \in Model |-> Absent] \in [Model -> Optional(ModelOverride)]
  BY DEF Optional
<1>6. QED
  BY <1>1, <1>2, <1>3, <1>4, <1>5 DEF ResolvedBase, ResolvedConfig

\* A file is read when it is there and well formed, or not there.
LEMMA Readable ==
  ASSUME NEW contents \in {Absent, Unreadable, Malformed} \cup Settings,
         SettingsOf(contents) # Malformed
  PROVE  /\ contents = Absent \/ contents \in Settings
         /\ SettingsOf(contents) = IF contents = Absent THEN NoSettings ELSE contents
         /\ SettingsOf(contents) \in Settings
BY NothingSet, StartupAssumption DEF SettingsOf

\* What p has read is a file's contents or nothing.
LEMMA FileType ==
  ASSUME TypeOK, NEW p \in Process
  PROVE  File(p) \in Settings /\ SettingsOf(raw[p]) = File(p)
<1>1. raw[p] = Absent \/ raw[p] \in Settings
  BY DEF TypeOK
<1>2. CASE raw[p] = Absent
  BY <1>2, NothingSet, ConfigurationAssumption DEF File, SettingsOf
<1>3. CASE raw[p] \in Settings
  BY <1>3, StartupAssumption DEF File, SettingsOf
<1>4. QED
  BY <1>1, <1>2, <1>3

\* A file that is overwritten from its first byte holds the new bytes, and old
\* ones at their places.
LEMMA OverwrittenType ==
  ASSUME NEW p \in Process, NEW n \in Nat, info \in Seq(Process \X Nat)
  PROVE  LET new == Overwritten(Line(p, n))
         IN /\ new \in Seq(Process \X Nat)
            /\ \A i \in 1..Len(new) :
                 new[i] = <<p, i>> \/ (i \in 1..Len(info) /\ new[i] = info[i])
            /\ info = <<>> => new = Line(p, n)
<1> DEFINE s == Line(p, n)
           l == Len(info)
           m == n + 1
           rest == SubSeq(info, m, l)
<1>1. s \in Seq(Process \X Nat) /\ Len(s) = n /\ \A i \in 1..n : s[i] = <<p, i>>
  BY DEF Line
<1>2. l \in Nat /\ \A i \in 1..l : info[i] \in Process \X Nat
  BY LenProperties, ElementOfSeq
<1>3. Overwritten(Line(p, n)) = s \o rest
  BY <1>1 DEF Overwritten
<1>4. m \in Int /\ l \in Int /\ \A i \in m..l : info[i] \in Process \X Nat
  BY <1>2
<1> HIDE DEF s, l, m
<1>5. /\ rest \in Seq(Process \X Nat)
      /\ Len(rest) = IF m <= l THEN l - m + 1 ELSE 0
      /\ \A i \in 1..(l - m + 1) : rest[i] = info[m + i - 1]
  BY <1>4, SubSeqProperties
<1> HIDE DEF rest
<1>6. /\ s \o rest \in Seq(Process \X Nat)
      /\ Len(s \o rest) = n + Len(rest)
      /\ \A i \in 1..(n + Len(rest)) :
           (s \o rest)[i] = IF i <= n THEN s[i] ELSE rest[i - n]
  BY <1>1, <1>5, ConcatProperties
<1>7. ASSUME NEW i \in 1..(n + Len(rest))
      PROVE  (s \o rest)[i] = <<p, i>> \/ (i \in 1..l /\ (s \o rest)[i] = info[i])
  <2>1. CASE i <= n
    BY <1>1, <1>6, <2>1
  <2>2. CASE i > n
    <3>1. m <= l /\ i - n \in 1..(l - m + 1) /\ m + (i - n) - 1 = i /\ i \in 1..l
      BY <1>2, <1>5, <2>2 DEF m
    <3>2. (s \o rest)[i] = rest[i - n] /\ rest[i - n] = info[i]
      BY <1>5, <1>6, <2>2, <3>1
    <3>3. QED
      BY <3>1, <3>2
  <2>3. i <= n \/ i > n
    <3>1. l - m + 1 \in Int /\ Len(rest) \in Int
      BY <1>4, <1>5
    <3>2. QED
      BY <3>1
  <2>4. QED
    BY <2>1, <2>2, <2>3
<1>8. ASSUME info = <<>>
      PROVE  s \o rest = s
  <2>1. l = 0
    BY <1>8 DEF l
  <2>2. Len(rest) = 0
    BY <1>5, <2>1 DEF m
  <2>3. rest = <<>>
    BY <1>5, <2>2, EmptySeq
  <2>4. QED
    BY <1>1, <2>3, ConcatEmptySeq
<1>9. QED
  BY <1>3, <1>6, <1>7, <1>8 DEF s, l

-----------------------------------------------------------------------------
\* With one port, only one process that writes the info file can be bound.
LEMMA OneWriter ==
  ASSUME TypeOK, PortsHeld, OnePort, NEW p \in Process, NEW r \in Process,
         pc[p] \in Bound, pc[r] \in Bound, args[p].server_info, args[r].server_info
  PROVE  p = r
<1>1. PICK q \in Port : args[p].port = q /\ args[r].port = q
  BY DEF OnePort
<1>2. q # Absent
  BY StartupAssumption
<1>3. port[p] = q /\ owner[q] = p
  BY <1>1, <1>2 DEF PortsHeld
<1>4. port[r] = q /\ owner[q] = r
  BY <1>1, <1>2 DEF PortsHeld
<1>5. QED
  BY <1>3, <1>4

\* What resolve has done for r stays as long as nothing of r changes.
LEMMA ResolvingFrame ==
  ASSUME NEW r \in Process, args' = args,
         config'[r] = config[r], todo'[r] = todo[r], base'[r] = base[r],
         raw'[r] = raw[r], shown'[r] = shown[r]
  PROVE  (SoFar(r) => SoFar(r)') /\ (WithBase(r) => WithBase(r)')
<1>1. File(r)' = File(r)
  BY DEF File
<1>2. \A m \in Model : Resolved(r, m) => Resolved(r, m)'
  BY <1>1 DEF Resolved
<1>3. SoFar(r) => SoFar(r)'
  BY <1>1, <1>2 DEF SoFar
<1>4. WithBase(r) => WithBase(r)'
  BY DEF WithBase
<1>5. QED
  BY <1>3, <1>4

\* A process that is gone leaves the others as they were, and perhaps a part of
\* its line in the info file.
LEMMA DieStep ==
  ASSUME IInv, NEW p \in Process, Die(p), UNCHANGED <<args, files>>,
         \/ UNCHANGED info
         \/ /\ pc[p] = "write"
            /\ \E n \in 0..(InfoLength[p] - 1) : info' = Overwritten(Line(p, n))
  PROVE  IInv'
<1>1. /\ pc'[p] = "dead" /\ pc' \in [Process -> Where]
      /\ \A r \in Process \ {p} :
           /\ pc'[r] = pc[r] /\ port'[r] = port[r] /\ config'[r] = config[r]
           /\ todo'[r] = todo[r] /\ base'[r] = base[r] /\ raw'[r] = raw[r]
           /\ shown'[r] = shown[r]
      /\ \A q \in Port : owner[q] # p => owner'[q] = owner[q]
  BY DEF IInv, TypeOK, Die, Goto, Where
<1>2. TypeOK'
  <2>1. info' = Absent \/ info' \in Seq(Process \X Nat)
    <3>1. CASE UNCHANGED info
      BY <3>1 DEF IInv, TypeOK
    <3>2. CASE pc[p] = "write" /\ \E n \in 0..(InfoLength[p] - 1) : info' = Overwritten(Line(p, n))
      <4>1. info \in Seq(Process \X Nat)
        BY <3>2 DEF IInv, WritersDone
      <4>2. PICK n \in Nat : info' = Overwritten(Line(p, n))
        BY <3>2, StartupAssumption
      <4>3. QED
        BY <4>1, <4>2, OverwrittenType
    <3>3. QED
      BY <3>1, <3>2
  <2>2. \A r \in Process : config'[r] \in ResolvedConfig
    BY <1>1, NothingSet, BaseType DEF IInv, TypeOK, Die
  <2>3. /\ owner' \in [Port -> Optional(Process)] /\ port' \in [Process -> Optional(Port)]
        /\ todo' \in [Process -> SUBSET Model] /\ base' \in [Process -> Optional(Url)]
    BY DEF IInv, TypeOK, Die, Optional
  <2>4. Nothing \in [Model -> Optional(Text)]
    BY DEF Nothing, Optional
  <2>5. shown' \in [Process -> [Model -> Optional(Text)]]
    BY <2>4 DEF IInv, TypeOK, Die
  <2>6. /\ \A r \in Process : raw'[r] = Absent \/ raw'[r] \in Settings
        /\ DOMAIN config' = Process /\ DOMAIN raw' = Process
    BY DEF IInv, TypeOK, Die
  <2>7. QED
    BY <1>1, <2>1, <2>2, <2>3, <2>5, <2>6 DEF IInv, TypeOK, files
<1>3. PortsHeld'
  <2>1. ASSUME NEW r \in Process, pc'[r] \in Bound
        PROVE  r # p /\ pc[r] \in Bound /\ port[r] \in Port /\ owner[port[r]] = r
    BY <1>1, <2>1 DEF Bound, IInv, PortsHeld
  <2>2. \A r \in Process : pc'[r] \in Bound =>
          /\ port'[r] \in Port /\ owner'[port'[r]] = r
          /\ args[r].port # Absent => port'[r] = args[r].port
    BY <1>1, <2>1 DEF IInv, PortsHeld
  <2>3. \A r \in Process : pc'[r] \in {"create", "write"} => args[r].server_info
    BY <1>1, <2>1 DEF IInv, PortsHeld, Bound
  <2>4. QED
    BY <2>2, <2>3 DEF PortsHeld
<1>4. WritersDone'
  <2>1. ASSUME NEW r \in Process, pc[r] \in {"server", "serving", "dead"}
        PROVE  pc'[r] \in {"server", "serving", "dead"}
    BY <1>1, <2>1
  <2>2. CASE UNCHANGED info
    <3>1. ASSUME info # Absent, NEW i \in 1..Len(info)
          PROVE  pc'[info[i][1]] \in {"server", "serving", "dead"}
      <4>1. info[i] \in Process \X Nat
        BY <3>1, ElementOfSeq DEF IInv, TypeOK
      <4>2. pc[info[i][1]] \in {"server", "serving", "dead"}
        BY <3>1 DEF IInv, WritersDone
      <4>3. QED
        BY <2>1, <4>1, <4>2
    <3>2. QED
      BY <1>1, <2>2, <3>1 DEF IInv, WritersDone
  <2>3. CASE pc[p] = "write" /\ \E n \in 0..(InfoLength[p] - 1) : info' = Overwritten(Line(p, n))
    <3>1. info \in Seq(Process \X Nat)
      BY <2>3 DEF IInv, WritersDone
    <3>2. PICK n \in Nat : info' = Overwritten(Line(p, n))
      BY <2>3, StartupAssumption
    <3>3. /\ info' \in Seq(Process \X Nat)
          /\ \A i \in 1..Len(info') :
               info'[i] = <<p, i>> \/ (i \in 1..Len(info) /\ info'[i] = info[i])
      BY <3>1, <3>2, OverwrittenType
    <3>4. ASSUME NEW i \in 1..Len(info')
          PROVE  pc'[info'[i][1]] \in {"server", "serving", "dead"}
      <4>1. CASE info'[i] = <<p, i>>
        BY <1>1, <4>1
      <4>2. CASE i \in 1..Len(info) /\ info'[i] = info[i]
        <5>1. info[i] \in Process \X Nat
          BY <3>1, <4>2, ElementOfSeq
        <5>2. pc[info[i][1]] \in {"server", "serving", "dead"}
          BY <3>1, <4>2, StartupAssumption DEF IInv, WritersDone
        <5>3. QED
          BY <2>1, <4>2, <5>1, <5>2
      <4>3. QED
        BY <3>3, <4>1, <4>2
    <3>5. QED
      BY <3>3, <3>4 DEF WritersDone
  <2>4. QED
    BY <2>2, <2>3
<1>5. InfoLocked'
  <2>1. SUFFICES ASSUME OnePort, NEW r \in Process, args[r].server_info,
                        pc'[r] \in {"write", "server", "serving"}
                 PROVE  /\ pc'[r] = "write" => info' = <<>>
                        /\ pc'[r] \in {"server", "serving"} => info' = InfoLine(r)
    BY DEF InfoLocked, OnePort, InfoLine, Line
  <2>2. r # p /\ pc'[r] = pc[r]
    BY <1>1, <2>1
  <2>3. UNCHANGED info
    <3>1. ASSUME pc[p] = "write"
          PROVE  FALSE
      BY <2>1, <2>2, <3>1, OneWriter DEF IInv, PortsHeld, Bound
    <3>2. QED
      BY <3>1
  <2>4. QED
    BY <2>1, <2>2, <2>3 DEF IInv, InfoLocked
<1>6. Resolving'
  <2>1. ASSUME NEW r \in Process, pc'[r] \in Bound \cup {"bind", "overrides"}
        PROVE  r # p /\ pc'[r] = pc[r]
    BY <1>1, <2>1 DEF Bound
  <2>2. QED
    BY <1>1, <2>1, ResolvingFrame DEF IInv, Resolving
<1>7. QED
  BY <1>2, <1>3, <1>4, <1>5, <1>6 DEF IInv

\* A process that only goes on to its next step, before it has read anything or
\* after it has told everything.
LEMMA MoveStep ==
  ASSUME IInv, NEW p \in Process, NEW next,
         \/ pc[p] = "off" /\ next \in {"key", "stdin"}
         \/ pc[p] = "stdin" /\ next = "key"
         \/ pc[p] = "key" /\ next = "config"
         \/ pc[p] = "server" /\ next = "serving",
         Goto(p, next), UNCHANGED <<args, local, port, owner, info, files>>
  PROVE  IInv'
<1>1. /\ pc'[p] = next /\ pc' \in [Process -> Where]
      /\ \A r \in Process \ {p} : pc'[r] = pc[r]
  BY DEF IInv, TypeOK, Goto, Where, Bound
<1>2. TypeOK'
  BY <1>1 DEF IInv, TypeOK, local, files
<1>3. PortsHeld'
  BY <1>1 DEF IInv, PortsHeld, Bound, local
<1>4. WritersDone'
  <2>1. \A r \in Process : pc[r] \in {"server", "serving", "dead"} =>
          pc'[r] \in {"server", "serving", "dead"}
    BY <1>1
  <2>2. \A i \in 1..Len(info) : info # Absent => info[i] \in Process \X Nat
    BY ElementOfSeq DEF IInv, TypeOK
  <2>3. QED
    BY <1>1, <2>1, <2>2 DEF IInv, WritersDone
<1>5. InfoLocked'
  BY <1>1 DEF IInv, InfoLocked, OnePort, InfoLine, Line
<1>6. Resolving'
  <2>1. \A r \in Process : /\ (pc'[r] \in Bound \cup {"bind"} <=> pc[r] \in Bound \cup {"bind"})
                           /\ (pc'[r] = "overrides" <=> pc[r] = "overrides")
    BY <1>1 DEF Bound
  <2>2. QED
    BY <2>1, ResolvingFrame DEF IInv, Resolving, local
<1>7. QED
  BY <1>2, <1>3, <1>4, <1>5, <1>6 DEF IInv

\* A process that is neither bound nor writing, before or after a step of it,
\* touches nothing the others rely on.
LEMMA UnboundStep ==
  ASSUME IInv, NEW p \in Process, UNCHANGED <<args, port, owner, info>>,
         pc[p] \notin Bound \cup {"dead"}, pc' = [pc EXCEPT ![p] = pc'[p]],
         pc'[p] \notin Bound
  PROVE  PortsHeld' /\ WritersDone' /\ InfoLocked'
<1>1. \A r \in Process \ {p} : pc'[r] = pc[r]
  BY DEF IInv, TypeOK
<1>2. PortsHeld'
  BY <1>1 DEF IInv, PortsHeld, Bound
<1>3. WritersDone'
  <2>1. \A r \in Process : pc[r] \in {"server", "serving", "dead"} => pc'[r] = pc[r]
    BY <1>1 DEF Bound
  <2>2. \A i \in 1..Len(info) : info # Absent => info[i] \in Process \X Nat
    BY ElementOfSeq DEF IInv, TypeOK
  <2>3. QED
    BY <1>1, <2>1, <2>2 DEF IInv, WritersDone, Bound
<1>4. InfoLocked'
  BY <1>1 DEF IInv, InfoLocked, OnePort, InfoLine, Line, Bound
<1>5. QED
  BY <1>2, <1>3, <1>4

\* load_config takes all of the file that is there, and nothing of one that
\* cannot be used.
LEMMA ReadConfigStep ==
  ASSUME IInv, NEW p \in Process, ReadConfig(p)
  PROVE  IInv'
<1> DEFINE dir == ConfigDir(args[p])
           file == IF dir = Absent THEN Malformed ELSE SettingsOf(disk[dir])
           usable == IF file = Malformed THEN FALSE ELSE GlobsCompile(file)
<1>1. CASE ~usable
  BY <1>1, DieStep DEF ReadConfig
<1>2. CASE usable
  <2>1. file # Malformed /\ GlobsCompile(file) /\ dir # Absent
    BY <1>2
  <2>2. dir \in Dir
    BY <2>1 DEF IInv, TypeOK, Args, ConfigDir, OrElse, Optional
  <2>3. /\ disk[dir] = Absent \/ disk[dir] \in Settings
        /\ file = (IF disk[dir] = Absent THEN NoSettings ELSE disk[dir])
        /\ file \in Settings
    BY <2>1, <2>2, Readable DEF IInv, TypeOK
  <2> HIDE DEF file, dir
  <2>4. /\ config' = [config EXCEPT ![p] = ResolvedBase(file)]
        /\ todo' = [todo EXCEPT ![p] = {m \in Model : file.model_overrides[m] # Absent}]
        /\ raw' = [raw EXCEPT ![p] = disk[dir]]
        /\ pc[p] = "config" /\ pc' = [pc EXCEPT ![p] = "overrides"]
        /\ UNCHANGED <<args, base, shown, port, owner, info, files>>
    BY <1>2 DEF ReadConfig, Goto, file, dir
  <2>5. pc' \in [Process -> Where] /\ pc'[p] = "overrides"
    BY <2>4 DEF IInv, TypeOK, Where
  <2>6. TypeOK'
    <3>1. \A r \in Process : config'[r] \in ResolvedConfig
      BY <2>1, <2>3, <2>4, BaseType DEF IInv, TypeOK
    <3>2. todo' \in [Process -> SUBSET Model]
      BY <2>4 DEF IInv, TypeOK
    <3>3. /\ \A r \in Process : raw'[r] = Absent \/ raw'[r] \in Settings
          /\ DOMAIN config' = Process /\ DOMAIN raw' = Process
      BY <2>3, <2>4 DEF IInv, TypeOK
    <3>4. QED
      BY <2>4, <2>5, <3>1, <3>2, <3>3 DEF IInv, TypeOK, files
  <2>7. PortsHeld' /\ WritersDone' /\ InfoLocked'
    BY <2>4, <2>5, UnboundStep DEF Bound
  <2>8. Resolving'
    <3>1. File(p)' = file /\ config'[p] = ResolvedBase(file)
      BY <2>3, <2>4 DEF File, IInv, TypeOK
    <3>2. todo'[p] = {m \in Model : file.model_overrides[m] # Absent}
      BY <2>4 DEF IInv, TypeOK
    <3>9. config'[p].log_level = OrElse(file.log_level, "normal")
      BY <3>1 DEF ResolvedBase
    <3>3. (file.enabled # FALSE) = OrElse(file.enabled, TRUE)
      BY <2>3, ConfigurationAssumption DEF Settings, Optional, OrElse
    <3>4. \A m \in Model \ todo'[p] : Resolved(p, m)'
      BY <3>1, <3>2 DEF Resolved, ResolvedBase
    <3>5. SoFar(p)'
      <4>1. /\ config'[p].enabled = (file.enabled # FALSE)
            /\ config'[p].exclude = OrElse(file.model_exclude_globs, DefaultGlobs)
            /\ config'[p].upstream_base_url = file.upstream_base_url
            /\ \A m \in Model : config'[p].model_overrides[m] = Absent
        <5>1. /\ config'[p].enabled = OrElse(file.enabled, TRUE)
              /\ config'[p].exclude = Patterns(file)
              /\ config'[p].upstream_base_url = file.upstream_base_url
              /\ config'[p].model_overrides = [m \in Model |-> Absent]
          BY <3>1 DEF ResolvedBase
        <5>2. \A m \in Model : config'[p].model_overrides[m] = Absent
          BY <5>1
        <5>3. config'[p].enabled = (file.enabled # FALSE)
          BY <3>3, <5>1, Zenon
        <5>4. QED
          BY <5>1, <5>2, <5>3 DEF Patterns
      <4>2. \A m \in todo'[p] : /\ config'[p].model_overrides[m] = Absent
                               /\ file.model_overrides[m] # Absent
        BY <3>2, <4>1
      <4>3. QED
        BY <2>1, <3>1, <3>4, <3>9, <4>1, <4>2 DEF SoFar
    <3>6. \A r \in Process \ {p} : /\ pc'[r] = pc[r] /\ config'[r] = config[r]
                                   /\ todo'[r] = todo[r] /\ raw'[r] = raw[r]
      BY <2>4 DEF IInv, TypeOK
    <3>7. QED
      BY <2>4, <2>5, <3>5, <3>6, ResolvingFrame DEF IInv, Resolving, Bound
  <2>9. QED
    BY <2>6, <2>7, <2>8 DEF IInv
<1>3. QED
  BY <1>1, <1>2

\* resolve takes an override as it stands, with the instructions file's
\* contents for its name.
LEMMA ResolveStep ==
  ASSUME IInv, NEW p \in Process, NEW m \in Model, ResolveOverride(p, m)
  PROVE  IInv'
<1> DEFINE ovr == SettingsOf(raw[p]).model_overrides[m]
           text == IF ovr.base_instructions_file # Absent
                     THEN texts[ovr.base_instructions_file] ELSE Absent
           done == IF text = Absent THEN ovr ELSE WithText(ovr, text)
<1>1. pc[p] = "overrides" /\ m \in todo[p]
  BY DEF ResolveOverride
<1>2. CASE BothInstructions(ovr) \/ text = Unreadable
  <2>1. Die(p) \/ (~BothInstructions(ovr) /\ text # Unreadable)
    BY DEF ResolveOverride
  <2>2. Die(p) /\ UNCHANGED <<args, info, files>>
    BY <1>2, <2>1 DEF ResolveOverride
  <2>3. QED
    BY <2>2, DieStep
<1>3. CASE ~BothInstructions(ovr) /\ text # Unreadable
  <2>1. SoFar(p) /\ config[p] \in ResolvedConfig
    BY <1>1 DEF IInv, TypeOK, Resolving
  <2>2. ovr = File(p).model_overrides[m] /\ File(p) \in Settings
    BY FileType DEF IInv
  <2>3. ovr \in ModelOverride
    BY <1>1, <2>1, <2>2 DEF SoFar, Settings, Optional
  <2>4. text \in Text \cup {Absent} /\ (ovr.base_instructions_file # Absent => text \in Text)
    BY <1>3, <2>3 DEF IInv, TypeOK, ModelOverride, Optional
  <2> HIDE DEF ovr, text
  <2>5. done \in ModelOverride
    BY <2>3, <2>4 DEF ModelOverride, WithText, Optional
  <2> HIDE DEF done
  <2>6. /\ config' = [config EXCEPT ![p].model_overrides[m] = done]
        /\ shown' = [shown EXCEPT ![p][m] = text]
        /\ todo' = [todo EXCEPT ![p] = @ \ {m}]
        /\ UNCHANGED <<args, pc, base, raw, port, owner, info, files>>
    BY <1>3 DEF ResolveOverride, done, ovr, text
  <2>7. /\ config'[p] = [config[p] EXCEPT !.model_overrides[m] = done]
        /\ shown'[p] = [shown[p] EXCEPT ![m] = text] /\ todo'[p] = todo[p] \ {m}
        /\ \A r \in Process \ {p} : /\ config'[r] = config[r] /\ shown'[r] = shown[r]
                                    /\ todo'[r] = todo[r]
    BY <2>6 DEF IInv, TypeOK
  <2>8. TypeOK'
    <3>1. config'[p] \in ResolvedConfig
      BY <2>1, <2>5, <2>7 DEF ResolvedConfig, Optional
    <3>2. shown' \in [Process -> [Model -> Optional(Text)]]
      BY <2>4, <2>6 DEF IInv, TypeOK, Optional
    <3>3. todo' \in [Process -> SUBSET Model]
      BY <2>6 DEF IInv, TypeOK
    <3>4. \A r \in Process : config'[r] \in ResolvedConfig
      BY <2>7, <3>1 DEF IInv, TypeOK
    <3>5. DOMAIN config' = Process
      BY <2>6 DEF IInv, TypeOK
    <3>6. QED
      BY <2>6, <3>2, <3>3, <3>4, <3>5 DEF IInv, TypeOK, files
  <2>9. PortsHeld' /\ WritersDone' /\ InfoLocked'
    BY <2>6 DEF IInv, PortsHeld, WritersDone, InfoLocked, OnePort, InfoLine, Line
  <2>10. Resolving'
    <3>1. File(p)' = File(p)
      BY <2>6 DEF File
    <3>2. /\ config'[p].model_overrides[m] = done /\ shown'[p][m] = text
          /\ \A n \in Model \ {m} :
               /\ config'[p].model_overrides[n] = config[p].model_overrides[n]
               /\ shown'[p][n] = shown[p][n]
      BY <2>1, <2>7 DEF ResolvedConfig, IInv, TypeOK
    <3>3. \A n \in Model \ {m} : Resolved(p, n) => Resolved(p, n)'
      BY <3>1, <3>2 DEF Resolved
    <3>4. Resolved(p, m)'
      <4>1. CASE ovr.base_instructions_file = Absent
        <5>1. text = Absent /\ done = ovr
          BY <4>1 DEF text, done
        <5>2. QED
          BY <1>3, <2>2, <2>3, <3>1, <3>2, <4>1, <5>1 DEF Resolved, ovr
      <4>2. CASE ovr.base_instructions_file # Absent
        <5>1. text \in Text /\ text # Absent
          BY <2>4, <4>2, ConfigurationAssumption
        <5>2. done = WithText(ovr, text)
          BY <5>1 DEF done
        <5>3. /\ done.base_instructions = text /\ done.base_instructions_file = Absent
              /\ done.enabled = ovr.enabled /\ done.context_window = ovr.context_window
              /\ done.upstream_model_id = ovr.upstream_model_id /\ done.detail = ovr.detail
          BY <2>3, <5>2 DEF WithText, ModelOverride
        <5>4. done # Absent /\ ovr # Absent
          BY <2>3, <2>5, StartupAssumption
        <5>5. QED
          BY <1>3, <2>2, <3>1, <3>2, <4>2, <5>1, <5>3, <5>4 DEF Resolved
      <4>3. QED
        BY <4>1, <4>2
    <3>5. /\ config'[p].enabled = config[p].enabled /\ config'[p].exclude = config[p].exclude
          /\ config'[p].upstream_base_url = config[p].upstream_base_url
          /\ config'[p].log_level = config[p].log_level
      BY <2>1, <2>7 DEF ResolvedConfig
    <3>6. SoFar(p)'
      <4>1. todo'[p] = todo[p] \ {m} /\ todo[p] \in SUBSET Model
        BY <2>7 DEF IInv, TypeOK
      <4>2. \A n \in Model \ todo'[p] : Resolved(p, n)'
        BY <2>1, <3>3, <3>4, <4>1 DEF SoFar
      <4>3. \A n \in todo'[p] : /\ config'[p].model_overrides[n] = Absent
                               /\ File(p).model_overrides[n] # Absent
        BY <2>1, <3>2, <4>1 DEF SoFar
      <4>4. QED
        BY <2>1, <3>1, <3>5, <4>2, <4>3 DEF SoFar
    <3>7. QED
      BY <1>1, <2>6, <2>7, <3>6, ResolvingFrame DEF IInv, Resolving, Bound
  <2>11. QED
    BY <2>8, <2>9, <2>10 DEF IInv
<1>4. QED
  BY <1>2, <1>3

\* The upstream base is the flag's, the file's or the default, if it has a host.
LEMMA NewProxyStep ==
  ASSUME IInv, NEW p \in Process, NewProxy(p)
  PROVE  IInv'
<1> DEFINE url == UpstreamBase(args[p].upstream_base, config[p])
<1>1. CASE Host[url] = Absent
  BY <1>1, DieStep DEF NewProxy
<1>2. CASE Host[url] # Absent
  <2>1. /\ pc[p] = "overrides" /\ todo[p] = {}
        /\ base' = [base EXCEPT ![p] = url] /\ pc' = [pc EXCEPT ![p] = "bind"]
        /\ UNCHANGED <<args, config, todo, raw, shown, port, owner, info, files>>
    BY <1>2 DEF NewProxy, Goto
  <2>2. url \in Url
    <3>1. /\ args[p].upstream_base \in Optional(Url)
          /\ config[p].upstream_base_url \in Optional(Url)
      BY DEF IInv, TypeOK, Args, ResolvedConfig
    <3>2. QED
      BY <3>1, ConfigurationAssumption DEF UpstreamBase, OrElse, Optional
  <2>3. url' = url
    BY <2>1 DEF UpstreamBase
  <2> HIDE DEF url
  <2>4. /\ pc' \in [Process -> Where] /\ pc'[p] = "bind" /\ base'[p] = url
        /\ \A r \in Process \ {p} : pc'[r] = pc[r] /\ base'[r] = base[r]
    BY <2>1 DEF IInv, TypeOK, Where
  <2>5. TypeOK'
    BY <2>1, <2>2, <2>4 DEF IInv, TypeOK, files, Optional
  <2>6. PortsHeld' /\ WritersDone' /\ InfoLocked'
    BY <2>1, <2>4, UnboundStep DEF Bound
  <2>7. Resolving'
    <3>1. WithBase(p)'
      BY <1>2, <2>1, <2>3, <2>4 DEF WithBase, url
    <3>2. SoFar(p)'
      <4>1. File(p)' = File(p) /\ \A m \in Model : Resolved(p, m) => Resolved(p, m)'
        BY <2>1 DEF File, Resolved
      <4>2. SoFar(p)
        BY <2>1 DEF IInv, Resolving
      <4>3. QED
        BY <2>1, <4>1, <4>2 DEF SoFar
    <3>3. QED
      BY <2>1, <2>4, <3>1, <3>2, ResolvingFrame DEF IInv, Resolving
  <2>8. QED
    BY <2>5, <2>6, <2>7 DEF IInv
<1>3. QED
  BY <1>1, <1>2

\* A process is bound to a port nobody held.
LEMMA BindStep ==
  ASSUME IInv, NEW p \in Process, Bind(p)
  PROVE  IInv'
<1>1. CASE Die(p)
  BY <1>1, DieStep DEF Bind
<1>2. ASSUME NEW q \in Wanted(p), owner[q] = Absent,
             port' = [port EXCEPT ![p] = q], owner' = [owner EXCEPT ![q] = p],
             Goto(p, IF args[p].server_info THEN "create" ELSE "server"),
             UNCHANGED local
      PROVE  IInv'
  <2>1. pc[p] = "bind" /\ UNCHANGED <<args, info, files>>
    BY DEF Bind
  <2>2. q \in Port /\ (args[p].port # Absent => q = args[p].port)
    BY DEF IInv, TypeOK, Args, Optional, Wanted
  <2>3. /\ pc' \in [Process -> Where]
        /\ pc'[p] \in {"create", "server"} /\ (pc'[p] = "create" => args[p].server_info)
        /\ (pc'[p] = "server" => ~args[p].server_info)
        /\ port'[p] = q /\ owner'[q] = p
        /\ \A r \in Process \ {p} : pc'[r] = pc[r] /\ port'[r] = port[r]
        /\ \A x \in Port \ {q} : owner'[x] = owner[x]
    BY <1>2, <2>2 DEF IInv, TypeOK, Goto, Where, Bound, Args
  <2>4. TypeOK'
    BY <1>2, <2>1, <2>2, <2>3 DEF IInv, TypeOK, local, files, Optional
  <2>5. PortsHeld'
    <3>1. ASSUME NEW r \in Process \ {p}, pc'[r] \in Bound
          PROVE  port'[r] \in Port /\ owner'[port'[r]] = r
      <4>1. pc[r] \in Bound /\ port[r] \in Port /\ owner[port[r]] = r
        BY <2>3, <3>1 DEF IInv, PortsHeld
      <4>2. port[r] # q
        BY <1>2, <4>1, StartupAssumption
      <4>3. QED
        BY <2>3, <4>1, <4>2
    <3>2. QED
      BY <2>1, <2>2, <2>3, <3>1 DEF IInv, PortsHeld
  <2>6. WritersDone'
    <3>1. \A r \in Process : pc[r] \in {"server", "serving", "dead"} =>
            pc'[r] \in {"server", "serving", "dead"}
      BY <2>1, <2>3
    <3>2. \A i \in 1..Len(info) : info # Absent => info[i] \in Process \X Nat
      BY ElementOfSeq DEF IInv, TypeOK
    <3>3. QED
      BY <2>1, <2>3, <3>1, <3>2 DEF IInv, WritersDone
  <2>7. InfoLocked'
    BY <2>1, <2>3 DEF IInv, InfoLocked, OnePort, InfoLine, Line
  <2>8. Resolving'
    BY <1>2, <2>1, <2>3, ResolvingFrame DEF IInv, Resolving, Bound, local
  <2>9. QED
    BY <2>4, <2>5, <2>6, <2>7, <2>8 DEF IInv
<1>3. QED
  BY <1>1, <1>2 DEF Bind

\* The info file is made empty while nobody else is bound to write it.
LEMMA CreateStep ==
  ASSUME IInv, NEW p \in Process, CreateInfo(p)
  PROVE  IInv'
<1>1. CASE Die(p) /\ UNCHANGED info
  BY <1>1, DieStep DEF CreateInfo
<1>2. CASE info' = <<>> /\ Goto(p, "write") /\ UNCHANGED <<local, port, owner>>
  <2>1. pc[p] = "create" /\ UNCHANGED <<args, files>>
    BY DEF CreateInfo
  <2>2. /\ pc' \in [Process -> Where] /\ pc'[p] = "write"
        /\ \A r \in Process \ {p} : pc'[r] = pc[r]
    BY <1>2 DEF IInv, TypeOK, Goto, Where, Bound
  <2>3. <<>> \in Seq(Process \X Nat) /\ Len(<<>>) = 0
    BY EmptySeq
  <2>4. TypeOK'
    BY <1>2, <2>1, <2>2, <2>3 DEF IInv, TypeOK, local, files
  <2>5. PortsHeld'
    BY <1>2, <2>1, <2>2 DEF IInv, PortsHeld, Bound
  <2>6. WritersDone'
    BY <1>2, <2>3 DEF WritersDone
  <2>7. InfoLocked'
    <3>1. ASSUME OnePort, NEW r \in Process \ {p}, args[r].server_info
          PROVE  pc'[r] \notin {"write", "server", "serving"}
      BY <2>1, <2>2, <3>1, OneWriter DEF IInv, PortsHeld, Bound
    <3>2. QED
      BY <1>2, <2>1, <2>2, <3>1 DEF InfoLocked, OnePort
  <2>8. Resolving'
    BY <1>2, <2>1, <2>2, ResolvingFrame DEF IInv, Resolving, Bound, local
  <2>9. QED
    BY <2>4, <2>5, <2>6, <2>7, <2>8 DEF IInv
<1>3. QED
  BY <1>1, <1>2 DEF CreateInfo

\* The line goes into the file that was made for it.
LEMMA WriteStep ==
  ASSUME IInv, NEW p \in Process, WriteInfo(p)
  PROVE  IInv'
<1>1. CASE Die(p) /\ \E n \in 0..(InfoLength[p] - 1) : info' = Overwritten(Line(p, n))
  BY <1>1, DieStep DEF WriteInfo
<1>2. CASE /\ info' = Overwritten(InfoLine(p))
           /\ Goto(p, "server") /\ UNCHANGED <<local, port, owner>>
  <2>1. pc[p] = "write" /\ UNCHANGED <<args, files>>
    BY DEF WriteInfo
  <2>2. /\ pc' \in [Process -> Where] /\ pc'[p] = "server"
        /\ \A r \in Process \ {p} : pc'[r] = pc[r]
    BY <1>2 DEF IInv, TypeOK, Goto, Where, Bound
  <2>3. info \in Seq(Process \X Nat)
    BY <2>1 DEF IInv, WritersDone
  <2>4. InfoLength[p] \in Nat
    BY StartupAssumption
  <2>5. /\ info' \in Seq(Process \X Nat)
        /\ \A i \in 1..Len(info') :
             info'[i] = <<p, i>> \/ (i \in 1..Len(info) /\ info'[i] = info[i])
        /\ info = <<>> => info' = InfoLine(p)
    BY <1>2, <2>3, <2>4, OverwrittenType DEF InfoLine
  <2>6. TypeOK'
    BY <1>2, <2>1, <2>2, <2>5 DEF IInv, TypeOK, local, files
  <2>7. PortsHeld'
    BY <1>2, <2>1, <2>2 DEF IInv, PortsHeld, Bound
  <2>8. WritersDone'
    <3>1. ASSUME NEW i \in 1..Len(info')
          PROVE  pc'[info'[i][1]] \in {"server", "serving", "dead"}
      <4>1. CASE info'[i] = <<p, i>>
        BY <2>2, <4>1
      <4>2. CASE i \in 1..Len(info) /\ info'[i] = info[i]
        <5>1. info[i] \in Process \X Nat
          BY <2>3, <4>2, ElementOfSeq
        <5>2. pc[info[i][1]] \in {"server", "serving", "dead"}
          BY <2>3, <4>2, StartupAssumption DEF IInv, WritersDone
        <5>3. QED
          BY <2>1, <2>2, <4>2, <5>1, <5>2
      <4>3. QED
        BY <2>5, <4>1, <4>2
    <3>2. QED
      BY <2>5, <3>1 DEF WritersDone
  <2>9. InfoLocked'
    <3>1. ASSUME OnePort, NEW r \in Process \ {p}, args[r].server_info
          PROVE  pc'[r] \notin {"write", "server", "serving"}
      BY <2>1, <2>2, <3>1, OneWriter DEF IInv, PortsHeld, Bound
    <3>2. ASSUME OnePort
          PROVE  info' = InfoLine(p)
      BY <2>1, <2>5, <3>2 DEF IInv, InfoLocked, PortsHeld
    <3>3. InfoLine(p)' = InfoLine(p)
      BY DEF InfoLine, Line
    <3>4. QED
      BY <2>1, <2>2, <3>1, <3>2, <3>3 DEF InfoLocked, OnePort
  <2>10. Resolving'
    BY <1>2, <2>1, <2>2, ResolvingFrame DEF IInv, Resolving, Bound, local
  <2>11. QED
    BY <2>6, <2>7, <2>8, <2>9, <2>10 DEF IInv
<1>3. QED
  BY <1>1, <1>2 DEF WriteInfo

\* The operator's files are nobody's configuration until they are read.
LEMMA EditStep ==
  ASSUME IInv, Edit
  PROVE  IInv'
<1>1. UNCHANGED <<args, pc, local, port, owner, info>>
  BY DEF Edit
<1>2. TypeOK'
  <2>1. disk' \in [Dir -> {Absent, Unreadable, Malformed} \cup Settings]
    BY StartupAssumption DEF Edit, IInv, TypeOK
  <2>2. texts' \in [Path -> Text \cup {Unreadable}]
    BY StartupAssumption DEF Edit, IInv, TypeOK
  <2>3. edits' \in 0..MaxEdits
    BY StartupAssumption DEF Edit, IInv, TypeOK
  <2>4. QED
    BY <1>1, <2>1, <2>2, <2>3 DEF IInv, TypeOK, local
<1>3. PortsHeld' /\ WritersDone' /\ InfoLocked'
  BY <1>1 DEF IInv, PortsHeld, WritersDone, InfoLocked, OnePort, InfoLine, Line
<1>4. Resolving'
  BY <1>1, ResolvingFrame DEF IInv, Resolving, local
<1>5. QED
  BY <1>2, <1>3, <1>4 DEF IInv

LEMMA InitInv == Init => IInv
<1> SUFFICES ASSUME Init PROVE IInv
  OBVIOUS
<1>1. /\ args \in [Process -> Args]
      /\ disk \in [Dir -> {Absent, Unreadable, Malformed} \cup Settings]
      /\ texts \in [Path -> Text \cup {Unreadable}] /\ edits \in 0..MaxEdits
  BY StartupAssumption DEF Init
<1>2. ResolvedBase(NoSettings) \in ResolvedConfig
  BY NothingSet, BaseType
<1>3. Nothing \in [Model -> Optional(Text)]
  BY DEF Nothing, Optional
<1>4. TypeOK
  BY <1>1, <1>2, <1>3 DEF Init, TypeOK, Optional, Where
<1>5. PortsHeld /\ WritersDone /\ InfoLocked /\ Resolving
  BY DEF Init, PortsHeld, WritersDone, InfoLocked, Resolving, Bound
<1>6. QED
  BY <1>4, <1>5 DEF IInv

LEMMA StepInv == IInv /\ [Next]_vars => IInv'
<1> SUFFICES ASSUME IInv, [Next]_vars PROVE IInv'
  OBVIOUS
<1>1. ASSUME NEW p \in Process, Start(p) PROVE IInv'
  BY <1>1, MoveStep DEF Start
<1>2. ASSUME NEW p \in Process, ReadKey(p) PROVE IInv'
  BY <1>2, MoveStep, DieStep DEF ReadKey
<1>3. ASSUME NEW p \in Process, ReadConfig(p) PROVE IInv'
  BY <1>3, ReadConfigStep
<1>4. ASSUME NEW p \in Process, NEW m \in Model, ResolveOverride(p, m) PROVE IInv'
  BY <1>4, ResolveStep
<1>5. ASSUME NEW p \in Process, NewProxy(p) PROVE IInv'
  BY <1>5, NewProxyStep
<1>6. ASSUME NEW p \in Process, Bind(p) PROVE IInv'
  BY <1>6, BindStep
<1>7. ASSUME NEW p \in Process, CreateInfo(p) PROVE IInv'
  BY <1>7, CreateStep
<1>8. ASSUME NEW p \in Process, WriteInfo(p) PROVE IInv'
  BY <1>8, WriteStep
<1>9. ASSUME NEW p \in Process, StartServer(p) PROVE IInv'
  BY <1>9, MoveStep, DieStep DEF StartServer
<1>10. ASSUME NEW p \in Process, Killed(p) PROVE IInv'
  BY <1>10, DieStep DEF Killed
<1>11. CASE Edit
  BY <1>11, EditStep
<1>12. CASE UNCHANGED vars
  <2>1. UNCHANGED <<args, pc, local, port, owner, info, files>>
    BY <1>12 DEF vars, local, files
  <2>2. TypeOK' /\ PortsHeld' /\ WritersDone'
    BY <2>1 DEF IInv, TypeOK, PortsHeld, WritersDone, local, files
  <2>3. InfoLocked'
    BY <2>1 DEF IInv, InfoLocked, OnePort, InfoLine, Line
  <2>4. Resolving'
    BY <2>1, ResolvingFrame DEF IInv, Resolving, local
  <2>5. QED
    BY <2>2, <2>3, <2>4 DEF IInv
<1>13. ASSUME NEW p \in Process, StdinSettles(p) PROVE IInv'
  BY <1>13, MoveStep DEF StdinSettles
<1>14. QED
  BY <1>1, <1>2, <1>3, <1>4, <1>5, <1>6, <1>7, <1>8, <1>9, <1>10, <1>11, <1>12,
     <1>13 DEF Next, Step

-----------------------------------------------------------------------------
\* The inductive invariant: a listener holds its port, so with one port for
\* the info file its holder has the file for itself; and a configuration says
\* of every model that is done what the file says (run_main, resolve).
THEOREM Inductive == Spec => []IInv
BY InitInv, StepInv, PTL DEF Spec

\* Every variable keeps its type, whatever files the processes find and
\* wherever they are killed.
THEOREM TypeCorrect == Spec => []TypeOK
<1>1. IInv => TypeOK
  BY DEF IInv
<1>2. QED
  BY <1>1, Inductive, PTL

\* With one port for all who write it, the info file of a proxy that serves is
\* whole and its own: binding is the lock (run_main, write_server_info).
THEOREM InfoIsOwn == Spec => []InfoNamesServer
<1>1. IInv => InfoNamesServer
  BY DEF IInv, InfoLocked, InfoNamesServer
<1>2. QED
  BY <1>1, Inductive, PTL

\* A process the info file names, if it has not gone, listens on the port the
\* file gives (bind_listener, run_main).
THEOREM InfoReaches == Spec => []InfoReachesWriter
<1>1. ASSUME IInv
      PROVE  InfoReachesWriter
  <2>1. SUFFICES ASSUME NEW p \in Process, info = InfoLine(p), pc[p] # "dead"
                 PROVE  port[p] \in Port /\ owner[port[p]] = p
    BY DEF InfoReachesWriter
  <2>2. InfoLength[p] \in Nat \ {0}
    BY StartupAssumption
  <2>3. info \in Seq(Process \X Nat) /\ Len(info) >= 1 /\ info[1] = <<p, 1>>
    <3> DEFINE l == InfoLength[p]
    <3>1. info = [i \in 1..l |-> <<p, i>>] /\ l \in Nat /\ l >= 1
      BY <2>1, <2>2 DEF InfoLine, Line
    <3> HIDE DEF l
    <3>2. info \in Seq(Process \X Nat) /\ Len(info) = l
      BY <3>1
    <3>3. info[1] = <<p, 1>>
      BY <3>1
    <3>4. QED
      BY <3>1, <3>2, <3>3
  <2>4. pc[p] \in {"server", "serving"}
    BY <1>1, <2>1, <2>3, StartupAssumption DEF IInv, WritersDone
  <2>5. QED
    BY <1>1, <2>4 DEF IInv, PortsHeld, Bound
<1>2. QED
  BY <1>1, Inductive, PTL

\* What a proxy binds with is the file it read and the default for each key
\* that is not in it, and there is no proxy with a file that cannot be used
\* (load_config, resolve, resolve_upstream_base).
THEOREM ConfigIsFile == Spec => []ConfigInForce
<1>1. ASSUME IInv
      PROVE  ConfigInForce
  <2>1. SUFFICES ASSUME NEW p \in Process, pc[p] \in Bound \cup {"bind"}
                 PROVE  LET file == File(p)
                            flag == args[p].upstream_base
                        IN /\ file \in Settings /\ GlobsCompile(file)
                           /\ config[p].enabled = (file.enabled # FALSE)
                           /\ config[p].exclude = OrElse(file.model_exclude_globs, DefaultGlobs)
                           /\ config[p].log_level = OrElse(file.log_level, "normal")
                           /\ base[p] = Trimmed[CASE flag # Absent -> flag
                                [] flag = Absent /\ file.upstream_base_url # Absent ->
                                     file.upstream_base_url
                                [] OTHER -> DefaultUrl]
                           /\ Host[base[p]] # Absent
                           /\ \A m \in Model : Resolved(p, m)
    BY DEF ConfigInForce
  <2>2. SoFar(p) /\ WithBase(p)
    BY <1>1, <2>1 DEF IInv, Resolving
  <2>3. File(p) \in Settings
    BY <1>1, FileType DEF IInv
  <2>4. \A m \in Model : Resolved(p, m)
    BY <2>2 DEF SoFar, WithBase
  <2>5. config[p].upstream_base_url = File(p).upstream_base_url
    BY <2>2 DEF SoFar
  <2>6. base[p] = Trimmed[OrElse(args[p].upstream_base,
                                 OrElse(File(p).upstream_base_url, DefaultUrl))]
    BY <2>2, <2>5 DEF WithBase, UpstreamBase
  <2>7. OrElse(args[p].upstream_base, OrElse(File(p).upstream_base_url, DefaultUrl)) =
          (CASE args[p].upstream_base # Absent -> args[p].upstream_base
             [] args[p].upstream_base = Absent /\ File(p).upstream_base_url # Absent ->
                  File(p).upstream_base_url
             [] OTHER -> DefaultUrl)
    BY DEF OrElse
  <2>8. QED
    BY <2>2, <2>3, <2>4, <2>6, <2>7 DEF SoFar, WithBase
<1>2. QED
  BY <1>1, Inductive, PTL

-----------------------------------------------------------------------------
(* What a proxy that serves makes of headers.                              *)

Named(n) == {h \in Header : Lower[h.field] = n /\ h.value # BadValue}

LEMMA NoValues ==
  ASSUME NEW l, NEW n, Among(l, Named(n)) = <<>>
  PROVE  ValuesOf(n, l) = <<>>
<1> DEFINE at == Among(l, Named(n))
           q == [i \in DOMAIN at |-> at[i].value]
<1>1. at = <<>> /\ DOMAIN at = 1..0
  BY EmptySeq
<1> HIDE DEF at
<1>2. q = <<>>
  <2>1. q \in Seq({}) /\ Len(q) = 0
    BY <1>1
  <2> HIDE DEF q
  <2>2. QED
    BY <2>1, EmptySeq
<1>3. ValuesOf(n, l) = q
  BY DEF ValuesOf, Named, at
<1>4. QED
  BY <1>2, <1>3

LEMMA ValuesEmpty ==
  ASSUME NEW n
  PROVE  ValuesOf(n, <<>>) = <<>>
<1>1. Among(<<>>, Named(n)) = <<>>
  BY AmongEmpty
<1>2. QED
  BY <1>1, NoValues

\* A header adds its value to those of its name.
LEMMA ValuesAppend ==
  ASSUME NEW l \in Seq(Header), NEW h \in Header, NEW n
  PROVE  ValuesOf(n, Append(l, h)) =
           IF Lower[h.field] = n /\ h.value # BadValue THEN Append(ValuesOf(n, l), h.value)
                                                       ELSE ValuesOf(n, l)
<1> DEFINE at == Among(l, Named(n))
           to == Among(Append(l, h), Named(n))
<1>1. /\ ValuesOf(n, l) = [i \in DOMAIN at |-> at[i].value]
      /\ ValuesOf(n, Append(l, h)) = [i \in DOMAIN to |-> to[i].value]
  BY DEF ValuesOf, Named
<1>2. h \in Named(n) <=> Lower[h.field] = n /\ h.value # BadValue
  BY DEF Named
<1>3. at \in Seq(Header)
  BY AmongType
<1>4. to = IF h \in Named(n) THEN Append(at, h) ELSE at
  BY AmongAppend
<1> HIDE DEF at, to
<1>5. ASSUME h \in Named(n)
      PROVE  ValuesOf(n, Append(l, h)) = Append(ValuesOf(n, l), h.value)
  <2> DEFINE V == Value \cup {BadValue}
             p == [i \in DOMAIN at |-> at[i].value]
             q == [i \in DOMAIN to |-> to[i].value]
             N == Len(at)
  <2>1. /\ N \in Nat /\ to \in Seq(Header) /\ Len(to) = N + 1
        /\ \A i \in 1..N : to[i] = at[i]
        /\ to[N + 1] = h
    BY <1>3, <1>4, <1>5
  <2>2. /\ \A i \in 1..N : at[i].value \in V
        /\ \A i \in 1..(N + 1) : to[i].value \in V
        /\ h.value \in V
    <3>1. \A i \in 1..N : at[i] \in Header
      BY <1>3
    <3>2. \A i \in 1..(N + 1) : to[i] \in Header
      BY <2>1
    <3>3. QED
      BY <3>1, <3>2 DEF Header
  <2>3. DOMAIN at = 1..N /\ DOMAIN to = 1..(N + 1)
    BY <1>3, <2>1
  <2> HIDE DEF V, N
  <2>4. p \in Seq(V) /\ Len(p) = N /\ \A i \in 1..N : p[i] = at[i].value
    BY <2>1, <2>2, <2>3
  <2>5. q \in Seq(V) /\ Len(q) = N + 1 /\ \A i \in 1..(N + 1) : q[i] = to[i].value
    BY <2>1, <2>2, <2>3
  <2> HIDE DEF p, q
  <2>6. /\ Append(p, h.value) \in Seq(V) /\ Len(Append(p, h.value)) = N + 1
        /\ \A i \in 1..(N + 1) : Append(p, h.value)[i] = q[i]
    BY <2>1, <2>2, <2>4, <2>5
  <2>7. Append(p, h.value) = q
    BY <2>5, <2>6, SeqEqual
  <2>8. QED
    BY <1>1, <2>7 DEF p, q
<1>6. ASSUME h \notin Named(n)
      PROVE  ValuesOf(n, Append(l, h)) = ValuesOf(n, l)
  BY <1>1, <1>4, <1>6
<1>7. QED
  BY <1>2, <1>5, <1>6

\* What build_upstream_headers's loop keeps of the caller's headers.
KeptOf(l) ==
  [n \in Name |-> IF n \in Replaced \cup Recomputed THEN <<>> ELSE ValuesOf(n, l)]

LEMMA KeptAppend ==
  ASSUME NEW l \in Seq(Header), NEW h \in Header
  PROVE  KeptOf(Append(l, h)) =
           IF Forwarded(h) THEN HeaderAppend(KeptOf(l), Lower[h.field], h.value)
                           ELSE KeptOf(l)
<1> DEFINE f == Lower[h.field]
           G(n) == n \in Replaced \cup Recomputed
<1>1. \A n : ValuesOf(n, Append(l, h)) =
        IF f = n /\ h.value # BadValue THEN Append(ValuesOf(n, l), h.value) ELSE ValuesOf(n, l)
  BY ValuesAppend
<1>2. f \in Name
  BY HeadersAssumption DEF Header
<1>3. Forwarded(h) <=> ~G(f) /\ h.value # BadValue
  BY DEF Forwarded
<1> HIDE DEF f, G
<1>4. CASE Forwarded(h)
  <2>1. HeaderAppend(KeptOf(l), f, h.value) =
          [n \in Name |-> IF n = f THEN Append(KeptOf(l)[f], h.value) ELSE KeptOf(l)[n]]
    BY DEF HeaderAppend, KeptOf
  <2>2. \A n \in Name : KeptOf(l)[n] = IF G(n) THEN <<>> ELSE ValuesOf(n, l)
    BY DEF KeptOf, G
  <2>3. ASSUME NEW n \in Name
        PROVE  (IF G(n) THEN <<>> ELSE ValuesOf(n, Append(l, h))) =
                 IF n = f THEN Append(KeptOf(l)[f], h.value) ELSE KeptOf(l)[n]
    BY <1>1, <1>2, <1>3, <1>4, <2>2
  <2>4. KeptOf(Append(l, h)) =
          [n \in Name |-> IF G(n) THEN <<>> ELSE ValuesOf(n, Append(l, h))]
    BY DEF KeptOf, G
  <2>5. KeptOf(Append(l, h)) = HeaderAppend(KeptOf(l), f, h.value)
    BY <2>1, <2>3, <2>4
  <2>6. QED
    BY <1>4, <2>5 DEF f
<1>5. CASE ~Forwarded(h)
  <2>1. \A n \in Name : (IF G(n) THEN <<>> ELSE ValuesOf(n, Append(l, h))) =
                          IF G(n) THEN <<>> ELSE ValuesOf(n, l)
    BY <1>1, <1>3, <1>5
  <2>2. QED
    BY <1>5, <2>1 DEF KeptOf, G
<1>6. QED
  BY <1>4, <1>5

\* The loop keeps every header that is neither replaced nor recomputed.
LEMMA LoopKeeps ==
  ASSUME NEW l \in Seq(Header)
  PROVE  CallerHeaders(l) = KeptOf(l)
<1> DEFINE N == Len(l)
           IsIt(f) == f = [k \in 0..N |->
                             IF k = 0 THEN [n \in Name |-> <<>>]
                             ELSE IF Forwarded(l[k])
                                    THEN HeaderAppend(f[k - 1], Lower[l[k].field], l[k].value)
                                    ELSE f[k - 1]]
           f == [k \in 0..N |-> KeptOf(SubSeq(l, 1, k))]
           h == CHOOSE g : IsIt(g)
<1>1. N \in Nat
  OBVIOUS
<1>2. CallerHeaders(l) = h[N]
  BY DEF CallerHeaders
<1>3. f[0] = [n \in Name |-> <<>>]
  <2>1. SubSeq(l, 1, 0) = <<>>
    BY SubSeqEmpty
  <2>2. KeptOf(<<>>) = [n \in Name |-> <<>>]
    BY ValuesEmpty DEF KeptOf
  <2>3. f[0] = KeptOf(SubSeq(l, 1, 0))
    BY <1>1
  <2>4. QED
    BY <2>1, <2>2, <2>3, Zenon
<1>4. ASSUME NEW k \in 1..N
      PROVE  f[k] = IF Forwarded(l[k])
                      THEN HeaderAppend(f[k - 1], Lower[l[k].field], l[k].value) ELSE f[k - 1]
  <2>1. /\ SubSeq(l, 1, k - 1) \in Seq(Header) /\ l[k] \in Header
        /\ SubSeq(l, 1, k) = Append(SubSeq(l, 1, k - 1), l[k])
    BY Prefix
  <2>2. KeptOf(SubSeq(l, 1, k)) =
          IF Forwarded(l[k])
            THEN HeaderAppend(KeptOf(SubSeq(l, 1, k - 1)), Lower[l[k].field], l[k].value)
            ELSE KeptOf(SubSeq(l, 1, k - 1))
    BY <2>1, KeptAppend
  <2>3. f[k] = KeptOf(SubSeq(l, 1, k)) /\ f[k - 1] = KeptOf(SubSeq(l, 1, k - 1))
    <3>1. k \in 0..N /\ k - 1 \in 0..N
      BY <1>1
    <3>2. QED
      BY <3>1, Zenon
  <2> HIDE DEF f
  <2>4. QED
    BY <2>2, <2>3
<1>5. f = [k \in 0..N |-> f[k]]
  OBVIOUS
<1>6. f[N] = KeptOf(l)
  <2>1. SubSeq(l, 1, N) = l
    BY SubSeqFull
  <2>2. N \in 0..N
    BY <1>1
  <2>3. f[N] = KeptOf(SubSeq(l, 1, N))
    BY <2>2, Zenon
  <2>4. QED
    BY <2>1, <2>3, Zenon
<1> HIDE DEF f, N
<1>7. IsIt(f)
  <2>1. \A k \in 0..N : k = 0 \/ k \in 1..N
    BY <1>1
  <2>2. \A k \in 0..N : f[k] = IF k = 0 THEN [n \in Name |-> <<>>]
                               ELSE IF Forwarded(l[k])
                                      THEN HeaderAppend(f[k - 1], Lower[l[k].field], l[k].value)
                                      ELSE f[k - 1]
    BY <1>3, <1>4, <2>1
  <2>3. QED
    BY <1>5, <2>2
<1> HIDE DEF IsIt
<1>8. IsIt(h)
  BY <1>7
<1> HIDE DEF h
<1>9. /\ h[0] = [n \in Name |-> <<>>]
      /\ \A k \in 1..N : h[k] = IF Forwarded(l[k])
                                  THEN HeaderAppend(h[k - 1], Lower[l[k].field], l[k].value)
                                  ELSE h[k - 1]
  <2>1. 0 \in 0..N /\ \A k \in 1..N : k \in 0..N /\ k # 0
    BY <1>1
  <2>2. QED
    BY <1>8, <2>1 DEF IsIt
<1>10. h[N] = f[N]
  <2> DEFINE E == {k \in 0..N : h[k] = f[k]}
  <2>1. 0 \in E
    BY <1>1, <1>3, <1>9
  <2>2. \A k \in E : k + 1 \in 1..N => k + 1 \in E
    <3> SUFFICES ASSUME NEW k \in E, k + 1 \in 1..N PROVE k + 1 \in E
      OBVIOUS
    <3>1. k \in 0..N /\ h[k] = f[k] /\ (k + 1) - 1 = k /\ k + 1 \in 0..N
      BY <1>1
    <3>2. h[k + 1] = f[k + 1]
      BY <1>4, <1>9, <3>1
    <3>3. QED
      BY <3>1, <3>2
  <2> HIDE DEF E
  <2>3. \A k \in 0..N : k \in E
    BY <1>1, <2>1, <2>2, Induct
  <2>4. N \in 0..N
    BY <1>1
  <2>5. QED
    BY <2>3, <2>4 DEF E
<1>11. QED
  BY <1>2, <1>6, <1>10

LEMMA HeadersHold == HeadersPass
<1>1. SUFFICES ASSUME NEW p \in Serving, NEW l \in HeaderLists
               PROVE  LET up == UpstreamHeaders(Auth, Host[base[p]], l)
                          back == RelayedHeaders(l)
                      IN /\ up["authorization"] = <<Auth>>
                         /\ up["host"] = <<Host[base[p]]>>
                         /\ \A n \in Recomputed : up[n] = <<>>
                         /\ \A n \in Name \ (Replaced \cup Recomputed
                                                  \cup HopByHop \cup Credential) :
                              up[n] = ValuesOf(n, l)
                         /\ \A n \in Name :
                              ValuesOf(n, back) =
                                (IF n \in HopByHop THEN <<>> ELSE ValuesOf(n, l))
  BY DEF HeadersPass
<1>2. l \in Seq(Header) /\ Replaced \cup Recomputed \subseteq Name
  BY HeadersAssumption
<1> DEFINE host == Host[base[p]]
           up == UpstreamHeaders(Auth, host, l)
           k == CallerHeaders(l)
<1>3. /\ up["authorization"] = <<Auth>> /\ up["host"] = <<host>>
      /\ \A n \in Recomputed : up[n] = <<>>
      /\ \A n \in Name \ (Replaced \cup Recomputed) : up[n] = ValuesOf(n, l)
  <2> HIDE DEF host
  <2>1. k = KeptOf(l)
    BY <1>2, LoopKeeps
  <2>2. up = [[k EXCEPT !["authorization"] = <<Auth>>] EXCEPT !["host"] = <<host>>]
    BY DEF UpstreamHeaders, HeaderInsert
  <2> HIDE DEF k, up
  <2>3. /\ DOMAIN k = Name
        /\ \A n \in Name :
             k[n] = IF n \in Replaced \cup Recomputed THEN <<>> ELSE ValuesOf(n, l)
    BY <2>1 DEF KeptOf
  <2>4. \A n \in Name :
          up[n] = IF n = "host" THEN <<host>> ELSE IF n = "authorization" THEN <<Auth>> ELSE k[n]
    BY <1>2, <2>2, <2>3 DEF Replaced
  <2>5. \A n \in Recomputed : n \in Name /\ n # "host" /\ n # "authorization"
    BY <1>2 DEF Recomputed
  <2>6. \A n \in Recomputed : up[n] = <<>>
    BY <2>3, <2>4, <2>5
  <2>7. "authorization" \in Name /\ "host" \in Name
    BY <1>2 DEF Replaced
  <2>8. \A n \in Name \ (Replaced \cup Recomputed) : up[n] = ValuesOf(n, l)
    BY <2>3, <2>4 DEF Replaced
  <2>9. QED
    BY <2>4, <2>6, <2>7, <2>8
<1>4. ASSUME NEW n \in Name
      PROVE  ValuesOf(n, RelayedHeaders(l)) =
               (IF n \in HopByHop THEN <<>> ELSE ValuesOf(n, l))
  <2> DEFINE R == {h \in Header : Lower[h.field] \notin HopByHop /\ h.value # BadValue}
  <2>1. RelayedHeaders(l) = Among(l, R)
    BY DEF RelayedHeaders
  <2>2. CASE n \in HopByHop
    <3>1. R \cap Named(n) = {}
      BY <2>2 DEF Named
    <3> HIDE DEF R
    <3>2. Among(RelayedHeaders(l), Named(n)) = <<>>
      BY <1>2, <2>1, <3>1, AmongAmong, AmongNothing
    <3>3. QED
      BY <2>2, <3>2, NoValues
  <2>3. CASE n \notin HopByHop
    <3>1. R \cap Named(n) = Named(n)
      BY <2>3 DEF Named
    <3> HIDE DEF R
    <3>2. Among(RelayedHeaders(l), Named(n)) = Among(l, Named(n))
      BY <1>2, <2>1, <3>1, AmongAmong
    <3>3. QED
      BY <2>3, <3>2 DEF ValuesOf, Named
  <2>4. QED
    BY <2>2, <2>3
<1>5. QED
  BY <1>3, <1>4 DEF host
-----------------------------------------------------------------------------
(* What a proxy that serves says of models.                                *)

\* The configuration's two sets are those the gate goes by.
LEMMA SurvivorsAre ==
  ASSUME NEW p \in Process, NEW listing \in Listings
  PROVE  LET s == Survivors(listing, config[p])
         IN /\ s \in Seq(MistralModel)
            /\ {s[i].id : i \in 1..Len(s)} = Gate(p)!Offered(Capabilities(listing))
            /\ \A i \in 1..Len(s) : Gate(p)!ConfigAllows(s[i].id)
<1> DEFINE out == ExcludedBy(config[p]) \cup DisabledBy(config[p])
           K == {m \in MistralModel : m.chat /\ m.id \notin out}
           s == Survivors(listing, config[p])
<1>1. listing \in Seq(MistralModel)
  BY DiscoveryAssumption
<1>2. s = Among(listing, K)
  BY DEF Survivors
<1>3. s \in Seq(MistralModel)
  BY <1>1, <1>2, AmongType
<1>4. {s[i] : i \in 1..Len(s)} = {listing[i] : i \in 1..Len(listing)} \cap K
  <2> HIDE DEF s, K
  <2>1. Elements(s) = Elements(listing) \cap K
    BY <1>1, <1>2, AmongRange
  <2>2. QED
    BY <2>1 DEF Elements
<1>5. \A m : /\ (m \in Gate(p)!Offered(Capabilities(listing)) <=>
                   m \in Model /\ Capabilities(listing)[m] = "chat" /\ m \notin out)
             /\ (Gate(p)!ConfigAllows(m) <=> m \notin out)
  BY DEF Gate!Offered, Gate!ConfigAllows
<1>6. DOMAIN listing = 1..Len(listing) /\ \A i \in 1..Len(listing) : listing[i] \in MistralModel
  BY <1>1
<1>7. \A m \in Model : Capabilities(listing)[m] = "chat" <=>
                         \E i \in 1..Len(listing) : listing[i].id = m /\ listing[i].chat
  BY <1>6 DEF Capabilities
<1>8. \A e \in MistralModel : /\ e.id \in Model
                              /\ (e \in K <=> e.chat /\ e.id \notin out)
  BY DEF MistralModel
<1> HIDE DEF s, K, out
<1>9. \A i \in 1..Len(s) : s[i] \in K /\ \E j \in 1..Len(listing) : s[i] = listing[j]
  BY <1>4
<1>10. \A j \in 1..Len(listing) : listing[j] \in K => \E i \in 1..Len(s) : s[i] = listing[j]
  BY <1>4
<1>11. \A i \in 1..Len(s) : s[i].id \in Gate(p)!Offered(Capabilities(listing))
  BY <1>5, <1>6, <1>7, <1>8, <1>9
<1>12. ASSUME NEW m \in Gate(p)!Offered(Capabilities(listing))
       PROVE  \E i \in 1..Len(s) : s[i].id = m
  <2>1. PICK j \in 1..Len(listing) : listing[j].id = m /\ listing[j].chat
    BY <1>5, <1>7, <1>12
  <2>2. listing[j] \in K
    BY <1>5, <1>6, <1>8, <1>12, <2>1
  <2>3. QED
    BY <1>10, <2>1, <2>2
<1>13. \A i \in 1..Len(s) : Gate(p)!ConfigAllows(s[i].id)
  BY <1>5, <1>6, <1>8, <1>9
<1>14. QED
  BY <1>3, <1>11, <1>12, <1>13 DEF s

\* A document's context window is that of the model's other description, if
\* that fits.
LEMMA WindowsAgree ==
  ASSUME NEW m \in MistralModel, NEW ovr, ovr.context_window \in Optional(Window)
  PROVE  LET w == ContextWindow(m, ovr)
         IN Clamp(w) \in 0..MaxWindow /\ (w \in 0..MaxWindow => Clamp(w) = w)
<1>1. ContextWindow(m, ovr) \in Int
  <2>1. \A w \in Window : w \in Int
    BY DiscoveryAssumption
  <2>2. m.max_context_length \in Int \cup {Absent} /\ DefaultWindow \in Int
    BY DiscoveryAssumption DEF MistralModel, Optional
  <2>3. OrElse(m.max_context_length, DefaultWindow) \in Int
    BY <2>2, Zenon DEF OrElse
  <2>4. ovr.context_window \in Window \/ ovr.context_window = Absent
    BY DEF Optional
  <2>5. QED
    BY <2>1, <2>3, <2>4, Zenon DEF ContextWindow, OrElse
<1>2. QED
  BY <1>1, DiscoveryAssumption DEF Clamp

LEMMA LenOfList ==
  ASSUME NEW N \in Nat, NEW f, f = [i \in 1..N |-> f[i]]
  PROVE  Len(f) = N
<1> DEFINE S == {f[i] : i \in 1..N}
<1>1. f \in [1..N -> S]
  OBVIOUS
<1> HIDE DEF S
<1>2. f \in Seq(S)
  BY <1>1
<1>3. QED
  BY <1>1, <1>2, LenProperties

LEMMA ShapesHold ==
  ASSUME TypeOK, ConfigInForce
  PROVE  ShapesAgree
<1> SUFFICES ASSUME NEW p \in Serving, NEW listing \in Listings
             PROVE  LET shown_models == ModelsResponse(listing, config[p])
                        service == ServiceList(listing, config[p])
                        docs == IF service = <<>> THEN <<>> ELSE service[1].models
                    IN /\ (service = <<>>) = (File(p).enabled = FALSE)
                       /\ Len(docs) = Len(shown_models)
                       /\ File(p).enabled # FALSE =>
                            {docs[i].id : i \in DOMAIN docs} = Gate(p)!Offered(Capabilities(listing))
                       /\ \A i \in DOMAIN docs :
                            LET d == docs[i]
                                s == shown_models[i]
                                o == File(p).model_overrides[d.id]
                            IN /\ s.slug = d.id /\ s.priority = i - 1
                               /\ Gate(p)!ConfigAllows(d.id)
                               /\ s.base_instructions = d.base_instructions
                               /\ d.context_window \in 0..MaxWindow
                               /\ s.context_window \in 0..MaxWindow =>
                                    d.context_window = s.context_window
                               /\ o # Absent =>
                                    /\ o.context_window # Absent =>
                                         s.context_window = o.context_window
                                    /\ o.base_instructions # Absent =>
                                         d.base_instructions = o.base_instructions
                                    /\ d.upstream_model_id = o.upstream_model_id
                                    /\ d.detail = o.detail
  BY DEF ShapesAgree
<1> DEFINE c == config[p]
           k == Survivors(listing, c)
           N == Len(k)
           ovr(i) == OverrideOf(c, k[i].id)
           infos == [i \in DOMAIN k |-> ModelInfoFor(i - 1, k[i], ovr(i))]
           entries == [i \in DOMAIN k |-> ModelDocumentFor(k[i], ovr(i))]
           shown_models == ModelsResponse(listing, c)
           service == ServiceList(listing, c)
           docs == IF service = <<>> THEN <<>> ELSE service[1].models
           file == File(p)
<1>1. p \in Process /\ pc[p] = "serving"
  BY DEF Serving
<1>2. /\ c \in ResolvedConfig /\ file \in Settings
      /\ c.enabled = (file.enabled # FALSE)
      /\ \A m \in Model : Resolved(p, m)
  BY <1>1 DEF TypeOK, ConfigInForce, Bound
<1>3. /\ k \in Seq(MistralModel)
      /\ {k[i].id : i \in 1..N} = Gate(p)!Offered(Capabilities(listing))
      /\ \A i \in 1..N : Gate(p)!ConfigAllows(k[i].id)
  BY <1>1, SurvivorsAre
<1>4. N \in Nat /\ DOMAIN k = 1..N /\ \A i \in 1..N : k[i] \in MistralModel
  BY <1>3
<1>5. CASE file.enabled = FALSE
  <2>1. c.enabled = FALSE
    BY <1>2, <1>5
  <2>2. service = <<>> /\ shown_models = <<>>
    BY <2>1 DEF ServiceList, ModelsResponse
  <2>3. docs = <<>> /\ DOMAIN docs = {}
    BY <2>2
  <2>4. QED
    BY <1>5, <2>2, <2>3
<1>6. CASE file.enabled # FALSE
  <2>1. c.enabled = TRUE
    BY <1>2, <1>6
  <2>2. /\ TranslateMistralModels(listing, c).response = infos
        /\ TranslateMistralModels(listing, c).documents = entries
    BY DEF TranslateMistralModels
  <2> HIDE DEF infos, entries
  <2>3. service = <<[enabled |-> TRUE, models |-> entries]>> /\ shown_models = infos
    BY <2>1, <2>2 DEF ServiceList, ModelsResponse
  <2>4. service # <<>> /\ docs = entries
    BY <2>3
  <2>5. /\ DOMAIN infos = 1..N /\ infos = [i \in 1..N |-> infos[i]]
        /\ DOMAIN entries = 1..N /\ entries = [i \in 1..N |-> entries[i]]
        /\ \A i \in 1..N : /\ infos[i] = ModelInfoFor(i - 1, k[i], ovr(i))
                           /\ entries[i] = ModelDocumentFor(k[i], ovr(i))
    BY <1>4 DEF infos, entries
  <2>6. Len(docs) = Len(shown_models)
    BY <1>4, <2>3, <2>4, <2>5, LenOfList
  <2>7. {docs[i].id : i \in DOMAIN docs} = Gate(p)!Offered(Capabilities(listing))
    <3>1. \A i \in 1..N : entries[i].id = k[i].id
      BY <2>5 DEF ModelDocumentFor
    <3> HIDE DEF k, N, docs
    <3>2. {entries[i].id : i \in 1..N} = {k[i].id : i \in 1..N}
      BY <3>1
    <3>3. QED
      BY <1>3, <2>4, <2>5, <3>2
  <2>8. ASSUME NEW i \in 1..N
        PROVE  LET d == docs[i]
                   s == shown_models[i]
                   o == file.model_overrides[d.id]
               IN /\ s.slug = d.id /\ s.priority = i - 1
                  /\ Gate(p)!ConfigAllows(d.id)
                  /\ s.base_instructions = d.base_instructions
                  /\ d.context_window \in 0..MaxWindow
                  /\ s.context_window \in 0..MaxWindow => d.context_window = s.context_window
                  /\ o # Absent =>
                       /\ o.context_window # Absent => s.context_window = o.context_window
                       /\ o.base_instructions # Absent =>
                            d.base_instructions = o.base_instructions
                       /\ d.upstream_model_id = o.upstream_model_id /\ d.detail = o.detail
    <3> DEFINE m == k[i]
               v == ovr(i)
               d == docs[i]
               s == shown_models[i]
               o == file.model_overrides[m.id]
    <3>1. s = ModelInfoFor(i - 1, m, v) /\ d = ModelDocumentFor(m, v)
      BY <2>3, <2>4, <2>5
    <3>2. m \in MistralModel /\ m.id \in Model /\ Gate(p)!ConfigAllows(m.id)
      BY <1>3, <1>4 DEF MistralModel
    <3>3. v = OrElse(c.model_overrides[m.id], NoOverride)
      BY DEF OverrideOf
    <3>4. c.model_overrides[m.id] \in Optional(ModelOverride)
      BY <1>2, <3>2 DEF ResolvedConfig
    <3>5. v \in ModelOverride
      BY <3>3, <3>4 DEF OrElse, Optional, NoOverride, ModelOverride
    <3>6. Resolved(p, m.id)
      BY <1>2, <3>2
    <3> HIDE DEF d, s, v, m, c, o, file
    <3>7. /\ s.slug = m.id /\ s.priority = i - 1 /\ d.id = m.id
          /\ s.base_instructions = Instructions(v) /\ d.base_instructions = Instructions(v)
          /\ s.context_window = ContextWindow(m, v)
          /\ d.context_window = Clamp(ContextWindow(m, v))
          /\ d.upstream_model_id = v.upstream_model_id /\ d.detail = v.detail
      BY <3>1 DEF ModelInfoFor, ModelDocumentFor
    <3>8. v.context_window \in Optional(Window)
      BY <3>5 DEF ModelOverride
    <3>9. /\ d.context_window \in 0..MaxWindow
          /\ s.context_window \in 0..MaxWindow => d.context_window = s.context_window
      BY <3>2, <3>7, <3>8, WindowsAgree
    <3>10. ASSUME o # Absent
           PROVE  /\ v.context_window = o.context_window
                  /\ o.base_instructions # Absent => v.base_instructions = o.base_instructions
                  /\ v.upstream_model_id = o.upstream_model_id /\ v.detail = o.detail
      <4>1. c.model_overrides[m.id] # Absent /\ v = c.model_overrides[m.id]
        BY <3>3, <3>6, <3>10 DEF Resolved, OrElse, o, c, file
      <4>2. QED
        BY <3>6, <3>10, <4>1 DEF Resolved, BothInstructions, o, c, file
    <3>11. o # Absent =>
             /\ o.context_window # Absent => s.context_window = o.context_window
             /\ o.base_instructions # Absent => d.base_instructions = o.base_instructions
             /\ d.upstream_model_id = o.upstream_model_id /\ d.detail = o.detail
      BY <3>7, <3>10 DEF Instructions, ContextWindow, OrElse
    <3>12. QED
      BY <3>2, <3>7, <3>9, <3>11 DEF d, s, o, file
  <2>9. DOMAIN docs = 1..N
    BY <2>4, <2>5
  <2> HIDE DEF docs, service, shown_models, file
  <2>10. (service = <<>>) = (file.enabled = FALSE)
    BY <1>6, <2>4
  <2>11. QED
    BY <2>6, <2>7, <2>8, <2>9, <2>10 DEF docs, service, shown_models, file
<1>7. QED
  BY <1>5, <1>6

-----------------------------------------------------------------------------
\* Whatever the upstream lists, both discovery answers and the gate agree on
\* the models, and say of each what the operator's file sets
\* (translate_mistral_models, model_info_for, model_document_for).
THEOREM DiscoveryTellsFile == Spec => []ShapesAgree
BY TypeCorrect, ConfigIsFile, ShapesHold, PTL

\* However headers are spelled, repeated or ordered, the proxy's own
\* authorization and host go up, each once, and end-to-end headers pass as they
\* came; of other credentials the caller sends this says nothing
\* (build_upstream_headers, relay_response).
THEOREM HeadersGoThrough == Spec => []HeadersPass
BY HeadersHold, PTL
=============================================================================
