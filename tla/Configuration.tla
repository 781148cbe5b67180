--------------------------- MODULE Configuration ---------------------------
(***************************************************************************)
(* A service's settings file, and what a proxy makes of it.                *)
(*                                                                         *)
(* What a store returns for a service is Absent, Unreadable, Malformed or  *)
(* a Settings.  An optional key is its value or Absent.  Malformed is      *)
(* whatever json5 refuses against SettingsFile: broken JSONC, an unknown   *)
(* key, a value of the wrong type.                                         *)
(***************************************************************************)
CONSTANTS
  Model,         \* model ids
  Glob,          \* patterns globset compiles
  BadGlob,       \* a pattern it refuses
  Matching,      \* which glob matches which model: a subset of Glob \X Model
  DefaultGlobs,  \* ServiceDefaults::model_exclude_globs
  Url,           \* upstream base URLs as they may be given
  Trimmed,       \* Url -> Url, without slashes at the end
  Host,          \* Url -> host and port, or Absent: not a URL with a host
  DefaultUrl,    \* DEFAULT_UPSTREAM_BASE
  Text, Path,    \* instructions, and files they may be in
  Window,        \* context windows an override may set
  Detail,        \* what an override says of output tokens, efforts, costs
                 \* and preference
  Absent, Unreadable, Malformed

Optional(S) == S \cup {Absent}

\* Option::or, or unwrap_or.
OrElse(a, b) == IF a = Absent THEN b ELSE a

ASSUME ConfigurationAssumption ==
  /\ Matching \subseteq Glob \X Model
  /\ BadGlob \notin Glob /\ DefaultGlobs \subseteq Glob
  /\ Trimmed \in [Url -> Url] /\ DefaultUrl \in Url /\ DOMAIN Host = Url
  /\ Absent \notin Url /\ Absent \notin BOOLEAN /\ Absent \notin Text
  /\ Absent \notin Path /\ Absent \notin Model /\ Absent \notin Window
  /\ Absent \notin Detail /\ Absent \notin {"normal", "verbose"}
  /\ \A patterns \in SUBSET (Glob \cup {BadGlob}) : Absent # patterns
  /\ Unreadable \notin Text \cup {Absent}
  /\ Malformed \notin {Absent, Unreadable}

ModelOverride ==
  [base_instructions : Optional(Text), base_instructions_file : Optional(Path),
   enabled : Optional(BOOLEAN), context_window : Optional(Window),
   upstream_model_id : Optional(Model), detail : Optional(Detail)]

\* ModelOverride::default().
NoOverride ==
  [base_instructions |-> Absent, base_instructions_file |-> Absent,
   enabled |-> Absent, context_window |-> Absent,
   upstream_model_id |-> Absent, detail |-> Absent]

Settings ==
  [upstream_base_url : Optional(Url), enabled : Optional(BOOLEAN),
   model_exclude_globs : Optional(SUBSET (Glob \cup {BadGlob})),
   model_overrides : [Model -> Optional(ModelOverride)],
   log_level : Optional({"normal", "verbose"})]

\* SettingsFile::default(), for a file that is not there.
NoSettings ==
  [upstream_base_url |-> Absent, enabled |-> Absent, model_exclude_globs |-> Absent,
   model_overrides |-> [m \in Model |-> Absent], log_level |-> Absent]

ResolvedConfig ==
  [upstream_base_url : Optional(Url), enabled : BOOLEAN, exclude : SUBSET Glob,
   model_overrides : [Model -> Optional(ModelOverride)],
   log_level : {"normal", "verbose"}]

-----------------------------------------------------------------------------
(* load_config and resolve, in the order they go.                          *)

\* Faulty variant of GlobsCompile: a pattern that does not compile is kept.
GlobsCompileAll(file) == TRUE

\* Faulty variant of SettingsOf: a file that cannot be used is passed over.
SettingsOfLenient(raw) ==
  IF raw \in {Absent, Unreadable, Malformed} THEN NoSettings ELSE raw

\* What store.read and json5 make of the file; Malformed for any failure.
SettingsOf(raw) ==
  CASE raw = Absent -> NoSettings
    [] raw \in {Unreadable, Malformed} -> Malformed
    [] OTHER -> raw

Patterns(file) == OrElse(file.model_exclude_globs, DefaultGlobs)

GlobsCompile(file) == BadGlob \notin Patterns(file)

\* The configuration before the first override is looked at.
ResolvedBase(file) ==
  [upstream_base_url |-> file.upstream_base_url,
   enabled |-> OrElse(file.enabled, TRUE),
   exclude |-> Patterns(file),
   model_overrides |-> [m \in Model |-> Absent],
   log_level |-> OrElse(file.log_level, "normal")]

BothInstructions(ovr) ==
  ovr.base_instructions # Absent /\ ovr.base_instructions_file # Absent

\* An override with the contents of its instructions file taken in.
WithText(ovr, text) ==
  [ovr EXCEPT !.base_instructions = text, !.base_instructions_file = Absent]

\* resolve_upstream_base: command line, then file, then default.
UpstreamBase(cli_flag, config) ==
  Trimmed[OrElse(cli_flag, OrElse(config.upstream_base_url, DefaultUrl))]

-----------------------------------------------------------------------------
(* What the rest of the proxy asks of a configuration.                     *)

\* exclude.is_match.
ExcludedBy(config) == {m \in Model : \E g \in config.exclude : <<g, m>> \in Matching}

\* Models whose override says enabled: false.
DisabledBy(config) ==
  {m \in Model : LET ovr == config.model_overrides[m]
                 IN ovr # Absent /\ OrElse(ovr.enabled, TRUE) = FALSE}

\* overrides.get(m).cloned().unwrap_or_default()
OverrideOf(config, m) == OrElse(config.model_overrides[m], NoOverride)
=============================================================================
