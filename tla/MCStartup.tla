----------------------------- MODULE MCStartup -----------------------------
(* Two processes, two ports; settings files that set everything, something *)
(* or nothing, and one for each fault.                                     *)
EXTENDS Setup, TLC

A(port_, info_, upstream_, dir_) ==
  [port |-> port_, server_info |-> info_, upstream_base |-> upstream_,
   config_dir |-> dir_, env_dir |-> Absent, home |-> "home"]

\* Both on one port; both anywhere; one fixed, one anywhere without info file.
MCArgs ==
  {[p \in Process |-> A("8080", TRUE, Absent, Absent)],
   [p \in Process |-> A(Absent, TRUE, Absent, Absent)],
   ("p1" :> A("8080", TRUE, "flag_slash", "flag") @@
    "p2" :> [A(Absent, FALSE, Absent, Absent) EXCEPT !.env_dir = "env", !.home = Absent]),
   ("p1" :> [A("8080", TRUE, Absent, Absent) EXCEPT !.home = Absent] @@
    "p2" :> [A(Absent, FALSE, "nowhere", Absent) EXCEPT !.env_dir = "env"])}

O(changes) == changes @@ NoOverride
S(changes) == changes @@ NoSettings
Ovr(m1, m2) == [NoSettings.model_overrides EXCEPT !["m1"] = m1, !["m2"] = m2]

Full ==
  S("upstream_base_url" :> "file" @@
    "model_exclude_globs" :> {"glob_m3"} @@ "log_level" :> "verbose" @@
    "model_overrides" :>
      Ovr(O("base_instructions_file" :> "prompt" @@ "context_window" :> 3 @@
            "upstream_model_id" :> "m4" @@ "detail" :> "costs"),
          O("enabled" :> FALSE @@ "base_instructions" :> "inline")))

Some == S("model_exclude_globs" :> {} @@ "model_overrides" :>
            Ovr(O("base_instructions" :> "inline" @@ "enabled" :> TRUE), Absent))

Off == S("enabled" :> FALSE)

Both == S("model_overrides" :>
            Ovr(O("base_instructions" :> "inline" @@ "base_instructions_file" :> "prompt"),
                Absent))

BadPattern == S("model_exclude_globs" :> {"glob_m3", BadGlob})
BadUrl == S("upstream_base_url" :> "nowhere")

Contents == {Absent, Unreadable, Malformed, Full, Some, Off, Both, BadPattern, BadUrl}
MCDisks == {[d \in Dir |-> c] : c \in Contents}
MCEdits == {<<"home", Absent>>, <<"home", Full>>}
MCTextFiles == {[f \in Path |-> "long"], [f \in Path |-> Unreadable]}

MCMatching == {<<"glob_m3", "m3">>, <<"glob_m4", "m4">>}

MCTrimmed ==
  [u \in Url |-> IF u = "flag_slash" THEN "flag" ELSE u]
MCHost ==
  [u \in Url |-> CASE u \in {"flag_slash", "flag"} -> "flag_443"
                   [] u = "file" -> "file"
                   [] u = "default" -> "default"
                   [] OTHER -> Absent]

\* Nothing listed; every model in either order; windows below, in and above
\* the range of a document; a model without chat.
E(m, chat_, window_) == [id |-> m, chat |-> chat_, max_context_length |-> window_]
MCListings ==
  {<<>>,
   <<E("m1", TRUE, 2), E("m2", TRUE, Absent), E("m3", TRUE, 9), E("m4", TRUE, -1)>>,
   <<E("m4", TRUE, 9), E("m3", FALSE, 1), E("m2", TRUE, 4), E("m1", TRUE, Absent)>>,
   <<E("m3", TRUE, 4), E("m1", FALSE, 4), E("m4", TRUE, Absent)>>}

MCSpelling == Name \cup {"Authorization", "HOST", "Content-Length", "X-Api-Key"}
MCLower ==
  [f \in Spelling |-> CASE f = "Authorization" -> "authorization"
                       [] f = "HOST" -> "host"
                       [] f = "Content-Length" -> "content-length"
                       [] f = "X-Api-Key" -> "x-api-key"
                       [] OTHER -> f]
H(f, v) == [field |-> f, value |-> v]
MCHeaderLists ==
  {<<>>,
   <<H("authorization", "a"), H("x", "a"), H("Authorization", "b"), H("host", "a")>>,
   <<H("HOST", "a"), H("Content-Length", "b"), H("x", "a"), H("x", "b"), H("y", BadValue)>>,
   <<H("X-Api-Key", "a"), H("x", "b"), H("cookie", "b"), H("x-api-key", "b")>>,
   <<H("y", "b"), H("trailer", "a"), H("content-type", "a"), H("x", "b"), H("y", "a")>>}

MCInfoLength == [p \in Process |-> IF p = "p1" THEN 2 ELSE 1]
=============================================================================
