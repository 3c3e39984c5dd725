---------------------------- MODULE MCGeneralApi ----------------------------
(***************************************************************************)
(* An instance of GeneralApi for TLC: a backend and a command line whose  *)
(* environments differ.  For the bot of the file one has its own address   *)
(* of Archive and the other its own participant; for another bot the       *)
(* first has a participant of blanks, with which it can load nothing, and  *)
(* the second a token.                                                     *)
(***************************************************************************)
EXTENDS GeneralApi, TLC

MCProcesses == {"backend", "shell"}

MCBase ==
    [bot |-> "combination", url |-> "local", run |-> "",
     participant |-> "combination", token |-> NoToken, enabled |-> FALSE,
     roles |-> {"trader"}, cash |-> 2]

MCEnvironment ==
    ("backend" :> ("combination" :> ("url" :> "mirror")
                    @@ "other" :> ("participant" :> Blanks)))
    @@ ("shell" :> ("combination" :> ("participant" :> "shell")
                    @@ "other" :> ("token" :> 9)))

\* A run; another bot; a token of blanks; a repair of the roles with an empty
\* token and the default address; and patches that raise: a number below its
\* minimum, an unsupported role, a participant of blanks, an address that is
\* none, a setting that is none.
MCPatches ==
    {"run" :> "first", "run" :> "second", "bot" :> "other",
     "token" :> Blanks, "roles" :> {} @@ "token" :> NoToken @@ "url" :> "",
     "cash" :> 0, "roles" :> {"admin"}, "participant" :> Blanks,
     "url" :> "nowhere", "colour" :> 1}

=============================================================================
