----------------------------- MODULE GeneralApi -----------------------------
(***************************************************************************)
(* archive_general_api.py: the settings file of the Archive client and the *)
(* processes that use it.  A process is one run of the command line, or    *)
(* the backend that serves the router, whose handlers never overlap.  All  *)
(* of them read, merge and replace the same file, without a lock.          *)
(*                                                                         *)
(* An operation that raises before it changed anything is no step.         *)
(***************************************************************************)
EXTENDS Naturals, Functions

CONSTANTS
    Processes,
    Base,          \* GeneralApiConfigStore._base: the settings of no file
    Environment,   \* process -> bot -> what its variables override
    Patches,       \* what update and configure are called with
    AllowedRoles,
    MinimumCash,
    Urls,          \* the texts that are absolute http or https addresses
    Blanks,        \* a text of blanks only
    MaxIssued,     \* bound: tokens that Archive issues
    Missing        \* there is no settings file

Settings == DOMAIN Base
Partial  == << >>   \* a file that was opened for writing: no setting in it
NoToken  == 0

\* The bots that a settings file may name, and the settings of which the
\* environment of a process has variables.
Bots == {Base.bot} \cup
        ({patch["bot"] : patch \in {x \in Patches : "bot" \in DOMAIN x}}
           \ {"", Blanks})
Overridable == {"url", "run", "participant", "token", "enabled"}

VARIABLES
    file,     \* the settings file
    pc,       \* where the operation of a process stands
    work,     \* what the operation has read, sent and got
    issued,   \* tokens that Archive issued so far
    fresh     \* no other process replaced the file during the operation

vars == <<file, pc, work, issued, fresh>>

Blank ==
    [patch |-> <<>>, config |-> Base, run |-> "", participant |-> "",
     named |-> FALSE, token |-> NoToken]

Init ==
    /\ file \in {Missing, Base}
    /\ pc = [p \in Processes |-> "idle"]
    /\ work = [p \in Processes |-> Blank]
    /\ issued = NoToken
    /\ fresh = [p \in Processes |-> TRUE]

-----------------------------------------------------------------------------
(* Settings *)

Updated(config, changes) ==
    [s \in Settings |-> IF s \in DOMAIN changes THEN changes[s] ELSE config[s]]

\* What validate makes of x as setting s: a text is stripped, no role means
\* the default one, and no address the default address.
Texts == {"bot", "run", "participant", "token"}
Empty(s) == IF s = "token" THEN NoToken ELSE ""

Stands(s, x) ==
    CASE s \in Texts /\ x = Blanks -> Empty(s)
      [] s = "roles" /\ x = {}      -> {"trader"}
      [] s = "url" /\ x = ""        -> Base.url
      [] OTHER                      -> x

Normalized(config) == [s \in Settings |-> Stands(s, config[s])]

\* validate does not raise.
Valid(config) ==
    /\ config.bot # "" /\ config.participant # ""
    /\ config.url \in Urls
    /\ config.roles \subseteq AllowedRoles
    /\ config.cash >= MinimumCash

\* The settings that load starts from are legal.
ASSUME BaseAssumption ==
    /\ {"bot", "url", "run", "participant", "token", "enabled", "roles", "cash"}
          \subseteq Settings
    /\ Base = Normalized(Base) /\ Valid(Base)
    /\ "trader" \in AllowedRoles
    /\ Missing # Partial

ASSUME BlanksAssumption == "" \notin Urls /\ Blanks # "" /\ Blanks \notin Nat

\* An empty variable counts as none, but one of blanks counts.
ASSUME EnvironmentAssumption ==
    \A p \in Processes, bot \in Bots :
       DOMAIN Environment[p][bot] \subseteq Overridable

ASSUME IssuedAssumption == MaxIssued \in Nat

OnDisk == IF file = Missing THEN Base ELSE file

\* The variables of the bot that the file names.
Overrides(p) == Environment[p][OnDisk.bot]

Loaded(p) == Normalized(Updated(OnDisk, Overrides(p)))

\* load does not raise.
Loads(p) == file # Partial /\ Valid(Loaded(p))

\* The variables that p has for the bot of the file are legal.  They are read
\* only while the file names that bot: a save of the bot by one process can
\* lock another one out.
Legal(p) == Valid(Normalized(Updated(Base, Overrides(p))))

\* Mutant: an empty token clears the one on disk.
EveryNamed(patch) == DOMAIN patch

\* The settings that save takes from a patch: an empty token is not one.  A
\* token of blanks is one, and clears the token on disk.
Named(patch) ==
    DOMAIN patch \ (IF "token" \in DOMAIN patch /\ patch["token"] = NoToken
                    THEN {"token"} ELSE {})

Merged(p, patch) ==
    Normalized(Updated(Loaded(p), Restrict(patch, Named(patch))))

-----------------------------------------------------------------------------
(* Saving *)

Go(p, where, what) ==
    /\ pc' = [pc EXCEPT ![p] = where]
    /\ work' = [work EXCEPT ![p] = what]

Idle(p) == pc[p] = "idle"

Stop(p) ==
    /\ Go(p, "idle", Blank)
    /\ fresh' = [fresh EXCEPT ![p] = TRUE]

\* save, up to the validated configuration that it is going to write.
Merge(p, what) ==
    /\ Loads(p)
    /\ DOMAIN what.patch \subseteq Settings
    /\ Valid(Merged(p, what.patch))
    /\ Go(p, "write", [what EXCEPT !.config = Merged(p, what.patch)])

\* update_general_api_settings and the command configure.
Configure(p, patch) ==
    /\ Idle(p)
    /\ Merge(p, [Blank EXCEPT !.patch = patch])
    /\ UNCHANGED <<file, issued, fresh>>

\* Mutant: the settings file itself is opened and written.
WriteInPlace(p) ==
    /\ pc[p] = "write"
    /\ Go(p, "replace", work[p])
    /\ file' = Partial
    /\ UNCHANGED <<issued, fresh>>

\* The temporary file beside the settings file is created and written.
Write(p) ==
    /\ pc[p] = "write"
    /\ Go(p, "replace", work[p])
    /\ UNCHANGED <<file, issued, fresh>>

\* os.replace
Replace(p) ==
    /\ pc[p] = "replace"
    /\ file' = work[p].config
    /\ fresh' = [q \in Processes |-> q = p \/ pc[q] = "idle"]
    /\ Go(p, "idle", Blank)
    /\ UNCHANGED issued

\* The process ends or fails: save unlinks the temporary file and raises,
\* Archive refuses, or its answer is lost.  A crash leaves the temporary
\* file behind, which nobody reads.
Fail(p) ==
    /\ pc[p] # "idle"
    /\ Stop(p)
    /\ UNCHANGED <<file, issued>>

-----------------------------------------------------------------------------
(* Registration *)

Register(p) ==
    /\ Idle(p)
    /\ Loads(p)
    /\ Loaded(p).run # ""
    /\ Go(p, "posted", [Blank EXCEPT !.run = Loaded(p).run,
                          !.participant = Loaded(p).participant])
    /\ UNCHANGED <<file, issued, fresh>>

\* Mutant: the participant is the one the file names by now.
RegistrationOfFile(p, answer) ==
    [participant |-> Loaded(p).participant,
     token |-> answer.token, enabled |-> TRUE]

\* What save_registration makes of an answer: one that names no participant
\* takes the participant from the settings as they are now.
RegistrationPatch(p, answer) ==
    [participant |-> IF answer.named THEN answer.participant
                     ELSE Loaded(p).participant,
     token |-> answer.token, enabled |-> TRUE]

\* Archive answers, with a token or without one, and save_registration looks
\* for the participant.
Answer(p) ==
    \E named \in BOOLEAN, token \in {NoToken, issued + 1} :
       LET answer == [work[p] EXCEPT !.named = named, !.token = token] IN
       /\ pc[p] = "posted"
       /\ token <= MaxIssued
       /\ ~ named => Loads(p)
       /\ Go(p, "save", [answer EXCEPT !.patch = RegistrationPatch(p, answer)])
       /\ issued' = IF token = NoToken THEN issued ELSE token
       /\ UNCHANGED <<file, fresh>>

SaveRegistration(p) ==
    /\ pc[p] = "save"
    /\ Merge(p, work[p])
    /\ UNCHANGED <<file, issued, fresh>>

-----------------------------------------------------------------------------
(* Authenticated requests: the path comes from one load, the token from a  *)
(* later one.  events takes two loads for the path alone.                  *)

\* test_connection reads the specification of Archive and asks for the
\* account when a run and a token are configured.
TestConnection(p) ==
    /\ Idle(p)
    /\ Loads(p)
    /\ Loaded(p).run # "" /\ Loaded(p).token # NoToken
    /\ Go(p, "path", Blank)
    /\ UNCHANGED <<file, issued, fresh>>

TakePath(p) ==
    /\ Idle(p) \/ pc[p] = "path"
    /\ Loads(p)
    /\ Loaded(p).run # ""
    /\ Go(p, "send", [Blank EXCEPT !.run = Loaded(p).run,
                        !.participant = Loaded(p).participant])
    /\ UNCHANGED <<file, issued, fresh>>

\* events: the query names the participant before the path names the run.
TakeQuery(p) ==
    /\ Idle(p)
    /\ Loads(p)
    /\ Go(p, "events", [Blank EXCEPT !.participant = Loaded(p).participant])
    /\ UNCHANGED <<file, issued, fresh>>

TakeRun(p) ==
    /\ pc[p] = "events"
    /\ Loads(p)
    /\ Go(p, "send", [work[p] EXCEPT !.run = Loaded(p).run])
    /\ UNCHANGED <<file, issued, fresh>>

\* Mutant: the token is read past the environment.
TokenOnDisk(p) == OnDisk.token

TokenOf(p) == Loaded(p).token

\* _request, up to the request that leaves.
Send(p) ==
    /\ pc[p] = "send"
    /\ Loads(p)
    /\ TokenOf(p) # NoToken
    /\ Go(p, "sent", [work[p] EXCEPT !.token = TokenOf(p)])
    /\ UNCHANGED <<file, issued, fresh>>

Finish(p) ==
    /\ pc[p] = "sent"
    /\ Stop(p)
    /\ UNCHANGED <<file, issued>>

Next ==
    \E p \in Processes :
       \/ \E patch \in Patches : Configure(p, patch)
       \/ Write(p) \/ Replace(p) \/ Fail(p)
       \/ Register(p) \/ Answer(p) \/ SaveRegistration(p)
       \/ TestConnection(p) \/ TakePath(p) \/ TakeQuery(p) \/ TakeRun(p)
       \/ Send(p) \/ Finish(p)

Spec == Init /\ [][Next]_vars

-----------------------------------------------------------------------------
(* Properties *)

(* The file is there whole and can be loaded, whichever save fails, is     *)
(* interrupted or overtaken: nobody is locked out of settings that can     *)
(* only be changed by loading them first, except a process whose own       *)
(* variables for the bot of the file are illegal.                          *)
FileLoads == file # Partial /\ \A p \in Processes : Legal(p) => Loads(p)

Replaces(p) == pc[p] = "replace" /\ file' = work[p].config

(* A setting on disk changes for a reason: the save names it, the          *)
(* environment of the saving process overrides it, or the save began       *)
(* before the last one ended.  In particular a token is never lost to an   *)
(* empty field or to an answer of Archive that carries none, although it   *)
(* is lost to a field of blanks.                                           *)
OnlyOverlapLoses ==
    [][\A s \in Settings :
          file' # file /\ file'[s] # OnDisk[s] =>
             \E p \in Processes :
                /\ Replaces(p)
                /\ \/ s \in DOMAIN work[p].patch
                      /\ (s = "token" => work[p].patch["token"] # NoToken)
                   \/ s \in DOMAIN Overrides(p)
                   \/ ~ fresh[p]]_vars

(* A participant and the token issued for it reach the file together,      *)
(* whatever other processes saved since the registration was posted; its   *)
(* run stands beside them unless another save changed the run meanwhile.   *)
RegistrationLands ==
    [][\A p \in Processes :
          LET got == work[p] IN
          Replaces(p) /\ got.token # NoToken =>
             /\ file'.token = got.token /\ file'.enabled
             /\ got.named \/ fresh[p] => file'.participant = got.participant
             /\ fresh[p] => file'.run = got.run]_vars

(* A request during which no other process saved goes out under the run    *)
(* and participant and with the token that are in force when it leaves,    *)
(* overrides included, although they come from separate loads.             *)
RequestsFollowTheFile ==
    [][\A p \in Processes :
          pc[p] = "send" /\ pc'[p] = "sent" /\ fresh[p] =>
             /\ work'[p].run = Loaded(p).run
             /\ work'[p].participant = Loaded(p).participant
             /\ work'[p].token = Loaded(p).token]_vars

=============================================================================
